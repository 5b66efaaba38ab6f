-------------------------------- MODULE Amf --------------------------------
(***************************************************************************)
(* The AMF codec of package/app/rtmpServer (amf.cc): values are written    *)
(* into an Encoder one after the other, the peer gets the buffer whole or  *)
(* cut short, and reads them back with a Decoder.                          *)
(*                                                                         *)
(* A cell of the buffer is a marker byte, a length, a character or a       *)
(* number: fields of two, four or eight bytes are one cell.  AMF3 integers *)
(* are kept byte by byte, because their length depends on their value.     *)
(* std::map's order of the keys is some fixed order here.                  *)
(***************************************************************************)
EXTENDS AmfValues, Integers, Sequences, SequencesExt

CONSTANTS
  Messages,   \* the sequences of values that may be written
  Messages3,  \* those that a peer may write in AMF3
  LenRange    \* bound: number of values of a string's length; 65536 in the code

AmfAssumption == LenRange \in Nat \ {0}

AMF0_NUMBER == 0
AMF0_BOOLEAN == 1
AMF0_STRING == 2
AMF0_OBJECT == 3
AMF0_NULL == 5
AMF0_UNDEFINED == 6
AMF0_ECMA_ARRAY == 8
AMF0_OBJECT_END == 9
AMF0_SWITCH_AMF3 == 17

AMF3_UNDEFINED == 0
AMF3_NULL == 1
AMF3_FALSE == 2
AMF3_TRUE == 3
AMF3_INTEGER == 4
AMF3_NUMBER == 5
AMF3_STRING == 6
AMF3_ARRAY == 9
AMF3_OBJECT == 10

-----------------------------------------------------------------------------
\* Encoding.

\* Mutant: the key's length counts the marker of its value too.
amf_write_key_long(s) == <<(Len(s) + 1) % LenRange>> \o s

amf_write_key(s) == <<Len(s) % LenRange>> \o s

RECURSIVE amf_write(_)

Fields(o) ==
  FlattenSeq([i \in DOMAIN SetToSeq(DOMAIN o) |->
    amf_write_key(SetToSeq(DOMAIN o)[i]) \o amf_write(o[SetToSeq(DOMAIN o)[i]])])
  \o amf_write_key(<<>>) \o <<AMF0_OBJECT_END>>

amf_write_object(o) == <<AMF0_OBJECT>> \o Fields(o)

amf_write_ecma(o) == <<AMF0_ECMA_ARRAY, 0>> \o Fields(o)

\* An undefined value writes nothing.  as_integer returns a double, so that an
\* integer is written as a number, and the overload that throws is never called.
amf_write(v) ==
  CASE v.type = "AMF_STRING"  -> <<AMF0_STRING>> \o amf_write_key(v.s)
    [] v.type \in {"AMF_NUMBER", "AMF_INTEGER"} -> <<AMF0_NUMBER, v.n>>
    [] v.type = "AMF_BOOLEAN" -> <<AMF0_BOOLEAN, v.n>>
    [] v.type = "AMF_OBJECT"  -> amf_write_object(v.o)
    [] v.type = "AMF_ECMA_ARRAY" -> amf_write_ecma(v.o)
    [] v.type = "AMF_NULL"    -> <<AMF0_NULL>>
    [] OTHER                  -> <<>>

\* as_object asserts that the value is not an array.
RECURSIVE Throws(_)
Throws(v) ==
  \/ v.type = "AMF_ECMA_ARRAY"
  \/ \E k \in DOMAIN v.o : Throws(v.o[k])
-----------------------------------------------------------------------------
\* Decoding.  A Decoder carries what the last call returned in `out`.
Decoder(buf, version) == [buf |-> buf, pos |-> 0, version |-> version, fail |-> FALSE, out |-> NullValue]

enough(d, n) == d.pos + n <= Len(d.buf)
peek(d)      == d.buf[d.pos + 1]
throw(d)     == [d EXCEPT !.fail = TRUE]
return(d, v) == IF d.fail THEN d ELSE [d EXCEPT !.out = v]
skip(d, n)   == [d EXCEPT !.pos = @ + n]

\* A field of one cell; and a byte, in front of which the switch to AMF3 may be.
cell(d) == IF d.fail \/ ~enough(d, 1) THEN throw(d) ELSE return(skip(d, 1), Number(peek(d)))

get_byte(d) ==
  IF ~d.fail /\ d.version = 0 /\ enough(d, 1) /\ peek(d) = AMF0_SWITCH_AMF3
  THEN cell([skip(d, 1) EXCEPT !.version = 3])
  ELSE cell(d)

expect(d, marker) == LET b == get_byte(d) IN IF b.out.n = marker THEN b ELSE throw(b)

chars(d, n) ==
  IF d.fail \/ ~enough(d, n) THEN throw(d)
  ELSE return(skip(d, n), String(SubSeq(d.buf, d.pos + 1, d.pos + n)))

\* Three bytes of seven bits and one of eight.
RECURSIVE u29(_, _, _)
u29(d, i, value) ==
  LET b == get_byte(d)
  IN IF b.fail THEN b
     ELSE IF i = 3 THEN return(b, Integer(value * 256 + b.out.n))
     ELSE IF b.out.n < 128 THEN return(b, Integer(value * 128 + b.out.n))
     ELSE u29(b, i + 1, value * 128 + (b.out.n % 128))

load_amf3_integer(d) == u29(d, 0, 0)

amf_load_key(d) == LET l == cell(d) IN chars(l, l.out.n)

amf_load_string(d) ==
  LET t == get_byte(d)
      l == load_amf3_integer(t)
  IN IF t.version = 3
     THEN IF t.out.n = AMF3_STRING THEN chars(l, l.out.n \div 2) ELSE throw(t)
     ELSE IF t.out.n = AMF0_STRING THEN amf_load_key(t) ELSE throw(t)

\* The marker of an AMF0 number is asked for in AMF3 too.
amf_load_number(d) == cell(expect(d, AMF0_NUMBER))

\* In AMF3 the marker, which amf_load has not skipped, is the integer's first byte.
amf_load_integer(d) == IF d.version = 3 THEN load_amf3_integer(d) ELSE amf_load_number(d)

amf_load_boolean(d) ==
  LET b == get_byte(expect(d, AMF0_BOOLEAN))
  IN return(b, Boolean(IF b.out.n = 0 THEN 0 ELSE 1))

RECURSIVE amf_load(_)

\* Keys and values up to an empty key; the first of two equal keys is kept.
RECURSIVE members(_, _)
members(d, o) ==
  LET k == amf_load_key(d)
      v == amf_load(k)
  IN IF k.fail THEN k
     ELSE IF k.out.s = <<>> THEN return(expect(k, AMF0_OBJECT_END), Object(o))
     ELSE IF v.fail THEN v
     ELSE members(v, [x \in DOMAIN o \cup {k.out.s} |-> IF x \in DOMAIN o THEN o[x] ELSE v.out])

none == [x \in {} |-> NullValue]

amf_load_object(d) ==
  LET t == expect(d, AMF0_OBJECT) IN IF t.fail THEN t ELSE members(t, none)

\* The map is returned as a plain object.
amf_load_ecma(d) ==
  LET t == cell(expect(d, AMF0_ECMA_ARRAY)) IN IF t.fail THEN t ELSE members(t, none)

amf_load3(d) ==
  CASE peek(d) = AMF3_STRING    -> amf_load_string(d)
    [] peek(d) = AMF3_NUMBER    -> amf_load_number(d)
    [] peek(d) = AMF3_INTEGER   -> amf_load_integer(d)
    [] peek(d) = AMF3_FALSE     -> return(skip(d, 1), Boolean(0))
    [] peek(d) = AMF3_TRUE      -> return(skip(d, 1), Boolean(1))
    [] peek(d) = AMF3_OBJECT    -> amf_load_object(d)
    [] peek(d) = AMF3_ARRAY     -> amf_load_ecma(d)
    [] peek(d) = AMF3_NULL      -> return(skip(d, 1), NullValue)
    [] peek(d) = AMF3_UNDEFINED -> return(skip(d, 1), Undefined)
    [] OTHER                    -> throw(d)

amf_load0(d) ==
  CASE peek(d) = AMF0_STRING     -> amf_load_string(d)
    [] peek(d) = AMF0_NUMBER     -> amf_load_number(d)
    [] peek(d) = AMF0_BOOLEAN    -> amf_load_boolean(d)
    [] peek(d) = AMF0_OBJECT     -> amf_load_object(d)
    [] peek(d) = AMF0_ECMA_ARRAY -> amf_load_ecma(d)
    [] peek(d) = AMF0_NULL       -> return(skip(d, 1), NullValue)
    [] peek(d) = AMF0_UNDEFINED  -> return(skip(d, 1), Undefined)
    [] OTHER                     -> throw(d)

amf_load(d) ==
  IF d.fail \/ ~enough(d, 1) THEN throw(d)
  ELSE IF d.version = 3 THEN amf_load3(d) ELSE amf_load0(d)
-----------------------------------------------------------------------------
\* A peer that writes AMF3 as it is specified.
U29(n) ==
  CASE n < 128               -> <<n>>
    [] n \in 128 .. 16383     -> <<128 + (n \div 128), n % 128>>
    [] n \in 16384 .. 2097151 -> <<128 + (n \div 16384), 128 + ((n \div 128) % 128), n % 128>>
    [] OTHER -> <<128 + (n \div 4194304), 128 + ((n \div 32768) % 128),
                  128 + ((n \div 256) % 128), n % 256>>

write3(v) ==
  CASE v.type = "AMF_STRING"  -> <<AMF3_STRING>> \o U29(2 * Len(v.s) + 1) \o v.s
    [] v.type = "AMF_NUMBER"  -> <<AMF3_NUMBER, v.n>>
    [] v.type = "AMF_INTEGER" -> <<AMF3_INTEGER>> \o U29(v.n)
    [] v.type = "AMF_BOOLEAN" -> <<IF v.n = 0 THEN AMF3_FALSE ELSE AMF3_TRUE>>
    [] v.type = "AMF_OBJECT"  -> <<AMF3_OBJECT, 11, 1, 1>>     \* one without members
    [] v.type = "AMF_ECMA_ARRAY" -> <<AMF3_ARRAY, 1, 1>>
    [] v.type = "AMF_NULL"    -> <<AMF3_NULL>>
    [] OTHER                  -> <<AMF3_UNDEFINED>>

VARIABLES
  sent,   \* the values to write
  enc,    \* Encoder::buf
  done,   \* how many of them are written
  dec,    \* the peer's Decoder
  got,    \* what it has loaded
  at      \* "write", "load", or how it ended: "end", "refused", "thrown"

vars == <<sent, enc, done, dec, got, at>>

Init ==
  /\ \/ sent \in Messages /\ dec = Decoder(<<>>, 0)
     \/ sent \in Messages3 /\ dec = Decoder(<<>>, 3)
  /\ enc = <<>> /\ done = 0 /\ got = <<>> /\ at = "write"

Write ==
  /\ at = "write" /\ done < Len(sent) /\ done' = done + 1
  /\ IF dec.version = 0 /\ Throws(sent[done + 1])
     THEN at' = "thrown" /\ UNCHANGED enc
     ELSE /\ at' = at
          /\ enc' = enc \o IF dec.version = 3 THEN write3(sent[done + 1]) ELSE amf_write(sent[done + 1])
  /\ UNCHANGED <<sent, dec, got>>

\* The message arrives, whole or with its end missing.
Deliver ==
  /\ at = "write" /\ done = Len(sent) /\ at' = "load"
  /\ \E n \in 0 .. Len(enc) : dec' = [dec EXCEPT !.buf = SubSeq(enc, 1, n)]
  /\ UNCHANGED <<sent, enc, done, got>>

Load ==
  /\ at = "load" /\ Len(got) < Len(sent)
  /\ dec' = amf_load(dec)
  /\ IF dec'.fail THEN at' = "refused" /\ got' = got ELSE at' = at /\ got' = Append(got, dec'.out)
  /\ UNCHANGED <<sent, enc, done>>

End == at = "load" /\ Len(got) = Len(sent) /\ at' = "end" /\ UNCHANGED <<sent, enc, done, dec, got>>

Next == Write \/ Deliver \/ Load \/ End

Spec == Init /\ [][Next]_vars
-----------------------------------------------------------------------------
\* Whether a value survives: AMF0 keeps everything but undefined values, integers,
\* empty keys and strings whose length does not fit its field; of AMF3, numbers,
\* integers, objects and arrays are not understood.
RECURSIVE Faithful(_)
Faithful(v) ==
  /\ v.type \notin {"AMF_UNDEFINED", "AMF_INTEGER"} /\ Len(v.s) < LenRange
  /\ \A k \in DOMAIN v.o : k # <<>> /\ Len(k) < LenRange /\ Faithful(v.o[k])

Survives(v) ==
  IF dec.version = 0 THEN Faithful(v)
  ELSE v.type \in {"AMF_STRING", "AMF_BOOLEAN", "AMF_NULL", "AMF_UNDEFINED"}

Whole == Len(dec.buf) = Len(enc)

\* What is read back is what was written, value for value, exactly when every value
\* survives: an integer comes back as a number, and the others do not only get
\* lost, they spoil what comes after.
RoundTrip ==
  at \in {"end", "refused"} /\ Whole =>
    (got = sent /\ dec.pos = Len(enc) <=> \A i \in DOMAIN sent : Survives(sent[i]))

\* A message that is cut short gives the values that are complete, and then is
\* refused: no value is made up and nothing is read behind the end.
CutIsRefused ==
  /\ dec.pos <= Len(dec.buf)
  /\ (\A i \in DOMAIN sent : Survives(sent[i])) =>
       IsPrefix(got, sent) /\ (at = "end" => Whole)
=============================================================================
