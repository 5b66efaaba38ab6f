------------------------------- MODULE MCRtmp -------------------------------
(***************************************************************************)
(* rtmpServer: the poll loop with three connections (a publisher and two   *)
(* viewers, or two publishers one after the other and a viewer), the chunk *)
(* parser with one, and, as a third part, the AMF codec, whose variables   *)
(* are idle while it does not run.                                         *)
(***************************************************************************)
EXTENDS RtmpServer, AmfValues, TLC

CONSTANTS c1, c2, c3
ThreeConns == {c1, c2, c3}
OneSlow    == {c1}
Symmetry   == Permutations({c2, c3})

\* Media in one and in several chunks, two announcements, and what is refused: a message
\* without bytes, a late one, and an announcement that is too short.
Kind(t, n, s, e, time) == [type |-> t, len |-> n, size |-> s, endpoint |-> e, timestamp |-> time]

MCKinds ==
  {Kind("media", 5, 1, 1, 0), Kind("media", 1, 1, 2, 2), Kind("set chunk", 2, 1, 0, 0),
   Kind("set chunk", 2, 3, 0, 0), Kind("media", 0, 1, 1, 0), Kind("media", 1, 1, 1, 3),
   Kind("set chunk", 1, 1, 0, 0)}

MCChannels == 1 .. 2

\* Values of every type, nested once, alone and one behind the other.
Scalars == {Number(0), Number(9), Boolean(0), Boolean(1), NullValue, Undefined, Integer(1),
            String(<<>>), String(<<0>>), String(<<5, 9>>), String(<<2, 1, 7, 3, 5>>)}

Maps(values) ==
  {[k \in {} |-> NullValue]} \cup [{<<1>>} -> values] \cup [{<<>>} -> values]
  \cup [{<<1>>, <<2, 1>>} -> {Number(3), String(<<0>>), Undefined}]

Flat   == {Object(o) : o \in Maps(Scalars)} \cup {Ecma(o) : o \in Maps({NullValue})}
Nested == {Object(o) : o \in [{<<1>>} -> Flat]}

MCMessages ==
  {<<v>> : v \in Scalars \cup Flat \cup Nested}
  \cup {<<v, w>> : v, w \in Scalars \cup {Object([k \in {<<1>>} |-> Number(3)])}}

Scalars3 ==
  {Number(1), Boolean(0), Boolean(1), NullValue, Undefined, String(<<>>), String(<<5, 9>>),
   Integer(0), Integer(128), Integer(16383), Integer(16384), Integer(2097151), Integer(2097152),
   Integer(536870911), Object(<<>>), Ecma(<<>>)}

MCMessages3 == {<<v>> : v \in Scalars3} \cup {<<v, w>> : v, w \in Scalars3}

VARIABLES sent, enc, done, dec, loaded, at   \* Amf; loaded is its got

A == INSTANCE Amf WITH
       Messages <- MCMessages, Messages3 <- MCMessages3, LenRange <- 4, got <- loaded

ASSUME C!ChunksAssumption /\ A!AmfAssumption

amfVars == <<sent, enc, done, dec, loaded, at>>

idle == "idle"

AmfIdle == sent = idle /\ enc = idle /\ done = idle /\ dec = idle /\ loaded = idle /\ at = idle

ServerInit == PartsInit /\ IF part = "amf" THEN A!Init ELSE AmfIdle

RunAmf == part = "amf" /\ A!Next /\ UNCHANGED serverVars

ServerNext == ((RunLoop \/ RunChunks) /\ UNCHANGED amfVars) \/ RunAmf

ServerSpec == ServerInit /\ [][ServerNext]_<<serverVars, amfVars>>

\* AMF: a message comes back as far as its values survive, and one that was cut is refused.
MessagesSurvive == part = "amf" => A!RoundTrip /\ A!CutIsRefused
=============================================================================
