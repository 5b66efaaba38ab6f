------------------------------- MODULE Base64 -------------------------------
(***************************************************************************)
(* The programs fileBase64 and myBase64: a file is encoded in lines of one *)
(* block each, and decoded line by line.  They have the same main and the  *)
(* same codec (a copy in fileBase64, common/misc.c in myBase64), but not   *)
(* the same alphabet.                                                      *)
(*                                                                         *)
(* A byte has four quarters, of two bits in the code, and a digit three.   *)
(***************************************************************************)
EXTENDS Integers, FiniteSets, Sequences, SequencesExt

CONSTANTS
  Files,    \* the files that are encoded
  Block,    \* USER_BUF_BYTES_ONE: 16
  Quarter,  \* bound: the values of a quarter of a byte, 4
  Figures,  \* bound: the figures in the alphabet, 10
  LineCap   \* bound: characters of getline's buffer that are looked at

Programs == {"fileBase64", "myBase64"}

\* The values of n quarters.
Pow(n) ==
  <<Quarter, Quarter * Quarter, Quarter * Quarter * Quarter, Quarter * Quarter * Quarter * Quarter>>[n]

Bytes   == 0 .. Pow(4) - 1
Digits  == 0 .. Pow(3) - 1

Base64Assumption ==
  /\ Quarter \in Nat \ {0, 1} /\ Figures \in 1 .. Pow(3) - 3
  /\ Files \subseteq Seq(Bytes) /\ Block \in Nat /\ LineCap \in Nat
  /\ Block % 3 = 1          \* as 16 is: a full line ends with two '='
  /\ LineCap > 4 * ((Block + 2) \div 3) + 4

EQ == -1    \* '='
NL == -2    \* '\n'
NUL == -3   \* '\0'

\* Characters are numbered as in myBase64's alphabet; that of fileBase64 starts with
\* the figures, and both end with '+' and '/'.
base64Char_my(d) == d

base64Char_file(d) == IF d >= Pow(3) - 2 THEN d ELSE (d + Pow(3) - 2 - Figures) % (Pow(3) - 2)

base64Char(p, d) == IF p = "fileBase64" THEN base64Char_file(d) ELSE base64Char_my(d)
-----------------------------------------------------------------------------
\* Mutant: the second digit of a lone byte loses its bits.
quantum_lone(p, bin) ==
  LET b(i) == IF i <= Len(bin) THEN bin[i] ELSE 0
      c(d) == base64Char(p, d)
  IN <<c(b(1) \div Pow(1)),
       c(IF Len(bin) = 1 THEN 0 ELSE ((b(1) % Pow(1)) * Pow(2)) + (b(2) \div Pow(2))),
       IF Len(bin) < 2 THEN EQ ELSE c(((b(2) % Pow(2)) * Pow(1)) + (b(3) \div Pow(3))),
       IF Len(bin) < 3 THEN EQ ELSE c(b(3) % Pow(3))>>

\* base64Encode of one to three bytes, and of a block.
quantum(p, bin) ==
  LET b(i) == IF i <= Len(bin) THEN bin[i] ELSE 0
      c(d) == base64Char(p, d)
  IN <<c(b(1) \div Pow(1)),
       c(((b(1) % Pow(1)) * Pow(2)) + (b(2) \div Pow(2))),
       IF Len(bin) < 2 THEN EQ ELSE c(((b(2) % Pow(2)) * Pow(1)) + (b(3) \div Pow(3))),
       IF Len(bin) < 3 THEN EQ ELSE c(b(3) % Pow(3))>>

base64Encode(p, bin) ==
  FlattenSeq([k \in 1 .. (Len(bin) + 2) \div 3 |->
    quantum(p, SubSeq(bin, 3 * k - 2, IF 3 * k < Len(bin) THEN 3 * k ELSE Len(bin)))])

\* A character that is no digit counts as a byte of ones.
digit(p, ch) ==
  IF \E d \in Digits : base64Char(p, d) = ch
  THEN CHOOSE d \in Digits : base64Char(p, d) = ch
  ELSE Pow(4) - 1

\* Four characters of the line from index i on; '=' ends the decoding.
unquantum(p, line, i) ==
  LET t(k) == digit(p, line[i + k])
      one   == ((t(0) * Pow(1)) % Pow(4)) + ((t(1) \div Pow(2)) % Pow(1))
      two   == ((t(1) * Pow(2)) % Pow(4)) + ((t(2) \div Pow(1)) % Pow(2))
      three == ((t(2) * Pow(3)) % Pow(4)) + (t(3) % Pow(3))
  IN IF line[i + 2] = EQ THEN <<one>>
     ELSE IF line[i + 3] = EQ THEN <<one, two>> ELSE <<one, two, three>>

ends(line, i) == EQ \in {line[i + 2], line[i + 3]}

\* The line is decoded to its end or to a '='; its last character is the newline,
\* which starts a quantum of its own when no '=' comes before it.
base64Decode(p, line, size) ==
  LET quanta == {k \in 0 .. (size - 1) \div 4 : \A j \in 0 .. k - 1 : ~ends(line, 4 * j)}
  IN FlattenSeq([k \in 1 .. Cardinality(quanta) |-> unquantum(p, line, 4 * (k - 1))])

fileEncode(bin)        == base64Encode("fileBase64", bin)
fileDecode(line, size) == base64Decode("fileBase64", line, size)
-----------------------------------------------------------------------------
VARIABLES
  file,     \* the file to encode
  enc, dec, \* the programs that encode and decode
  pos,      \* bytes or characters read
  text,     \* the encoded file
  line,     \* getline's buffer, which keeps what the last line left behind it
  out,      \* the decoded file
  at        \* "encode", "decode", "end"

vars == <<file, enc, dec, pos, text, line, out, at>>

\* getline allocates the buffer; what is in it is indeterminate.
Init ==
  /\ file \in Files /\ enc \in Programs /\ dec \in Programs
  /\ line \in {[i \in 0 .. LineCap - 1 |-> c] : c \in {EQ, NUL, 1}}
  /\ pos = 0 /\ text = <<>> /\ out = <<>> /\ at = "encode"

\* main -m encode: a block becomes a line.
encode ==
  /\ at = "encode" /\ pos < Len(file)
  /\ LET n   == IF pos + Block < Len(file) THEN Block ELSE Len(file) - pos
         bin == SubSeq(file, pos + 1, pos + n)
     IN /\ text' = text \o (IF enc = "fileBase64" THEN fileEncode(bin) ELSE base64Encode(enc, bin))
                        \o <<NL>>
        /\ pos' = pos + n
  /\ UNCHANGED <<file, enc, dec, line, out, at>>

encoded ==
  /\ at = "encode" /\ pos = Len(file) /\ at' = "decode" /\ pos' = 0
  /\ UNCHANGED <<file, enc, dec, text, line, out>>

\* main -m decode: a line becomes a block.
decode ==
  /\ at = "decode" /\ pos < Len(text)
  /\ LET n == 1 + Cardinality({i \in pos + 1 .. Len(text) :
                                 \A j \in pos + 1 .. i : text[j] # NL})
     IN /\ line' = [i \in DOMAIN line |-> IF i < n THEN text[pos + 1 + i]
                                          ELSE IF i = n THEN NUL ELSE line[i]]
        /\ out' = out \o (IF dec = "fileBase64" THEN fileDecode(line', n)
                          ELSE base64Decode(dec, line', n))
        /\ pos' = pos + n
  /\ UNCHANGED <<file, enc, dec, text, at>>

decoded ==
  /\ at = "decode" /\ pos = Len(text) /\ at' = "end"
  /\ UNCHANGED <<file, enc, dec, pos, text, line, out>>

fileBase64 == (IF at = "encode" THEN enc ELSE dec) = "fileBase64"
              /\ (encode \/ encoded \/ decode \/ decoded)

myBase64 == (IF at = "encode" THEN enc ELSE dec) = "myBase64"
            /\ (encode \/ encoded \/ decode \/ decoded)

Next == fileBase64 \/ myBase64

Spec == Init /\ [][Next]_vars
-----------------------------------------------------------------------------
\* A file comes back as it was when the program that encoded it decodes it, unless its
\* last line is full of digits: then the newline is decoded too, and one to three
\* bytes more than the file had are written.  The other program gives it back
\* only if it begins with '+' or '/', or is empty.
ComesBack ==
  at = "end" =>
    LET last == Len(file) % Block
    IN IF enc = dec
       THEN /\ IsPrefix(file, out) /\ Len(out) <= Len(file) + 3
            /\ out = file <=> (last % 3 # 0 \/ last = 0)
       ELSE out = file => text = <<>> \/ text[1] \notin 0 .. Pow(3) - 3

\* A line has four characters for every three bytes begun, as the comment above
\* base64Encode counts them, and decodes to no more bytes than a block.
LinesAreFull ==
  at # "encode" =>
    LET x == Len(file) % Block
        y(n) == IF n % 3 # 0 THEN (n \div 3 + 1) * 4 ELSE (n \div 3) * 4
    IN Len(text) = (Len(file) \div Block) * (y(Block) + 1) + IF x = 0 THEN 0 ELSE y(x) + 1
=============================================================================
