------------------------------ MODULE MCTools ------------------------------
(* The sequential programs on small instances. *)
EXTENDS Tools, SequencesExt

\* Files of up to three lines, with bytes that differ in every digit.
MCTextFiles == {[i \in 1 .. n |-> (5 * i + s) % 16] : n \in 0 .. 20, s \in 0 .. 15}

\* Every graph of three packages, with the dependencies in every order.
MCPkgs    == 1 .. 3
Orders    == {s \in UNION {[1 .. n -> MCPkgs] : n \in 0 .. 3} : IsInjective(s)}
MCDepends == [MCPkgs -> Orders]
MCLists   == {<<1>>, <<3, 1>>, <<1, 2, 3>>}

\* Files of up to three pieces.
Bits       == {0, 1}
MCBinFiles == UNION {[1 .. n -> Bits] : n \in 3 .. 11}
                \cup {<<0, 0, 1>> \o f \o <<0, 0, 0, 0, 0>> : f \in [1 .. 10 -> Bits]}

Heads == <<<<0, 0, 0, 1>>, <<0, 0, 1>>>>

ASSUME B!Base64Assumption /\ P!PkgAssumption /\ S!SplitAssumption
=============================================================================
