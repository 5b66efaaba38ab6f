------------------------------ MODULE MCUartd ------------------------------
(***************************************************************************)
(* Reads that begin and end everywhere in a command, that hold two         *)
(* commands, a NUL byte or fill the buffer of five bytes.  The command "q" *)
(* is answered, the others are not.                                        *)
(***************************************************************************)
EXTENDS Uartd

MCChars   == {"^", "\n", "q", "\\0"}
MCChunks  == {<<"^">>, <<"q", "\n">>, <<"\n", "^", "q", "\n">>,
              <<"q", "\\0", "\n">>, <<"^", "q", "\n", "^", "q">>}
MCJunk    == {<<>>, <<"\n">>, <<"^", "q">>}
MCQueries == {<<"^", "q">>}
=============================================================================
