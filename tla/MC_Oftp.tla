------------------------------ MODULE MC_Oftp --------------------------------
(* Two clients that send the same file, one of them perhaps in a directory.
   The other's is empty, but for the "!ERR!" of an interrupt.                *)
EXTENDS Oftp, TLC

CONSTANTS a, b

MCContents == (a :> <<1, 2, 0>>) @@ (b :> << >>)
MCTrees == (a :> {<<"dir">>, <<"dir", "file">>}) @@ (b :> {<<"file">>})
MCPass == <<1, 2>>
=============================================================================
