----------------------------- MODULE MCProgram -----------------------------
(* Instances of Program for TLC.                                           *)
EXTENDS Program, TLC

Plain(name) == [what |-> name, words |-> {}, version |-> 0]
Marked(name, word) == [what |-> name, words |-> {word}, version |-> 0]

(* index.html with one line for each run of unmarked ones, and 404.html,   *)
(* whose last line has no newline.                                         *)
ShippedFiles ==
  [home |-> [lines |-> <<Marked("list", queuelist), Marked("script", refresh),
                         Plain("end")>>,
             newline |-> TRUE],
   notfound |-> [lines |-> <<Plain("lost")>>, newline |-> FALSE]]

Labels == {refresh, queuelist}
=============================================================================
