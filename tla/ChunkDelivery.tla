--------------------------- MODULE ChunkDelivery ---------------------------
(***************************************************************************)
(* What the download phase of `malcom snapshot fetch` promises, seen from  *)
(* the snapshot directory: verified chunk files only accumulate, the       *)
(* download is reported finished only when every chunk of the chosen offer *)
(* is there, and neither a failure nor a crash nor the resume scan of the  *)
(* next run takes a verified chunk away.  Only a run that chose another    *)
(* offer sees the files judged anew.                                       *)
(***************************************************************************)
EXTENDS Naturals

CONSTANT Chunks          \* the chunk indices of the chosen offer

VARIABLES have,          \* chunks whose file matches the offer's chunk hash
          offer,         \* the offer this run downloads
          status         \* outcome of the current run

vars == <<have, offer, status>>

Init == /\ have \in SUBSET Chunks
        /\ offer = 0
        /\ status = "running"

Deliver(i) == /\ status = "running"
              /\ have' = have \cup {i}
              /\ UNCHANGED <<offer, status>>

Finish == /\ status = "running"
          /\ have = Chunks
          /\ status' = "finished"
          /\ UNCHANGED <<have, offer>>

GiveUp == /\ status = "running"
          /\ status' = "failed"
          /\ UNCHANGED <<have, offer>>

Rerun == /\ status' = "running"
         /\ UNCHANGED <<have, offer>>

Retarget == /\ status' = "running"
            /\ offer' = offer + 1
            /\ have' \in SUBSET Chunks

Next == \/ \E i \in Chunks : Deliver(i)
        \/ Finish
        \/ GiveUp
        \/ Rerun
        \/ Retarget

Spec == Init /\ [][Next]_vars
=============================================================================
