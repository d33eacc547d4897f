----------------------------- MODULE Lifecycle -----------------------------
(***************************************************************************)
(* What the wrapper promises of the servers it launches, without a word    *)
(* about its tasks and channels. It launches them in order and takes       *)
(* charge of a server it has launched; it sees the server in its charge    *)
(* through to its end before it finishes; and it kills only when it is     *)
(* being left. Module Ssw implements this specification (Ssw!Promised).    *)
(***************************************************************************)
EXTENDS Naturals

CONSTANTS MaxStarts,  (* bound: how many servers are launched                  *)
          MayBreak    (* may it end without finishing?                         *)

VARIABLES server,    (* what each server is doing                            *)
          launched,  (* servers launched so far                              *)
          charge,    (* the server it has taken charge of last, 0 if none    *)
          settled,   (* has that server been seen through to its end?        *)
          leaving,   (* is the wrapper being left?                           *)
          over       (* has it ended, and how?                               *)

vars == <<server, launched, charge, settled, leaving, over>>

Server == 1..MaxStarts

Alive(i) == server[i] \in {"running", "stopping"}

Init ==
    /\ server = [i \in Server |-> "none"]
    /\ launched = 0
    /\ charge = 0
    /\ settled = TRUE
    /\ leaving = FALSE
    /\ over = "no"

Launch ==
    /\ over = "no"
    /\ launched < MaxStarts
    /\ launched' = launched + 1
    /\ server' = [server EXCEPT ![launched + 1] = "running"]
    /\ UNCHANGED <<charge, settled, leaving, over>>

(* Taking charge of a server lets go of the one before it. *)
TakeCharge ==
    /\ over = "no"
    /\ launched > charge
    /\ charge' = launched
    /\ settled' = FALSE
    /\ UNCHANGED <<server, launched, leaving, over>>

Ask(i) ==
    /\ server[i] = "running"
    /\ server' = [server EXCEPT ![i] = "stopping"]
    /\ UNCHANGED <<launched, charge, settled, leaving, over>>

End(i) ==
    /\ Alive(i)
    /\ server' = [server EXCEPT ![i] = "exited"]
    /\ UNCHANGED <<launched, charge, settled, leaving, over>>

Leave ==
    /\ ~leaving
    /\ leaving' = TRUE
    /\ UNCHANGED <<server, launched, charge, settled, over>>

Kill(i) ==
    /\ leaving
    /\ Alive(i)
    /\ server' = [server EXCEPT ![i] = "killed"]
    /\ UNCHANGED <<launched, charge, settled, leaving, over>>

Settle ==
    /\ ~settled
    /\ ~Alive(charge)
    /\ settled' = TRUE
    /\ UNCHANGED <<server, launched, charge, leaving, over>>

Finish ==
    /\ over = "no"
    /\ leaving
    /\ settled
    /\ over' = "finished"
    /\ charge' = 0
    /\ UNCHANGED <<server, launched, settled, leaving>>

(* It lets go of everything at once. *)
Break ==
    /\ MayBreak
    /\ over = "no"
    /\ over' = "broken"
    /\ charge' = 0
    /\ settled' = TRUE
    /\ UNCHANGED <<server, launched, leaving>>

Next ==
    \/ Launch \/ TakeCharge \/ Leave \/ Settle \/ Finish \/ Break
    \/ \E i \in Server : Ask(i) \/ End(i) \/ Kill(i)

Spec == Init /\ [][Next]_vars

=============================================================================
