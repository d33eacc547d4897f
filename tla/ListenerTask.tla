--------------------------- MODULE ListenerTask ----------------------------
(***************************************************************************)
(* The listener that stands in for a stopped server: it binds the server's *)
(* port, reads one connection at a time, and at the first login requests a *)
(* start. A listener is begun per observed Off; they are numbered from 1   *)
(* in that order (no more of them than incarnations).                      *)
(***************************************************************************)
EXTENDS Runtime

CONSTANT ListenerMayFail  (* may bind or accept fail, or reading a peer panic?  *)

ASSUME ListenerAssumption == ListenerMayFail \in BOOLEAN

VARIABLE listener  (* where each listener task is *)

(* Over are: done after a request or a cancellation, failed on an error of  *)
(* the socket, panicked on the bytes of a peer.                            *)
ListenerPC == {"none", "binding", "accepting", "reading", "sending",
               "done", "failed", "panicked"}

ListenerTypeOK == listener \in [Inc -> ListenerPC]

ListenerInit == listener = [l \in Inc |-> "none"]

BeginListener(l) ==
    /\ listener[l] = "none"
    /\ \A k \in 1..(l - 1) : listener[k] # "none"
    /\ listener' = [listener EXCEPT ![l] = "binding"]

(* The socket is open from the bind until inner_listener returns. *)
HoldsPort(l) == listener[l] \in {"accepting", "reading", "sending"}

ListenerOver(l) == listener[l] \in {"done", "failed", "panicked"}

ListenerLive(l) == listener[l] # "none" /\ ~ListenerOver(l)

Bind(l) ==
    /\ listener[l] = "binding"
    /\ \A k \in Inc : ~HoldsPort(k)
    /\ listener' = [listener EXCEPT ![l] = "accepting"]
    /\ UNCHANGED runtimeVars

(* portTaken: does a Minecraft server hold the port? It is not the only    *)
(* reason for a bind to fail. The listener ends, and nothing begins another. *)
BindFails(l, portTaken) ==
    /\ listener[l] = "binding"
    /\ portTaken \/ ListenerMayFail \/ \E k \in Inc : HoldsPort(k)
    /\ listener' = [listener EXCEPT ![l] = "failed"]
    /\ UNCHANGED runtimeVars

(* A peer connects; the listener serves nobody else until it has read it. *)
Accept(l) ==
    /\ listener[l] = "accepting"
    /\ listener' = [listener EXCEPT ![l] = "reading"]
    /\ UNCHANGED runtimeVars

(* The peer was not a client (a status ping, or bytes that do not parse). *)
ReadOther(l) ==
    /\ listener[l] = "reading"
    /\ listener' = [listener EXCEPT ![l] = "accepting"]
    /\ UNCHANGED runtimeVars

ReadLogin(l) ==
    /\ listener[l] = "reading"
    /\ listener' = [listener EXCEPT ![l] = "sending"]
    /\ UNCHANGED runtimeVars

ListenerRequestsStart(l) ==
    /\ listener[l] = "sending"
    /\ Send("Start")
    /\ listener' = [listener EXCEPT ![l] = "done"]
    /\ UNCHANGED <<receiving, token, cancelled>>

(* An error of accept, or a panic on the bytes of a peer, ends the listener. *)
ListenerFails(l) ==
    /\ ListenerMayFail
    /\ \/ listener[l] = "accepting" /\ listener' = [listener EXCEPT ![l] = "failed"]
       \/ listener[l] = "reading" /\ listener' = [listener EXCEPT ![l] = "panicked"]
    /\ UNCHANGED runtimeVars

(* The cancellation drops inner_listener at whatever it is waiting for. *)
ListenerCancelled(l) ==
    /\ ListenerLive(l)
    /\ Cancelled("listener", l)
    /\ listener' = [listener EXCEPT ![l] = "done"]
    /\ UNCHANGED runtimeVars

=============================================================================
