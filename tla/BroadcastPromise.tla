--------------------------- MODULE BroadcastPromise ---------------------------
(***************************************************************************)
(* What a broadcast promises, without workers, queues or pages.            *)
(*                                                                         *)
(* A batch offers its text to chats.  Every offer is owed an answer, and   *)
(* an offer that is lost (its task was dropped on the way) stays without   *)
(* one.  A batch that reports success owes nothing and lost nothing: it    *)
(* has an answer for every chat it ever offered its text to, and has       *)
(* deactivated every chat that answered "dead".  A chat is deactivated     *)
(* only on the word of a running batch whose sends to it all failed while  *)
(* the application was up.                                                 *)
(*                                                                         *)
(* Broadcast.tla is the program's way of keeping this promise.             *)
(***************************************************************************)

CONSTANTS Chats,        \* chats a text can be offered to
          Batches       \* broadcasts

Verdicts == {"alive",     \* Telegram accepted the message
             "dead",      \* every attempt failed
             "refused",   \* "not enough rights": left as it is
             "cut"}       \* the attempts failed because of a shutdown
Fates    == {"none", "pending", "lost"} \cup Verdicts

VARIABLES status,       \* status[b]: the life of batch b
          fate,         \* fate[b][c]: what became of b's text for chat c
          active,       \* chats that take part in broadcasts
          retired       \* retired[b]: chats b has deactivated

vars == <<status, fate, active, retired>>

DeadIn(b) == {c \in Chats : fate[b][c] = "dead"}

(* Offers of b that have no answer. *)
Owed(b) == {c \in Chats : fate[b][c] \in {"pending", "lost"}}

Init ==
    /\ status = [b \in Batches |-> "new"]
    /\ fate = [b \in Batches |-> [c \in Chats |-> "none"]]
    /\ active \in SUBSET Chats
    /\ retired = [b \in Batches |-> {}]

Begin(b) ==
    /\ status[b] = "new"
    /\ status' = [status EXCEPT ![b] = "running"]
    /\ UNCHANGED <<fate, active, retired>>

(* A running batch offers its text to a chat, once, or loses the offer. *)
Offer(b, c) ==
    /\ status[b] = "running"
    /\ fate[b][c] = "none"
    /\ \E f \in {"pending", "lost"} : fate' = [fate EXCEPT ![b][c] = f]
    /\ UNCHANGED <<status, active, retired>>

(* A running batch gets the answer to an offer. *)
Answer(b, c) ==
    /\ status[b] = "running"
    /\ fate[b][c] = "pending"
    /\ \E f \in Verdicts : fate' = [fate EXCEPT ![b][c] = f]
    /\ UNCHANGED <<status, active, retired>>

(* A pending offer is dropped, whether or not its batch still runs. *)
Lose(b, c) ==
    /\ fate[b][c] = "pending"
    /\ fate' = [fate EXCEPT ![b][c] = "lost"]
    /\ UNCHANGED <<status, active, retired>>

(* b deactivates the dead chats it has not deactivated before. *)
Retire(b) ==
    /\ active' = active \ (DeadIn(b) \ retired[b])
    /\ retired' = [retired EXCEPT ![b] = DeadIn(b)]

Deactivate(b) ==
    /\ status[b] = "running"
    /\ Retire(b)
    /\ UNCHANGED <<status, fate>>

(* Using the bot in a chat makes the chat active. *)
Revive(c) ==
    /\ active' = active \cup {c}
    /\ UNCHANGED <<status, fate, retired>>

Finish(b) ==
    /\ status[b] = "running"
    /\ Owed(b) = {}
    /\ \A c \in Chats : fate[b][c] # "cut"
    /\ status' = [status EXCEPT ![b] = "finished"]
    /\ Retire(b)
    /\ UNCHANGED fate

Abort(b) ==
    /\ status[b] = "running"
    /\ status' = [status EXCEPT ![b] = "aborted"]
    /\ Retire(b) \/ UNCHANGED <<active, retired>>
    /\ UNCHANGED fate

Next ==
    \/ \E b \in Batches : Begin(b) \/ Deactivate(b) \/ Finish(b) \/ Abort(b)
    \/ \E b \in Batches, c \in Chats : Offer(b, c) \/ Answer(b, c) \/ Lose(b, c)
    \/ \E c \in Chats : Revive(c)

Spec == Init /\ [][Next]_vars
===============================================================================
