------------------------------ MODULE LogService -----------------------------
(***************************************************************************)
(* What the logger promises (src/common/Logging.h): a message reaches, as  *)
(* a whole and once, every sink that is attached when it is written and    *)
(* whose severity it has, and it reaches all of them before the next       *)
(* message reaches any, so no two sinks disagree about the order.          *)
(***************************************************************************)
EXTENDS Naturals, Sequences

CONSTANTS Contexts, Sinks, Level, Messages, NoLine

VARIABLES
  pending,   \* the message each context is logging
  attached,  \* the sinks in the order in which they were added
  gone,      \* the sinks whose owner has destroyed them
  got        \* what each sink has received

vars == <<pending, attached, gone, got>>

Init ==
  /\ pending = [c \in Contexts |-> NoLine]
  /\ attached \in Seq(Sinks)
  /\ gone = {}
  /\ got = [s \in Sinks |-> <<>>]

Log(c, m) ==
  /\ pending[c] = NoLine
  /\ pending' = [pending EXCEPT ![c] = m]
  /\ UNCHANGED <<attached, gone, got>>

Receives(s, m) == m.sev >= Level[s] /\ \E i \in DOMAIN attached : attached[i] = s

\* Only a sink that was destroyed may lose the message.
Deliver(c, lost) ==
  /\ pending[c] # NoLine
  /\ lost \subseteq gone
  /\ got' = [s \in Sinks |->
               IF Receives(s, pending[c]) /\ s \notin lost
               THEN Append(got[s], pending[c]) ELSE got[s]]
  /\ pending' = [pending EXCEPT ![c] = NoLine]
  /\ UNCHANGED <<attached, gone>>

AddSink(s) ==
  /\ attached' = Append(attached, s)
  /\ UNCHANGED <<pending, gone, got>>

ClearSinks ==
  /\ attached' = <<>>
  /\ UNCHANGED <<pending, gone, got>>

Destroy(s) ==
  /\ gone' = gone \cup {s}
  /\ UNCHANGED <<pending, attached, got>>

Next ==
  \/ \E c \in Contexts, m \in Messages : Log(c, m)
  \/ \E c \in Contexts, lost \in SUBSET Sinks : Deliver(c, lost)
  \/ \E s \in Sinks : AddSink(s) \/ Destroy(s)
  \/ ClearSinks

Spec == Init /\ [][Next]_vars
=============================================================================
