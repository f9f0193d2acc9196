-------------------------------- MODULE MCMail --------------------------------
(* Mail out and mail in: the send queue and the three stages of inbound mail.    *)
(* They share no state, so each behaviour exercises one of them (scene) and       *)
(* leaves the others as they started.                                            *)
EXTENDS MCCommsQueue, MailSync, MailReading, MailDesk

VARIABLE scene

mailRunVars == <<scene, vars, mailVars, readingVars, deskMailVars>>

MailRunInit ==
  /\ scene \in {"send", "sync", "reading", "desk"}
  /\ Init /\ MailInit /\ ReadingInit /\ MailDeskInit
  /\ scene # "send" => refused = {}

MailRunNext ==
  \/ /\ scene = "send" /\ Next
     /\ UNCHANGED <<scene, mailVars, readingVars, deskMailVars>>
  \/ /\ scene = "sync" /\ MailSyncNext
     /\ UNCHANGED <<scene, vars, readingVars, deskMailVars>>
  \/ /\ scene = "reading" /\ ReadingNext
     /\ UNCHANGED <<scene, vars, mailVars, deskMailVars>>
  \/ /\ scene = "desk" /\ MailDeskNext
     /\ UNCHANGED <<scene, vars, mailVars, readingVars>>

MailRunSpec == MailRunInit /\ [][MailRunNext]_mailRunVars

\* Bound: the send queue's, and one message at most in the mailbox that triage reads; the
\* main mailbox, read by the same code, has both.
WithinMail == WithinAScene /\ Cardinality({m \in Messages : delivered[Extra][m] # Never}) <= 1
=============================================================================
