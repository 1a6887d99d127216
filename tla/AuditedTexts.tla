---------------------------- MODULE AuditedTexts ----------------------------
(***************************************************************************)
(* What the audit log of transcriptions and translations promises (class   *)
(* StatusTransition: "audit log of every status change"): while a text     *)
(* exists its status moves only together with a new log entry that names   *)
(* the status it moved to.  Deleting the text deletes its log.  One step   *)
(* may move several texts, as a bulk action does.                          *)
(***************************************************************************)
EXTENDS Sequences

CONSTANTS
  Texts,
  Statuses,   \* the editorial statuses
  Absent      \* stands for the status of a text that does not exist

VARIABLES
  status,     \* of each text
  log         \* its entries, oldest first

AInit == status = [t \in Texts |-> Absent] /\ log = [t \in Texts |-> <<>>]

\* The text is created, with an empty log.
Enter(t) == status[t] = Absent /\ status'[t] \in Statuses /\ log'[t] = <<>>

\* One change, one entry.
Move(t) ==
  /\ status[t] # Absent
  /\ \E from, to \in Statuses :
       status'[t] = to /\ log'[t] = Append(log[t], [from |-> from, to |-> to])

Leave(t) == status[t] # Absent /\ status'[t] = Absent /\ log'[t] = <<>>

Stay(t) == status'[t] = status[t] /\ log'[t] = log[t]

ANext == \A t \in Texts : Enter(t) \/ Move(t) \/ Leave(t) \/ Stay(t)

ASpec == AInit /\ [][ANext]_<<status, log>>
=============================================================================
