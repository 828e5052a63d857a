--------------------------- MODULE Correspondence ---------------------------
(***************************************************************************)
(* What the platform promises about requests for a quote: a request is     *)
(* filed with a company that is there, and stays as long as it; an answer  *)
(* of that company goes on record and its mail becomes due at once, or is  *)
(* lost with the news that the answer was recorded; a mail that is due is  *)
(* given to the mailer unless the process dies.                            *)
(* Every operation is one step here; module Inbox has the statements, the  *)
(* mails and the delete that they overlap.                                 *)
(***************************************************************************)

CONSTANTS
  Company,  \* companies
  Quote,    \* ids of requests for a quote
  Note,     \* texts of answers
  None      \* no company, no answer

VARIABLES
  open,    \* the companies that are there
  filed,   \* requests that were ever filed
  target,  \* the company each was filed with
  kept,    \* requests on record
  reply,   \* the answer on record
  told,    \* requests whose requester was sent a confirmation
  due,     \* answers whose mail is still to be sent
  heard,   \* answers given to the mailer
  lost     \* answers whose mail the death of the process or missing news prevented

vars == <<open, filed, target, kept, reply, told, due, heard, lost>>

Init ==
  /\ open = Company /\ filed = {} /\ kept = {} /\ told = {}
  /\ target = [q \in Quote |-> None]
  /\ reply = [q \in Quote |-> None]
  /\ due = {} /\ heard = {} /\ lost = {}

File(q, c) ==
  /\ q \notin filed /\ c \in open \cup {None}
  /\ filed' = filed \cup {q}
  /\ target' = [target EXCEPT ![q] = c]
  /\ kept' = kept \cup {q}
  /\ UNCHANGED <<open, reply, told, due, heard, lost>>

(* Nothing is confirmed that is not on record, or went with its company.   *)
Tell(q) ==
  /\ q \in filed
  /\ q \in kept \/ target[q] \notin open \cup {None}
  /\ told' = told \cup {q}
  /\ UNCHANGED <<open, filed, target, kept, reply, due, heard, lost>>

Answer(q, n) ==
  /\ q \in kept /\ target[q] \in open
  /\ reply' = [reply EXCEPT ![q] = n]
  /\ \/ due' = due \cup {<<q, n, target[q]>>} /\ UNCHANGED lost
     \/ lost' = lost \cup {<<q, n>>} /\ UNCHANGED due
  /\ UNCHANGED <<open, filed, target, kept, told, heard>>

(* An answer given twice in the same words may be due once more.           *)
Mail(m) ==
  /\ m \in due
  /\ due' \in {due, due \ {m}}
  /\ heard' = heard \cup {m}
  /\ UNCHANGED <<open, filed, target, kept, reply, told, lost>>

(* A company goes with all its requests.                                   *)
Leave(c) ==
  /\ c \in open
  /\ open' = open \ {c}
  /\ kept' = {q \in kept : target[q] # c}
  /\ reply' = [q \in Quote |-> IF q \in kept' THEN reply[q] ELSE None]
  /\ UNCHANGED <<filed, target, told, due, heard, lost>>

Die ==
  /\ lost' = lost \cup {<<m[1], m[2]>> : m \in due}
  /\ due' = {}
  /\ UNCHANGED <<open, filed, target, kept, reply, told, heard>>

Next ==
  \/ \E q \in Quote :
       \/ \E c \in Company \cup {None} : File(q, c)
       \/ Tell(q)
       \/ \E n \in Note : Answer(q, n)
  \/ \E m \in due : Mail(m)
  \/ \E c \in Company : Leave(c)
  \/ Die

Spec == Init /\ [][Next]_vars
=============================================================================
