------------------------ MODULE MessagingRefinement ------------------------
(***************************************************************************)
(* The slots of Messaging.c implement the queues of MailboxQueue.          *)
(***************************************************************************)
EXTENDS Messaging

(* the slots up to the last full one *)
QueueOf(id) == SubSeq(mailboxes[id].slots, 1, Max({0} \union FullSlots(id)))

(* mailbox_free cannot fail once it has marked the mailbox *)
AnswerOf(p) == IF call[p].op \in {"free_send", "free_receive"}
               THEN [code |-> 0, msg |-> NoMsg]
               ELSE result[p]

Queues == INSTANCE MailboxQueue WITH
    status <- [id \in Id |-> mailboxes[id].status],
    capacity <- [id \in Id |-> Len(mailboxes[id].slots)],
    queue <- [id \in Id |-> QueueOf(id)],
    published <- nextMailboxId,
    result <- [p \in Proc |-> AnswerOf(p)]

(* Through the slot list of mailbox_send and the shifting of               *)
(* mailbox_receive, a mailbox that mailbox_create has handed out holds as  *)
(* many messages as the slots asked for (one slot asked for holds none);   *)
(* each message it accepts is delivered at most once, and in the order in  *)
(* which the sends returned 0; a call that fails or waits leaves it as it  *)
(* is; released, it delivers nothing; its id is never handed out again.    *)
(* The entry not yet handed out may be changed by a create that fails.     *)
ImplementsQueues == Queues!QSpec
=============================================================================
