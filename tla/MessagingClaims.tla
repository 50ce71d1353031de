-------------------------- MODULE MessagingClaims --------------------------
(***************************************************************************)
(* What the comments of Messaging.c and of the test programs say of the    *)
(* mailboxes and the code does not do.  Each has a run whose               *)
(* counterexample is the disagreement.                                     *)
(***************************************************************************)
EXTENDS Messaging

InUse(id) == mailboxes[id].status = "inuse"

WokenReceivers(id) == {p \in Proc : Running(p, "receive") /\ call[p].mb = id}

(* MessagingTest05.c: a send "delivers directly to the waiting receiver".  *)
(* No receiver sleeps while the mailbox holds a message that no receiver   *)
(* already awake will take.  mailbox_send never looks at                   *)
(* blockedReceiveList.                                                     *)
SendWakesReceiver ==
    \A id \in Id :
        (InUse(id) /\ mailboxes[id].blockedReceiveList # <<>>) =>
            Cardinality(FullSlots(id)) <= Cardinality(WokenReceivers(id))

(* Messaging.c, mailbox_send: "Block the sending process if no slot        *)
(* available".  Signals or not, a sender sleeps only while no slot is      *)
(* available to it.  A signalled sender that was woken for a slot returns  *)
(* -5, and nobody wakes the next one.                                      *)
BlockedOnlyWithoutSlot ==
    \A id \in Id :
        (InUse(id) /\ mailboxes[id].blockedSendList # <<>>) =>
            Cardinality(EmptySlots(id)) <= Cardinality(WokenSenders(id))

(* MessagingTest24.c: blocked senders are unblocked "in FIFO order",       *)
(* "maintaining send order".  A sender that was woken and finds no slot    *)
(* does not wait behind senders that blocked after it.  It does: the slot  *)
(* a receive frees is open to whoever runs first, and a woken sender that  *)
(* comes too late goes to the end of blockedSendList.                      *)
SendersInOrder ==
    [][\A p \in Proc : (Running(p, "send") /\ pstate'[p] = "blocked")
                           => mailboxes[call[p].mb].blockedSendList = <<>>]_vars

(* Messaging.c, mailbox_free: "Any process waiting on the mailbox should   *)
(* be signaled and unblocked".  Whoever waits on a mailbox when it is      *)
(* freed gets out of the call.  If a create has failed half way, and the   *)
(* entry it left in use is freed, the next create marks it in use again    *)
(* before a receiver that mailbox_free has woken looks: it sleeps on, and  *)
(* the loop of mailbox_free may wake it again, without end.                *)
FreedWaitersLeave ==
    \A p \in Proc :
        (/\ call[p].op \in {"send", "receive"}
         /\ mailboxes[call[p].mb].status = "released") ~> Idle(p)
=============================================================================
