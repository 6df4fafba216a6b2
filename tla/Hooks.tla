------------------------------- MODULE Hooks -------------------------------
(***************************************************************************)
(* The hook lists of klmd-custom-proposal: the two lists of receivers      *)
(* (indexable-hooks), the submessages that a handler sends to them         *)
(* (proposal-hooks, vote-hooks) and the reply that removes a receiver      *)
(* which errors (contract.rs:795).                                         *)
(*                                                                         *)
(* A submessage names its receiver; its id only the place the receiver had *)
(* in the list when the handler ran.                                       *)
(***************************************************************************)
EXTENDS Integers, SequencesExt

NoHooks == [proposal |-> <<>>, vote |-> <<>>]

\* The reply panicked: the whole transaction is undone.
Panicked == [panicked |-> TRUE]

\* Hooks::add_hook and remove_hook succeed, and what they leave.
CanAddHook(list, r) == ~Contains(list, r)
AddHook(list, r) == Append(list, r)
CanRemoveHook(list, r) == Contains(list, r)
RemoveHook(list, r) == RemoveAt(list, CHOOSE i \in DOMAIN list : list[i] = r)

\* prepare_hooks: reply_on_error with twice the index, plus one for a vote.
SubMsgs(list, kind) ==
  [i \in DOMAIN list |->
     [to |-> list[i], id |-> 2 * (i - 1) + IF kind = "vote" THEN 1 ELSE 0]]

\* Mutant of ReplyList: the parity is mixed up.
ReplyListSwapped(id) == IF id % 2 = 0 THEN "vote" ELSE "proposal"

\* The list and the index that reply makes out of an id.
ReplyList(id) == IF id % 2 = 0 THEN "proposal" ELSE "vote"
ReplyIndex(id) == IF id % 2 = 0 THEN id \div 2 ELSE (id - 1) \div 2

\* reply: remove_hook_by_index, a Vec::remove that panics past the end.
Reply(hooks, id) ==
  LET list == ReplyList(id)
      idx  == ReplyIndex(id)
  IN  IF idx < Len(hooks[list])
      THEN [hooks EXCEPT ![list] = RemoveAt(@, idx + 1)]
      ELSE Panicked

\* One submessage: the reply of one that errors runs before the next is sent.
Send(hooks, msg, broken) ==
  IF hooks = Panicked \/ msg.to \notin broken THEN hooks ELSE Reply(hooks, msg.id)

\* The submessages run in order.
Dispatch(hooks, msgs, broken) ==
  LET after[n \in 0 .. Len(msgs)] ==
        IF n = 0 THEN hooks ELSE Send(after[n - 1], msgs[n], broken)
  IN  after[Len(msgs)]

\* proposal_status_changed_hooks sends nothing when nothing changed.
StatusMsgs(hooks, old, new) ==
  IF old = new THEN <<>> ELSE SubMsgs(hooks.proposal, "proposal")
=============================================================================
