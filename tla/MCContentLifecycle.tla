------------------------- MODULE MCContentLifecycle -------------------------
(***************************************************************************)
(* ContentLifecycle on a small instance: two chats whose users are listed  *)
(* by two calls, and deletions of both.                                    *)
(***************************************************************************)
EXTENDS ContentLifecycle, TLC

CONSTANTS chat1, chat2, p1, p2

TwoCalls == <<{chat1}, {chat2}>>

BothChats == {{chat1, chat2}}

PullSymmetry == Permutations({p1, p2})
=============================================================================
