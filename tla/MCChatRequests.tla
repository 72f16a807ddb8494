---------------------------- MODULE MCChatRequests ----------------------------
(***************************************************************************)
(* An instance of ChatRequests for TLC: two sessions and two conversations *)
(* that share one thread, k1 with clients that take turns and k2 with any. *)
(* One time unit stands for the pending request's time to live; ownership  *)
(* outlasts a request and its run by as little as OwnershipAssumption      *)
(* allows.                                                                 *)
(***************************************************************************)
EXTENDS ChatRequests, TLC

CONSTANTS t1, k1, k2

TwoConversations == k1 :> t1 @@ k2 :> t1
=============================================================================
