--------------------------- MODULE Notifications ----------------------------
(***************************************************************************)
(* What a handler has to tell somebody it leaves to a goroutine of its     *)
(* own, with the context of the request, which ends with the handler: any  *)
(* step of the goroutine may fail, and it goes on with the next one, or    *)
(* stops.                                                                  *)
(*   createNotification   one row for the account; rows are not read back  *)
(*                        by anything modelled, and are left out           *)
(*   sendPush             the tokens of the account, then one push each    *)
(*   /me/fcm-token        a token belongs to the account that was the last *)
(*                        to register it                                   *)
(***************************************************************************)
EXTENDS Naturals

CONSTANTS Account,
          Token,    \* the devices
          Notice,   \* what there may be to tell
          Pusher,   \* the goroutines that may run at one time
          NoAccount \* the owner of a token that is not registered

ASSUME NotificationsAssumption == NoAccount \notin Account

VARIABLES token,  \* token[k]: the account the device is registered for
          pushing \* pushing[n]: what the goroutine is at

noticeVars == <<token, pushing>>

Free == [stage |-> "free"]
Work == [stage : {"insert", "list", "push"}, to : Account, notice : Notice,
         left : SUBSET Token]

NotificationsTypeOK ==
  /\ token \in [Token -> Account \cup {NoAccount}]
  /\ pushing \in [Pusher -> Work \cup {Free}]

NotificationsInit ==
  /\ token = [k \in Token |-> NoAccount]
  /\ pushing = [n \in Pusher |-> Free]

-----------------------------------------------------------------------------
(* The goroutine *)

\* go CreateAndPush(ctx, ...): the handler does not wait for it.
Spawn(n, to, notice) ==
  /\ pushing[n] = Free
  /\ pushing' = [pushing EXCEPT ![n] =
                   [stage |-> "insert", to |-> to, notice |-> notice, left |-> {}]]
  /\ UNCHANGED token

\* The row is inserted, or it is not: a failure is logged.
Insert(n) ==
  /\ pushing[n].stage = "insert"
  /\ pushing' = [pushing EXCEPT ![n].stage = "list"]
  /\ UNCHANGED token

TokensOf(a) == {k \in Token : token[k] = a}

ListTokens(n) ==
  /\ pushing[n].stage = "list" /\ TokensOf(pushing[n].to) # {}
  /\ pushing' = [pushing EXCEPT ![n].stage = "push", ![n].left = TokensOf(pushing[n].to)]
  /\ UNCHANGED token

\* No token, or the tokens cannot be read.
NoPush(n) ==
  /\ pushing[n].stage = "list"
  /\ pushing' = [pushing EXCEPT ![n] = Free]
  /\ UNCHANGED token

\* SendPush reaches the device, whoever has registered it by now; or it fails,
\* or the service no longer knows the token, and the token stays.
Push(n, k) ==
  /\ pushing[n].stage = "push" /\ k \in pushing[n].left
  /\ IF pushing[n].left = {k}
       THEN pushing' = [pushing EXCEPT ![n] = Free]
       ELSE pushing' = [pushing EXCEPT ![n].left = @ \ {k}]
  /\ UNCHANGED token

-----------------------------------------------------------------------------
(* The devices *)

\* ON CONFLICT (token) DO UPDATE: the token moves to the caller.
RegisterToken(a, k) ==
  /\ token' = [token EXCEPT ![k] = a]
  /\ UNCHANGED pushing

\* DELETE ... WHERE token = ?
RemoveToken(k) ==
  /\ token' = [token EXCEPT ![k] = NoAccount]
  /\ UNCHANGED pushing
=============================================================================
