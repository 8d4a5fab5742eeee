------------------------------ MODULE MCServices ------------------------------
(***************************************************************************)
(* RateLimit, Codec, LoadBalance, UserStore, Backend, Accounts and         *)
(* LogCutter, checked by one run.  They share no state, so that an interleaving of two of     *)
(* them would add nothing: a behaviour is one of the component `subject`,  *)
(* and the others stay as they are initially.                              *)
(***************************************************************************)
EXTENDS RateLimit, Codec, LoadBalance, UserStore, Backend, Accounts, LogCutter

CONSTANTS g1, g2, g3, ra, rb, rc, long,
          n1, n2, bi1, bi2, lk1, lk2, up, u1, u2, ph1, ph2,
          p1, p2, x1, x2, d1, d2, v1, v2, v3, w, ty, tz,
          q1, q2, q3, q4, ky

VARIABLE subject

(* Codec: g1 and g2 announce one dictionary, g3 another that agrees on ra; *)
(* ids of one, two and three bytes, a route too long for its length byte,  *)
(* and packets of the largest lengths.                                     *)
DictMC == [g \in Client |-> IF g = g3 THEN {<<ra, 1>>, <<rc, 3>>}
                            ELSE {<<ra, 1>>, <<rb, 2>>}]
RouteLenMC == [r \in Route |-> CASE r = ra -> 20 [] r = rb -> 255
                                 [] r = rc -> 9 [] OTHER -> 256]
Msg(type, id, route) == [type |-> type, id |-> id, route |-> route]
MessageMC == {Msg("request", 127, ra), Msg("request", 128, long),
              Msg("request", 128, ra), Msg("request", 16384, rb),
              Msg("notify", 0, rb), Msg("response", 300, rc),
              Msg("push", 0, ra), Msg("push", 0, rc)}
SizeMC == [m \in Message |-> CASE m.type = "response" -> 2^24
                               [] m.type = "push" -> 2^24 - 1 [] OTHER -> 65535]

(* LoadBalance: three servers of type ty and w of type tz; a change takes  *)
(* one of ty away and moves the others.  Calls q1, q2, q3 ask for ty, q4   *)
(* for tz.                                                                 *)
FilesMC == <<<<v1, w, v2, v3>>, <<v2, w, v3>>>>
TypeOfMC == [s \in Server |-> IF s = w THEN tz ELSE ty]
TypeAskedMC == [c \in Choice |-> IF c = q4 THEN tz ELSE ty]
ReportsMC == {<<v2, 1>>}
PointsMC == [s \in Server |-> IF s = v1 THEN {1, 3} ELSE {2, 3}]
KeyHashMC == [k \in HashKey |-> 2]

(* Bounds: two strategies that do the same as random and consistent_hash   *)
(* are not set; the calls for ty, which are alike, read their lists in one *)
(* order (they choose in any); the third and the one for tz are not made   *)
(* both.                                                                   *)
BalancerBound ==
    /\ strategy \notin {"weighted_round_robin", "ip_hash"}
    /\ at[q3] # "new" => at[q2] # "new" /\ at[q4] = "new"
    /\ at[q2] # "new" => at[q1] # "new"

(* UserStore: logins n1, n2, locks lk1, lk2, a change up and binding bi1   *)
(* of the new user u1; binding bi2 of the old user u2 to the same phone.   *)
CallKindMC == [c \in Call |-> CASE c \in {n1, n2} -> "login" [] c \in {bi1, bi2} -> "bind"
                                [] c \in {lk1, lk2} -> "lock" [] OTHER -> "update"]
CallUidMC == [c \in Call |-> IF c = bi2 THEN u2 ELSE u1]
CallPhoneMC == [c \in Call |-> ph1]

(* Bound: the update and the second lock are not made both.                *)
StoreBound == stage[up] = "new" \/ stage[lk2] = "new"

(* Backend: a push to two connectors and one to the same in another order. *)
UsersMC == [p \in PushId |-> IF p = p1 THEN <<<<x1, d1>>, <<x2, d2>>, <<x2, d1>>>>
                             ELSE <<<<x2, d2>>, <<x1, d1>>>>]

----------------------------------------------------------------------------
ServicesInit ==
    /\ subject \in {"limiter", "codec", "balancer", "store", "backend", "accounts",
                   "logs"}
    /\ IF subject = "limiter" THEN LimiterInit ELSE NewRateLimiter(1, 1)
    /\ CodecInit /\ LBInit /\ StoreInit /\ BackendInit /\ AccountInit /\ CutterInit

ServicesNext ==
    /\ \/ /\ subject = "limiter" /\ LimiterNext
          /\ UNCHANGED <<codecVars, lbVars, storeVars, backendVars, accountVars,
                        cutterVars>>
       \/ /\ subject = "codec" /\ CodecNext
          /\ UNCHANGED <<limiterVars, lbVars, storeVars, backendVars, accountVars,
                        cutterVars>>
       \/ /\ subject = "balancer" /\ LBNext /\ BalancerBound'
          /\ UNCHANGED <<limiterVars, codecVars, storeVars, backendVars, accountVars,
                        cutterVars>>
       \/ /\ subject = "store" /\ StoreNext /\ StoreBound'
          /\ UNCHANGED <<limiterVars, codecVars, lbVars, backendVars, accountVars,
                        cutterVars>>
       \/ /\ subject = "backend" /\ BackendNext
          /\ UNCHANGED <<limiterVars, codecVars, lbVars, storeVars, accountVars,
                        cutterVars>>
       \/ /\ subject = "accounts" /\ AccountNext
          /\ UNCHANGED <<limiterVars, codecVars, lbVars, storeVars, backendVars,
                        cutterVars>>
       \/ /\ subject = "logs" /\ CutterNext
          /\ UNCHANGED <<limiterVars, codecVars, lbVars, storeVars, backendVars,
                        accountVars>>
    /\ UNCHANGED subject

ServicesSpec == ServicesInit
                /\ [][ServicesNext]_<<subject, limiterVars, codecVars, lbVars,
                                      storeVars, backendVars, accountVars,
                                      cutterVars>>

(* The type invariants of the components. *)
ServicesTypeOK ==
    /\ subject = "limiter" => LimiterTypeOK
    /\ subject = "codec" => CodecTypeOK
    /\ subject = "balancer" => LBTypeOK
    /\ subject = "store" => StoreTypeOK
    /\ subject = "backend" => BackendTypeOK
    /\ subject = "accounts" => AccountTypeOK
    /\ subject = "logs" => CutterTypeOK
=============================================================================
