---------------------------- MODULE ServicesProofs ----------------------------
(***************************************************************************)
(* The composition of RateLimit, Codec, LoadBalance, UserStore, Backend,   *)
(* Accounts and LogCutter that one run checks, for all constants: what is  *)
(* proved of each of them holds of it there.                               *)
(***************************************************************************)
EXTENDS MCServices, CommonProofs, RoutingProofs, UserProofs

(* Only the subject of a behaviour takes steps.  The others stay as they   *)
(* are initially, the limiter possibly with a rate it is not made for.     *)
SubjectInv ==
    /\ subject = "limiter" => LimiterInv
    /\ subject = "codec" => DictionaryInv
    /\ subject = "balancer" => RoutingInv
    /\ subject = "store" => StoreTypeOK
    /\ subject = "backend" => BackendTypeOK /\ PipeInv
    /\ subject = "accounts" => CollisionInv
    /\ subject = "logs" => CutterTypeOK

LEMMA SubjectInit == ServicesInit => SubjectInv
<1> SUFFICES ASSUME ServicesInit PROVE SubjectInv  OBVIOUS
<1>1. /\ CodecInit /\ LBInit /\ StoreInit /\ BackendInit /\ AccountInit /\ CutterInit
      /\ subject = "limiter" => LimiterInit
  BY DEF ServicesInit
<1>2. StoreTypeOK  BY <1>1, InitStore
<1>3. DictionaryInv /\ RoutingInv /\ BackendTypeOK /\ PipeInv
  BY <1>1, CodecInitial, RoutingInit, PipeInit
<1>4. CollisionInv /\ CutterTypeOK /\ (subject = "limiter" => LimiterInv)
  BY <1>1, InitCollision, InitTypes, InitLimiter
<1>5. QED  BY <1>2, <1>3, <1>4 DEF SubjectInv

servicesVars == <<subject, limiterVars, codecVars, lbVars, storeVars,
                  backendVars, accountVars, cutterVars>>

LEMMA SubjectStep == SubjectInv /\ [ServicesNext]_servicesVars => SubjectInv'
<1> SUFFICES ASSUME SubjectInv, [ServicesNext]_servicesVars PROVE SubjectInv'
  OBVIOUS
<1>1. /\ subject' = subject
      /\ [LimiterNext]_limiterVars /\ [CodecNext]_codecVars
      /\ [LBNext]_lbVars
      /\ [StoreNext]_storeVars /\ [BackendNext]_backendVars
      /\ [AccountNext]_accountVars /\ [CutterNext]_cutterVars
  BY DEF ServicesNext, servicesVars
<1>2. CASE subject = "limiter"
  BY <1>1, <1>2, StepLimiter DEF SubjectInv
<1>3. CASE subject = "codec"
  BY <1>1, <1>3, DictionaryStep DEF SubjectInv
<1>4. CASE subject = "balancer"
  BY <1>1, <1>4, RoutingStep DEF SubjectInv
<1>5. CASE subject = "store"
  BY <1>1, <1>5, StoreTypeStep DEF SubjectInv
<1>6. CASE subject = "backend"
  BY <1>1, <1>6, PipeStep DEF SubjectInv
<1>7. CASE subject = "accounts"
  BY <1>1, <1>7, StepCollision DEF SubjectInv
<1>8. CASE subject = "logs"
  BY <1>1, <1>8, TypeStep DEF SubjectInv
<1>9. CASE subject \notin {"limiter", "codec", "balancer", "store", "backend",
                           "accounts", "logs"}
  BY <1>1, <1>9 DEF SubjectInv
<1>10. QED  BY <1>2, <1>3, <1>4, <1>5, <1>6, <1>7, <1>8, <1>9

(* Every component of the run keeps its types while it is the subject.     *)
THEOREM ServicesTypeCorrect == ServicesSpec => []ServicesTypeOK
<1>1. SubjectInv => ServicesTypeOK
  BY DEF SubjectInv, ServicesTypeOK, LimiterInv, DictionaryInv, RoutingInv,
         RoutingHolds, CollisionInv, UidInv
<1>2. QED  BY <1>1, SubjectInit, SubjectStep, PTL DEF ServicesSpec, servicesVars
=============================================================================
