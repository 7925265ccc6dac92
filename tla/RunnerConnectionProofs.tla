----------------------- MODULE RunnerConnectionProofs -----------------------
(* The safety properties of RunnerConnection for any processes, policies and *)
(* number of failures.                                                      *)
EXTENDS RunnerConnection, TLAPS

(* What a connection rests on: a socket needs a control plane that runs, a   *)
(* join reply on its way was sent by the registered channel with the limits  *)
(* now published, every dispatcher has valid limits, and one that serves has *)
(* the published ones.                                                      *)
JoinInv ==
  \A h \in Hosts :
    /\ sock[h] => up
    /\ offer[h] # None => registry = Channel(h, TRUE) /\ offer[h] = policy
    /\ runtime[h] # None => Valid(runtime[h])
    /\ Serving(h) => runtime[h] = policy

IInv == TypeOK /\ secret <= faults /\ OneRunnerServes /\ JoinInv

(* Every step keeps the types; tokens are no newer than the failures counted. *)
LEMMA TypesStep == IInv /\ [Next]_vars => (TypeOK /\ secret <= faults)'
<1> SUFFICES ASSUME IInv, [Next]_vars PROVE (TypeOK /\ secret <= faults)'
  OBVIOUS
<1> USE ConnectionAssumption DEF IInv, TypeOK, Holding, Channel
<1>1. ASSUME NEW g \in Hosts, Discover(g) PROVE (TypeOK /\ secret <= faults)'
  BY <1>1 DEF Discover, Goto, hostVars, serverVars
<1>2. ASSUME NEW g \in Hosts, ValidateBaseUrl(g) PROVE (TypeOK /\ secret <= faults)'
  BY <1>2 DEF ValidateBaseUrl, Goto, hostVars, serverVars
<1>3. ASSUME NEW g \in Hosts, LockRunner(g) PROVE (TypeOK /\ secret <= faults)'
  BY <1>3 DEF LockRunner, Goto, hostVars, serverVars
<1>4. ASSUME NEW g \in Hosts, Register(g) PROVE (TypeOK /\ secret <= faults)'
  BY <1>4 DEF Register, Goto, hostVars, serverVars
<1>5. ASSUME NEW g \in Hosts, RegisterFails(g) PROVE (TypeOK /\ secret <= faults)'
  BY <1>5 DEF RegisterFails, Goto, Fault, hostVars, serverVars
<1>6. ASSUME NEW g \in Hosts, Connect(g) PROVE (TypeOK /\ secret <= faults)'
  BY <1>6 DEF Connect, Goto, hostVars, serverVars
<1>7. ASSUME NEW g \in Hosts, ConnectFails(g) PROVE (TypeOK /\ secret <= faults)'
  BY <1>7 DEF ConnectFails, Goto, Fault, hostVars, serverVars
<1>8. ASSUME NEW g \in Hosts, AuthRejected(g) PROVE (TypeOK /\ secret <= faults)'
  BY <1>8 DEF AuthRejected, Goto, hostVars, serverVars
<1>9. ASSUME NEW g \in Hosts, JoinFails(g) PROVE (TypeOK /\ secret <= faults)'
  BY <1>9 DEF JoinFails, Goto, Fault, Drop, hostVars, serverVars
<1>10. ASSUME NEW g \in Hosts, JoinReply(g) PROVE (TypeOK /\ secret <= faults)'
  <2>1. offer[g] \in Policies
    BY <1>10 DEF JoinReply
  <2>2. CASE pc'[g] = "serve"
    BY <1>10, <2>1, <2>2 DEF JoinReply, Goto, Leave, Drop, hostVars, serverVars
  <2>3. CASE pc'[g] # "serve"
    <3>1. Leave(g, "exited") /\ UNCHANGED <<serverVars, faults>>
      BY <1>10, <2>3 DEF JoinReply, Goto
    <3> QED
      BY <3>1 DEF Goto, Leave, Drop, serverVars
  <2> QED
    BY <2>2, <2>3
<1>11. ASSUME NEW g \in Hosts, ChannelEnds(g) PROVE (TypeOK /\ secret <= faults)'
  BY <1>11 DEF ChannelEnds, Goto, Fault, Drop, hostVars, serverVars
<1>12. ASSUME NEW g \in Hosts, Wake(g) PROVE (TypeOK /\ secret <= faults)'
  BY <1>12 DEF Wake, Goto, hostVars, serverVars
<1>13. ASSUME NEW g \in Hosts, ServerJoin(g) PROVE (TypeOK /\ secret <= faults)'
  BY <1>13 DEF ServerJoin, hostVars, serverVars
<1>14. ASSUME NEW g \in Hosts, Cut(g) PROVE (TypeOK /\ secret <= faults)'
  BY <1>14 DEF Cut, Fault, Drop, Serving, hostVars, serverVars
<1>15. ASSUME NEW g \in Hosts, Kill(g) PROVE (TypeOK /\ secret <= faults)'
  BY <1>15 DEF Kill, Goto, Fault, Leave, Drop, hostVars, serverVars
<1>16. CASE NoticeDead
  BY <1>16 DEF NoticeDead, hostVars, serverVars
<1>17. CASE ServerStops
  <2>1. sock' \in [Hosts -> BOOLEAN] /\ offer' \in [Hosts -> {None} \cup Policies]
    BY <1>17 DEF ServerStops
  <2>2. \A h \in Hosts : ~sock'[h] /\ offer'[h] = None
    BY <1>17 DEF ServerStops
  <2>3. faults' \in 0 .. MaxFaults /\ secret' = secret /\ secret' <= faults'
    BY <1>17 DEF ServerStops, Fault
  <2>4. up' \in BOOLEAN /\ registry' = None /\ UNCHANGED <<pc, registration, runtime, lock, policy>>
    BY <1>17 DEF ServerStops
  <2> QED
    BY <2>1, <2>2, <2>3, <2>4
<1>18. CASE ServerStarts
  BY <1>18 DEF ServerStarts, hostVars, serverVars
<1>19. CASE RotateSecret
  BY <1>19 DEF RotateSecret, Fault, hostVars, serverVars
<1>20. CASE UNCHANGED vars
  BY <1>20 DEF vars, hostVars, serverVars
<1> QED
  BY <1>1, <1>2, <1>3, <1>4, <1>5, <1>6, <1>7, <1>8, <1>9, <1>10, <1>11, <1>12, <1>13, <1>14, <1>15, <1>16, <1>17, <1>18, <1>19, <1>20 DEF Next, HostStep

(* Every step keeps lock, channel and serving process together.             *)
LEMMA LockStep == IInv /\ [Next]_vars => OneRunnerServes'
<1> SUFFICES ASSUME IInv, [Next]_vars PROVE OneRunnerServes'
  OBVIOUS
<1> USE ConnectionAssumption DEF IInv, TypeOK, OneRunnerServes, JoinInv, Serving, Holding, Channel
<1>1. ASSUME NEW g \in Hosts, Discover(g) PROVE OneRunnerServes'
  BY <1>1 DEF Discover, Goto, hostVars, serverVars
<1>2. ASSUME NEW g \in Hosts, ValidateBaseUrl(g) PROVE OneRunnerServes'
  BY <1>2 DEF ValidateBaseUrl, Goto, hostVars, serverVars
<1>3. ASSUME NEW g \in Hosts, LockRunner(g) PROVE OneRunnerServes'
  BY <1>3 DEF LockRunner, Goto, hostVars, serverVars
<1>4. ASSUME NEW g \in Hosts, Register(g) PROVE OneRunnerServes'
  BY <1>4 DEF Register, Goto, hostVars, serverVars
<1>5. ASSUME NEW g \in Hosts, RegisterFails(g) PROVE OneRunnerServes'
  BY <1>5 DEF RegisterFails, Goto, Fault, hostVars, serverVars
<1>6. ASSUME NEW g \in Hosts, Connect(g) PROVE OneRunnerServes'
  BY <1>6 DEF Connect, Goto, hostVars, serverVars
<1>7. ASSUME NEW g \in Hosts, ConnectFails(g) PROVE OneRunnerServes'
  BY <1>7 DEF ConnectFails, Goto, Fault, hostVars, serverVars
<1>8. ASSUME NEW g \in Hosts, AuthRejected(g) PROVE OneRunnerServes'
  BY <1>8 DEF AuthRejected, Goto, hostVars, serverVars
<1>9. ASSUME NEW g \in Hosts, JoinFails(g) PROVE OneRunnerServes'
  BY <1>9 DEF JoinFails, Goto, Fault, Drop, hostVars, serverVars
<1>10. ASSUME NEW g \in Hosts, JoinReply(g) PROVE OneRunnerServes'
  BY <1>10 DEF JoinReply, Goto, Leave, Drop, hostVars, serverVars
<1>11. ASSUME NEW g \in Hosts, ChannelEnds(g) PROVE OneRunnerServes'
  BY <1>11 DEF ChannelEnds, Goto, Fault, Drop, hostVars, serverVars
<1>12. ASSUME NEW g \in Hosts, Wake(g) PROVE OneRunnerServes'
  BY <1>12 DEF Wake, Goto, hostVars, serverVars
<1>13. ASSUME NEW g \in Hosts, ServerJoin(g) PROVE OneRunnerServes'
  BY <1>13 DEF ServerJoin, hostVars, serverVars
<1>14. ASSUME NEW g \in Hosts, Cut(g) PROVE OneRunnerServes'
  BY <1>14 DEF Cut, Fault, Drop, Serving, hostVars, serverVars
<1>15. ASSUME NEW g \in Hosts, Kill(g) PROVE OneRunnerServes'
  BY <1>15 DEF Kill, Goto, Fault, Leave, Drop, hostVars, serverVars
<1>16. CASE NoticeDead
  BY <1>16 DEF NoticeDead, hostVars, serverVars
<1>17. CASE ServerStops
  BY <1>17 DEF ServerStops, Fault, hostVars, serverVars
<1>18. CASE ServerStarts
  BY <1>18 DEF ServerStarts, hostVars, serverVars
<1>19. CASE RotateSecret
  BY <1>19 DEF RotateSecret, Fault, hostVars, serverVars
<1>20. CASE UNCHANGED vars
  BY <1>20 DEF vars, hostVars, serverVars
<1> QED
  BY <1>1, <1>2, <1>3, <1>4, <1>5, <1>6, <1>7, <1>8, <1>9, <1>10, <1>11, <1>12, <1>13, <1>14, <1>15, <1>16, <1>17, <1>18, <1>19, <1>20 DEF Next, HostStep

(* Every step keeps what a connection rests on.                             *)
LEMMA JoinStep == IInv /\ [Next]_vars => JoinInv'
<1> SUFFICES ASSUME IInv, [Next]_vars PROVE JoinInv'
  OBVIOUS
<1> USE ConnectionAssumption DEF IInv, TypeOK, OneRunnerServes, JoinInv, Serving, Holding, Channel
<1>1. ASSUME NEW g \in Hosts, Discover(g) PROVE JoinInv'
  BY <1>1 DEF Discover, Goto, hostVars, serverVars
<1>2. ASSUME NEW g \in Hosts, ValidateBaseUrl(g) PROVE JoinInv'
  BY <1>2 DEF ValidateBaseUrl, Goto, hostVars, serverVars
<1>3. ASSUME NEW g \in Hosts, LockRunner(g) PROVE JoinInv'
  BY <1>3 DEF LockRunner, Goto, hostVars, serverVars
<1>4. ASSUME NEW g \in Hosts, Register(g) PROVE JoinInv'
  BY <1>4 DEF Register, Goto, hostVars, serverVars
<1>5. ASSUME NEW g \in Hosts, RegisterFails(g) PROVE JoinInv'
  BY <1>5 DEF RegisterFails, Goto, Fault, hostVars, serverVars
<1>6. ASSUME NEW g \in Hosts, Connect(g) PROVE JoinInv'
  BY <1>6 DEF Connect, Goto, hostVars, serverVars
<1>7. ASSUME NEW g \in Hosts, ConnectFails(g) PROVE JoinInv'
  BY <1>7 DEF ConnectFails, Goto, Fault, hostVars, serverVars
<1>8. ASSUME NEW g \in Hosts, AuthRejected(g) PROVE JoinInv'
  BY <1>8 DEF AuthRejected, Goto, hostVars, serverVars
<1>9. ASSUME NEW g \in Hosts, JoinFails(g) PROVE JoinInv'
  BY <1>9 DEF JoinFails, Goto, Fault, Drop, hostVars, serverVars
<1>10. ASSUME NEW g \in Hosts, JoinReply(g) PROVE JoinInv'
  BY <1>10 DEF JoinReply, Goto, Leave, Drop, hostVars, serverVars
<1>11. ASSUME NEW g \in Hosts, ChannelEnds(g) PROVE JoinInv'
  BY <1>11 DEF ChannelEnds, Goto, Fault, Drop, hostVars, serverVars
<1>12. ASSUME NEW g \in Hosts, Wake(g) PROVE JoinInv'
  BY <1>12 DEF Wake, Goto, hostVars, serverVars
<1>13. ASSUME NEW g \in Hosts, ServerJoin(g) PROVE JoinInv'
  <2>1. \A h \in Hosts : Channel(h, TRUE) \in [host: Hosts, live: BOOLEAN]
    OBVIOUS
  <2>2. \A h \in Hosts : offer[h] = None
    BY <1>13, <2>1 DEF ServerJoin
  <2>3. \A h \in Hosts : offer'[h] # None => h = g /\ offer'[h] = policy
    BY <1>13, <2>2 DEF ServerJoin
  <2>4. registry' = Channel(g, TRUE) /\ UNCHANGED <<pc, runtime, sock, up, policy>>
    BY <1>13 DEF ServerJoin, serverVars
  <2>5. \A h \in Hosts : offer'[h] # None => registry' = Channel(h, TRUE) /\ offer'[h] = policy'
    BY <2>3, <2>4
  <2> QED
    BY <2>4, <2>5
<1>14. ASSUME NEW g \in Hosts, Cut(g) PROVE JoinInv'
  BY <1>14 DEF Cut, Fault, Drop, Serving, hostVars, serverVars
<1>15. ASSUME NEW g \in Hosts, Kill(g) PROVE JoinInv'
  BY <1>15 DEF Kill, Goto, Fault, Leave, Drop, hostVars, serverVars
<1>16. CASE NoticeDead
  BY <1>16 DEF NoticeDead, hostVars, serverVars
<1>17. CASE ServerStops
  BY <1>17 DEF ServerStops, Fault, hostVars, serverVars
<1>18. CASE ServerStarts
  BY <1>18 DEF ServerStarts, hostVars, serverVars
<1>19. CASE RotateSecret
  BY <1>19 DEF RotateSecret, Fault, hostVars, serverVars
<1>20. CASE UNCHANGED vars
  BY <1>20 DEF vars, hostVars, serverVars
<1> QED
  BY <1>1, <1>2, <1>3, <1>4, <1>5, <1>6, <1>7, <1>8, <1>9, <1>10, <1>11, <1>12, <1>13, <1>14, <1>15, <1>16, <1>17, <1>18, <1>19, <1>20 DEF Next, HostStep

(* Products of naturals grow with their first factor.                       *)
LEMMA TimesMonotone ==
  ASSUME NEW a \in Nat, NEW b \in Nat, NEW c \in Nat, a <= b
  PROVE  a * c <= b * c
<1> DEFINE d == b - a
<1>1. d \in Nat /\ b = a + d
  OBVIOUS
<1>2. b * c = a * c + d * c /\ d * c \in Nat /\ a * c \in Nat
  BY <1>1
<1> HIDE DEF d
<1> QED
  BY <1>2

(* Valid limits bound every response by the frame and by the cache: output  *)
(* that is escaped as far as it can be, and metadata for as many results or  *)
(* chunks as there may be.  (maximum_encoded_response_bytes, validate)      *)
LEMMA ValidBoundsResponses ==
  ASSUME NEW l \in Policies, Valid(l),
         NEW n \in 0 .. l["output"], NEW k \in 0 .. l["results"] + l["chunks"]
  PROVE  n * EscapeExpansion + k * MetadataBytes + EnvelopeBytes
           <= IF MaxPayload < l["cachedBytes"] THEN MaxPayload ELSE l["cachedBytes"]
<1> DEFINE o == l["output"]
           r == l["results"] + l["chunks"]
<1>1. /\ o \in Nat /\ r \in Nat /\ l["cachedBytes"] \in Nat
      /\ MaxPayload \in Nat /\ EscapeExpansion \in Nat /\ MetadataBytes \in Nat /\ EnvelopeBytes \in Nat
  BY ConnectionAssumption DEF Quotas
<1>2. n * EscapeExpansion <= o * EscapeExpansion
  BY <1>1, TimesMonotone
<1>3. k * MetadataBytes <= r * MetadataBytes
  BY <1>1, TimesMonotone
<1>4. o * EscapeExpansion + r * MetadataBytes + EnvelopeBytes <= MaxPayload
  BY DEF Valid, MaximumEncodedResponse
<1>5. o * EscapeExpansion + r * MetadataBytes + EnvelopeBytes <= l["cachedBytes"]
  BY DEF Valid, MaximumEncodedResponse
<1>6. /\ n * EscapeExpansion \in Nat /\ k * MetadataBytes \in Nat
      /\ o * EscapeExpansion \in Nat /\ r * MetadataBytes \in Nat
  BY <1>1
<1> HIDE DEF o, r
<1> QED
  BY <1>1, <1>2, <1>3, <1>4, <1>5, <1>6

(* The invariant holds at the start, when nothing is connected.             *)
LEMMA InitIInv == Init => IInv
<1> SUFFICES ASSUME Init PROVE IInv
  OBVIOUS
<1> USE ConnectionAssumption DEF Init
<1>1. TypeOK
  BY DEF TypeOK, Holding
<1>2. secret <= faults
  OBVIOUS
<1>3. OneRunnerServes
  BY DEF OneRunnerServes, Holding, Serving
<1>4. JoinInv
  BY DEF JoinInv, Serving
<1> QED
  BY <1>1, <1>2, <1>3, <1>4 DEF IInv

(* The inductive invariant holds always.                                    *)
LEMMA Invariance == Spec => []IInv
<1>1. IInv /\ [Next]_vars => IInv'
  BY TypesStep, LockStep, JoinStep DEF IInv
<1> QED
  BY InitIInv, <1>1, PTL DEF Spec

(* Every value has its type, and a join reply is on its way only over an     *)
(* open socket whose join waits for it, for any processes and policies.     *)
(* (serve_inner)                                                            *)
THEOREM TypesCorrect == Spec => []TypeOK
<1>1. IInv => TypeOK
  BY DEF IInv
<1> QED
  BY Invariance, <1>1, PTL

(* However many programs are started in a workspace and whatever fails, only *)
(* the holder of the lock works towards a connection, and the one that       *)
(* serves is the one the control plane dispatches to.                       *)
(* (lock_runner, RunnerChannel.join)                                        *)
THEOREM OneRunner == Spec => []OneRunnerServes
<1>1. IInv => OneRunnerServes
  BY DEF IInv
<1> QED
  BY Invariance, <1>1, PTL

(* A runner that serves has the limits its control plane publishes, and no   *)
(* response within them outgrows a frame or the cache, for any limits and    *)
(* any sizes of frame, envelope and escapes.                                *)
(* (serve_inner, ExecutionLimits::validate)                                 *)
THEOREM PublishedLimits == Spec => []ServesPublishedLimits
<1>1. IInv => ServesPublishedLimits
  <2> SUFFICES ASSUME IInv, NEW h \in Hosts, Serving(h)
               PROVE  /\ runtime[h] = policy
                      /\ \A n \in 0 .. policy["output"], k \in 0 .. policy["results"] + policy["chunks"] :
                           n * EscapeExpansion + k * MetadataBytes + EnvelopeBytes
                             <= IF MaxPayload < policy["cachedBytes"] THEN MaxPayload
                                ELSE policy["cachedBytes"]
    BY DEF ServesPublishedLimits
  <2>1. runtime[h] = policy /\ policy \in Policies
    BY DEF IInv, JoinInv, TypeOK
  <2>2. Valid(policy)
    BY <2>1, ConnectionAssumption DEF IInv, JoinInv
  <2> QED
    BY <2>1, <2>2, ValidBoundsResponses
<1> QED
  BY Invariance, <1>1, PTL

(* The dispatcher of a process that hosts the workspace is never replaced:   *)
(* its commands, elections and cached responses last as long as its limits.  *)
(* (serve_inner, the match on runtime)                                      *)
THEOREM PolicyEpoch == Spec => PolicyEpochKept
<1> DEFINE Kept == \A h \in Hosts : runtime[h] # None /\ runtime'[h] # runtime[h] => pc'[h] \notin Holding
<1>1. IInv /\ [Next]_vars => [Kept]_vars
  <2> SUFFICES ASSUME IInv, Next, NEW h \in Hosts, runtime[h] # None, runtime'[h] # runtime[h]
               PROVE  pc'[h] \notin Holding
    OBVIOUS
  <2> USE DEF IInv, TypeOK
  <2>1. \E g \in Hosts : JoinReply(g) \/ Kill(g)
    BY DEF Next, HostStep, Discover, ValidateBaseUrl, LockRunner, Register, RegisterFails, Connect,
           ConnectFails, AuthRejected, JoinFails, ChannelEnds, Wake, ServerJoin, Cut, NoticeDead,
           ServerStops, ServerStarts, RotateSecret, hostVars
  <2>2. PICK g \in Hosts : JoinReply(g) \/ Kill(g)
    BY <2>1
  <2>3. Leave(g, "exited")
    BY <2>2 DEF JoinReply, Kill
  <2> QED
    BY <2>3 DEF Leave, Goto, Holding
<1> QED
  BY Invariance, <1>1, PTL DEF Spec, PolicyEpochKept

=============================================================================
