----------------------------- MODULE ServerProofs -----------------------------
(***************************************************************************)
(* Proofs about the life of a Server, for any number of spliced streams    *)
(* and of concurrent calls of RegisterService.                             *)
(***************************************************************************)
EXTENDS Server, FiniteSetTheorems, TLAPS

\* Server.lock: whoever is between Lock and Unlock is the writer, Serve's
\* goroutine is the only reader, and never both.
LockInv ==
  /\ \A k \in Spliced :
       splice[k] \in {"locked", "discover", "wait"} <=> writer = k
  /\ \A g \in Registrars : register[g] = "locked" <=> writer = g
  /\ teardown \in {"close", "closing", "report"} <=> writer = "teardown"
  /\ readers = IF teardown = "running" THEN 1 ELSE 0
  /\ teardown = "running" => writer = "free"
  /\ serve = "idle" <=> teardown = "none"

\* The error channel holds one error for a Serve that failed and one for a
\* goroutine that has ended.
ChInv ==
  Len(ch) = (IF serve = "noConn" THEN 1 ELSE 0)
              + (IF teardown = "done" THEN 1 ELSE 0)

\* The teardown: what Run of the main controller returned is known, and a
\* spliced controller is still to be closed or its pump has ended.
CloseInv ==
  /\ \A k \in Controller : run[k] = "none" => pump[k] = "none"
  /\ \A k \in Controller :
       run[k] \in {"stopping", "returned"} => runErr[k] # "none"
  /\ teardown \notin {"none", "running"} => run[Main] = "returned"
  /\ teardown \in {"close", "closing", "report"} =>
       \A i \in DOMAIN tracked :
         \/ pump[tracked[i]] = "done"
         \/ \E j \in DOMAIN closing : closing[j] = tracked[i]
  /\ teardown = "report" => closing = <<>> /\ pump[Main] = "done"

\* While the main stream is served, a spliced controller is still to come in
\* Serve's loop or has been given the services.
SyncInv ==
  serve \in {"sync", "conn"} /\ teardown = "running" =>
    \A i \in DOMAIN tracked :
      \/ tracked[i] \in synced
      \/ serve = "sync" /\ \E j \in DOMAIN syncing : syncing[j] = tracked[i]

Inv == TypeOK /\ LockInv /\ ChInv /\ CloseInv /\ SyncInv

-------------------------------------------------------------------------------
\* What Append, Head and Tail do to the lists and the channel of a server.
LEMMA ListFacts ==
  ASSUME NEW S, NEW s \in Seq(S)
  PROVE  /\ \A x \in S : /\ Append(s, x) \in Seq(S)
                         /\ Len(Append(s, x)) = Len(s) + 1
         /\ s # <<>> => /\ Head(s) \in S /\ Head(s) = s[1]
                        /\ Tail(s) \in Seq(S)
                        /\ DOMAIN Tail(s) = 1 .. Len(s) - 1
                        /\ \A i \in 1 .. Len(s) - 1 : Tail(s)[i] = s[i + 1]
         /\ Len(s) \in Nat /\ DOMAIN s = 1 .. Len(s)
         /\ \A i \in DOMAIN s : s[i] \in S
  OBVIOUS

\* The controllers: the main one is not spliced.
LEMMA ControllerFacts ==
  /\ Main \in Controller /\ Main \notin Spliced /\ Spliced \subseteq Controller
  /\ \A k \in Controller : k = Main \/ k \in Spliced
  /\ "free" \notin Spliced /\ "teardown" \notin Spliced
  /\ "free" \notin Registrars /\ "teardown" \notin Registrars
  /\ \A k \in Spliced, g \in Registrars : k # g
BY ServerAssumption DEF ServerAssumption, Controller

\* Between Lock and Unlock the teardown closes a controller of the server.
LEMMA TargetFacts ==
  ASSUME TypeOK
  PROVE  /\ Target \in Controller
         /\ Target = Main <=> closing = <<>>
         /\ closing # <<>> => Target = Head(closing)
<1>1. closing \in Seq(Spliced)
  BY DEF TypeOK
<1>2. closing # <<>> => Head(closing) \in Spliced
  BY <1>1, ListFacts
<1> QED BY <1>2, ControllerFacts DEF Target

\* The initial state, before Serve and Splice.
LEMMA InitInv == Init => Inv
<1> SUFFICES ASSUME Init PROVE Inv
  OBVIOUS
<1>1. TypeOK
  BY DEF Init, TypeOK
<1>2. LockInv
  BY ControllerFacts DEF Init, LockInv
<1>3. ChInv
  BY DEF Init, ChInv
<1>4. CloseInv /\ SyncInv
  BY ControllerFacts DEF Init, CloseInv, SyncInv
<1> QED BY <1>1, <1>2, <1>3, <1>4 DEF Inv

\* Every step of every goroutine keeps the types.
LEMMA TypeStep == TypeOK /\ LockInv /\ CloseInv /\ [Next]_vars => TypeOK'
<1> SUFFICES ASSUME TypeOK, LockInv, CloseInv, [Next]_vars PROVE TypeOK'
  OBVIOUS
<1> USE ControllerFacts DEF TypeOK, ctrlVars, lockVars, syncVars,
             serverVars
<1>1. ASSUME NEW k \in Controller, RunStart(k) PROVE TypeOK'
  BY <1>1 DEF RunStart, Launched
<1>2. ASSUME NEW k \in Controller, PumpEnd(k) PROVE TypeOK'
  BY <1>2 DEF PumpEnd
<1>3. ASSUME NEW k \in Controller, RunEnd(k) PROVE TypeOK'
  BY <1>3 DEF RunEnd
<1>4. ASSUME NEW k \in Controller, StopAndWait(k) PROVE TypeOK'
  BY <1>4 DEF StopAndWait
<1>5. ASSUME NEW k \in Controller, Respond(k) PROVE TypeOK'
  BY <1>5 DEF Respond
<1>6. ASSUME NEW k \in Controller, RemoteEnds(k) PROVE TypeOK'
  BY <1>6 DEF RemoteEnds
<1>7. ASSUME NEW k \in Controller, RemoteAnswersClose(k) PROVE TypeOK'
  BY <1>7 DEF RemoteAnswersClose
<1>8. ASSUME ServeStart PROVE TypeOK'
  <2>1. readers' \in {0, 1}
    BY <1>8 DEF ServeStart, LockInv
  <2> QED BY <1>8, <2>1 DEF ServeStart
<1>9. ASSUME ServeDiscover PROVE TypeOK'
  <2>1. kick' \in [Controller -> BOOLEAN]
    BY <1>9 DEF ServeDiscover, Request
  <2>2. discovery' \in [Controller -> {"none", "stored", "ok", "failed", "lost"}]
    BY <1>9 DEF ServeDiscover, Request
  <2> QED BY <1>9, <2>1, <2>2 DEF ServeDiscover
<1>10. ASSUME ServeOK PROVE TypeOK'
  BY <1>10 DEF ServeOK
<1>11. ASSUME ServeSync PROVE TypeOK'
  <2>1. synced' \subseteq Spliced /\ syncing' \in Seq(Spliced)
    BY <1>11, ListFacts DEF ServeSync
  <2> QED BY <1>11, <2>1 DEF ServeSync
<1>12. ASSUME ServeFail PROVE TypeOK'
  BY <1>12 DEF ServeFail
<1>13. ASSUME ServeClose PROVE TypeOK'
  BY <1>13 DEF ServeClose, CloseBegin
<1>14. ASSUME ServeReturnErr PROVE TypeOK'
  <2>1. ch' \in Seq({"nil", "err"})
    BY <1>14, ListFacts DEF ServeReturnErr
  <2> QED BY <1>14, <2>1 DEF ServeReturnErr, CloseEnd
<1>15. ASSUME TeardownUnlock PROVE TypeOK'
  <2>1. readers' \in {0, 1}
    BY <1>15 DEF TeardownUnlock, LockInv
  <2> QED BY <1>15, <2>1 DEF TeardownUnlock
<1>16. ASSUME TeardownLock PROVE TypeOK'
  BY <1>16 DEF TeardownLock, Lock
<1>17. ASSUME TeardownClose PROVE TypeOK'
  BY <1>17, TargetFacts DEF TeardownClose, CloseBegin
<1>18. ASSUME TeardownClosed PROVE TypeOK'
  <2>1. closing' \in Seq(Spliced)
    BY <1>18, TargetFacts, ListFacts DEF TeardownClosed
  <2> QED BY <1>18, <2>1, TargetFacts DEF TeardownClosed, CloseEnd
<1>19. ASSUME TeardownReport PROVE TypeOK'
  <2>1. runErr[Main] \in {"nil", "err"}
    BY <1>19 DEF TeardownReport, CloseInv
  <2>2. ch' \in Seq({"nil", "err"})
    BY <1>19, <2>1, ListFacts DEF TeardownReport
  <2> QED BY <1>19, <2>2 DEF TeardownReport
<1>20. ASSUME NEW k \in Spliced, SpliceLock(k) PROVE TypeOK'
  BY <1>20 DEF SpliceLock, Lock
<1>21. ASSUME NEW k \in Spliced, SpliceRun(k) PROVE TypeOK'
  BY <1>21 DEF SpliceRun
<1>22. ASSUME NEW k \in Spliced, SpliceDiscover(k) PROVE TypeOK'
  <2>1. kick' \in [Controller -> BOOLEAN]
    BY <1>22 DEF SpliceDiscover, Request
  <2>2. discovery' \in [Controller ->
                         {"none", "stored", "ok", "failed", "lost"}]
    BY <1>22 DEF SpliceDiscover, Request
  <2> QED BY <1>22, <2>1, <2>2 DEF SpliceDiscover
<1>23. ASSUME NEW k \in Spliced, SpliceReturn(k) PROVE TypeOK'
  <2>1. tracked' \in Seq(Spliced)
    <3>1. Append(tracked, k) \in Seq(Spliced)
      BY ListFacts
    <3> QED BY <1>23, <3>1 DEF SpliceReturn
  <2>2. splice' \in [Spliced -> {"idle", "locked", "discover", "wait", "ok",
                                "failed"}]
    <3>1. \/ splice' = [splice EXCEPT ![k] = "ok"]
          \/ splice' = [splice EXCEPT ![k] = "failed"]
      BY <1>23 DEF SpliceReturn
    <3>2. CASE splice' = [splice EXCEPT ![k] = "ok"]
      BY <3>2
    <3>3. CASE splice' = [splice EXCEPT ![k] = "failed"]
      BY <3>3
    <3> QED BY <3>1, <3>2, <3>3
  <2> QED BY <1>23, <2>1, <2>2 DEF SpliceReturn
<1>24. ASSUME NEW g \in Registrars, RegisterLock(g) PROVE TypeOK'
  BY <1>24 DEF RegisterLock, Lock
<1>25. ASSUME NEW g \in Registrars, RegisterReturn(g) PROVE TypeOK'
  BY <1>25 DEF RegisterReturn
<1>26. CASE UNCHANGED vars
  BY <1>26 DEF vars
<1>27. ASSUME ServeReturn PROVE TypeOK'
  BY <1>27 DEF ServeReturn
<1> QED BY <1>1, <1>2, <1>3, <1>4, <1>5, <1>6, <1>7, <1>8, <1>9, <1>10,
          <1>11, <1>12, <1>13, <1>14, <1>15, <1>16, <1>17, <1>18, <1>19,
          <1>20, <1>21, <1>22, <1>23, <1>24, <1>25, <1>26, <1>27
        DEF Next, Ctrl, Serve, Teardown, Splice

\* Every step keeps the lock to one writer, or to the reader that serves.
LEMMA LockStep == TypeOK /\ LockInv /\ [Next]_vars => LockInv'
<1> SUFFICES ASSUME TypeOK, LockInv, [Next]_vars PROVE LockInv'
  OBVIOUS
<1> USE ControllerFacts DEF TypeOK, LockInv, ctrlVars, lockVars, syncVars,
             serverVars
<1>1. ASSUME NEW k \in Controller, RunStart(k) PROVE LockInv'
  BY <1>1 DEF RunStart, Launched
<1>2. ASSUME NEW k \in Controller, PumpEnd(k) PROVE LockInv'
  BY <1>2 DEF PumpEnd
<1>3. ASSUME NEW k \in Controller, RunEnd(k) PROVE LockInv'
  BY <1>3 DEF RunEnd
<1>4. ASSUME NEW k \in Controller, StopAndWait(k) PROVE LockInv'
  BY <1>4 DEF StopAndWait
<1>5. ASSUME NEW k \in Controller, Respond(k) PROVE LockInv'
  BY <1>5 DEF Respond
<1>6. ASSUME NEW k \in Controller, RemoteEnds(k) PROVE LockInv'
  BY <1>6 DEF RemoteEnds
<1>7. ASSUME NEW k \in Controller, RemoteAnswersClose(k) PROVE LockInv'
  BY <1>7 DEF RemoteAnswersClose
<1>8. ASSUME ServeStart PROVE LockInv'
  BY <1>8 DEF ServeStart
<1>9. ASSUME ServeDiscover PROVE LockInv'
  BY <1>9 DEF ServeDiscover, Request
<1>10. ASSUME ServeOK PROVE LockInv'
  BY <1>10 DEF ServeOK
<1>11. ASSUME ServeSync PROVE LockInv'
  BY <1>11 DEF ServeSync
<1>12. ASSUME ServeFail PROVE LockInv'
  BY <1>12 DEF ServeFail
<1>13. ASSUME ServeClose PROVE LockInv'
  BY <1>13 DEF ServeClose, CloseBegin
<1>14. ASSUME ServeReturnErr PROVE LockInv'
  BY <1>14 DEF ServeReturnErr, CloseEnd
<1>15. ASSUME TeardownUnlock PROVE LockInv'
  BY <1>15 DEF TeardownUnlock
<1>16. ASSUME TeardownLock PROVE LockInv'
  BY <1>16 DEF TeardownLock, Lock
<1>17. ASSUME TeardownClose PROVE LockInv'
  BY <1>17 DEF TeardownClose, CloseBegin, Target
<1>18. ASSUME TeardownClosed PROVE LockInv'
  BY <1>18 DEF TeardownClosed, CloseEnd, Target
<1>19. ASSUME TeardownReport PROVE LockInv'
  BY <1>19 DEF TeardownReport
<1>20. ASSUME NEW k \in Spliced, SpliceLock(k) PROVE LockInv'
  BY <1>20 DEF SpliceLock, Lock
<1>21. ASSUME NEW k \in Spliced, SpliceRun(k) PROVE LockInv'
  BY <1>21 DEF SpliceRun
<1>22. ASSUME NEW k \in Spliced, SpliceDiscover(k) PROVE LockInv'
  BY <1>22 DEF SpliceDiscover, Request
<1>23. ASSUME NEW k \in Spliced, SpliceReturn(k) PROVE LockInv'
  <2>1. /\ writer = k /\ writer' = "free"
        /\ \/ splice' = [splice EXCEPT ![k] = "ok"]
           \/ splice' = [splice EXCEPT ![k] = "failed"]
        /\ UNCHANGED <<readers, serve, teardown, register>>
    BY <1>23 DEF SpliceReturn
  <2>2. CASE splice' = [splice EXCEPT ![k] = "ok"]
    BY <2>1, <2>2, SMTT(30)
  <2>3. CASE splice' = [splice EXCEPT ![k] = "failed"]
    BY <2>1, <2>3, SMTT(30)
  <2> QED BY <2>1, <2>2, <2>3
<1>24. ASSUME NEW g \in Registrars, RegisterLock(g) PROVE LockInv'
  BY <1>24 DEF RegisterLock, Lock
<1>25. ASSUME NEW g \in Registrars, RegisterReturn(g) PROVE LockInv'
  BY <1>25 DEF RegisterReturn
<1>26. CASE UNCHANGED vars
  BY <1>26 DEF vars
<1>27. ASSUME ServeReturn PROVE LockInv'
  BY <1>27 DEF ServeReturn
<1> QED BY <1>1, <1>2, <1>3, <1>4, <1>5, <1>6, <1>7, <1>8, <1>9, <1>10,
          <1>11, <1>12, <1>13, <1>14, <1>15, <1>16, <1>17, <1>18, <1>19,
          <1>20, <1>21, <1>22, <1>23, <1>24, <1>25, <1>26, <1>27
        DEF Next, Ctrl, Serve, Teardown, Splice

\* Every step keeps the count of the errors that were written.
LEMMA ChStep == TypeOK /\ LockInv /\ ChInv /\ [Next]_vars => ChInv'
<1> SUFFICES ASSUME TypeOK, LockInv, ChInv, [Next]_vars PROVE ChInv'
  OBVIOUS
<1> USE DEF TypeOK, ChInv, ctrlVars, lockVars, syncVars,
             serverVars
<1>1. ASSUME NEW k \in Controller, RunStart(k) PROVE ChInv'
  BY <1>1 DEF RunStart, Launched
<1>2. ASSUME NEW k \in Controller, PumpEnd(k) PROVE ChInv'
  BY <1>2 DEF PumpEnd
<1>3. ASSUME NEW k \in Controller, RunEnd(k) PROVE ChInv'
  BY <1>3 DEF RunEnd
<1>4. ASSUME NEW k \in Controller, StopAndWait(k) PROVE ChInv'
  BY <1>4 DEF StopAndWait
<1>5. ASSUME NEW k \in Controller, Respond(k) PROVE ChInv'
  BY <1>5 DEF Respond
<1>6. ASSUME NEW k \in Controller, RemoteEnds(k) PROVE ChInv'
  BY <1>6 DEF RemoteEnds
<1>7. ASSUME NEW k \in Controller, RemoteAnswersClose(k) PROVE ChInv'
  BY <1>7 DEF RemoteAnswersClose
<1>8. ASSUME ServeStart PROVE ChInv'
  BY <1>8 DEF ServeStart, LockInv
<1>9. ASSUME ServeDiscover PROVE ChInv'
  BY <1>9 DEF ServeDiscover, Request
<1>10. ASSUME ServeOK PROVE ChInv'
  BY <1>10 DEF ServeOK
<1>11. ASSUME ServeSync PROVE ChInv'
  BY <1>11 DEF ServeSync
<1>12. ASSUME ServeFail PROVE ChInv'
  BY <1>12 DEF ServeFail
<1>13. ASSUME ServeClose PROVE ChInv'
  BY <1>13 DEF ServeClose, CloseBegin
<1>14. ASSUME ServeReturnErr PROVE ChInv'
  <2>1. Len(ch') = Len(ch) + 1
    <3>1. ch' = Append(ch, "err") /\ ch \in Seq({"nil", "err"})
      BY <1>14 DEF ServeReturnErr
    <3> QED BY <3>1, ListFacts
  <2> QED BY <1>14, <2>1 DEF ServeReturnErr
<1>15. ASSUME TeardownUnlock PROVE ChInv'
  BY <1>15 DEF TeardownUnlock
<1>16. ASSUME TeardownLock PROVE ChInv'
  BY <1>16 DEF TeardownLock, Lock
<1>17. ASSUME TeardownClose PROVE ChInv'
  BY <1>17 DEF TeardownClose, CloseBegin, Target
<1>18. ASSUME TeardownClosed PROVE ChInv'
  BY <1>18 DEF TeardownClosed, CloseEnd, Target
<1>19. ASSUME TeardownReport PROVE ChInv'
  <2>1. Len(ch') = Len(ch) + 1
    <3>1. ch' = Append(ch, runErr[Main]) /\ runErr[Main] \in {"none", "nil", "err"}
      BY <1>19, ControllerFacts DEF TeardownReport
    <3> QED BY <3>1
  <2> QED BY <1>19, <2>1 DEF TeardownReport
<1>20. ASSUME NEW k \in Spliced, SpliceLock(k) PROVE ChInv'
  BY <1>20 DEF SpliceLock, Lock
<1>21. ASSUME NEW k \in Spliced, SpliceRun(k) PROVE ChInv'
  BY <1>21 DEF SpliceRun
<1>22. ASSUME NEW k \in Spliced, SpliceDiscover(k) PROVE ChInv'
  BY <1>22 DEF SpliceDiscover, Request
<1>23. ASSUME NEW k \in Spliced, SpliceReturn(k) PROVE ChInv'
  BY <1>23 DEF SpliceReturn
<1>24. ASSUME NEW g \in Registrars, RegisterLock(g) PROVE ChInv'
  BY <1>24 DEF RegisterLock, Lock
<1>25. ASSUME NEW g \in Registrars, RegisterReturn(g) PROVE ChInv'
  BY <1>25 DEF RegisterReturn
<1>26. CASE UNCHANGED vars
  BY <1>26 DEF vars
<1>27. ASSUME ServeReturn PROVE ChInv'
  BY <1>27 DEF ServeReturn
<1> QED BY <1>1, <1>2, <1>3, <1>4, <1>5, <1>6, <1>7, <1>8, <1>9, <1>10,
          <1>11, <1>12, <1>13, <1>14, <1>15, <1>16, <1>17, <1>18, <1>19,
          <1>20, <1>21, <1>22, <1>23, <1>24, <1>25, <1>26, <1>27
        DEF Next, Ctrl, Serve, Teardown, Splice

\* Every step of the teardown closes its list from the front; no other step
\* changes the list, starts a pump again or runs a controller twice.
LEMMA CloseStep ==
  TypeOK /\ LockInv /\ CloseInv /\ [Next]_vars => CloseInv'
<1> SUFFICES ASSUME TypeOK, LockInv, CloseInv, [Next]_vars PROVE CloseInv'
  OBVIOUS
<1> USE ControllerFacts DEF TypeOK, CloseInv, ctrlVars, lockVars, syncVars,
             serverVars
<1>1. ASSUME NEW k \in Controller, RunStart(k) PROVE CloseInv'
  BY <1>1 DEF RunStart, Launched
<1>2. ASSUME NEW k \in Controller, PumpEnd(k) PROVE CloseInv'
  BY <1>2 DEF PumpEnd
<1>3. ASSUME NEW k \in Controller, RunEnd(k) PROVE CloseInv'
  BY <1>3 DEF RunEnd
<1>4. ASSUME NEW k \in Controller, StopAndWait(k) PROVE CloseInv'
  BY <1>4 DEF StopAndWait
<1>5. ASSUME NEW k \in Controller, Respond(k) PROVE CloseInv'
  BY <1>5 DEF Respond
<1>6. ASSUME NEW k \in Controller, RemoteEnds(k) PROVE CloseInv'
  BY <1>6 DEF RemoteEnds
<1>7. ASSUME NEW k \in Controller, RemoteAnswersClose(k) PROVE CloseInv'
  BY <1>7 DEF RemoteAnswersClose
<1>8. ASSUME ServeStart PROVE CloseInv'
  BY <1>8 DEF ServeStart
<1>9. ASSUME ServeDiscover PROVE CloseInv'
  BY <1>9 DEF ServeDiscover, Request
<1>10. ASSUME ServeOK PROVE CloseInv'
  BY <1>10 DEF ServeOK
<1>11. ASSUME ServeSync PROVE CloseInv'
  BY <1>11 DEF ServeSync
<1>12. ASSUME ServeFail PROVE CloseInv'
  BY <1>12 DEF ServeFail
<1>13. ASSUME ServeClose PROVE CloseInv'
  BY <1>13 DEF ServeClose, CloseBegin
<1>14. ASSUME ServeReturnErr PROVE CloseInv'
  BY <1>14 DEF ServeReturnErr, CloseEnd
<1>15. ASSUME TeardownUnlock PROVE CloseInv'
  BY <1>15 DEF TeardownUnlock
<1>16. ASSUME TeardownLock PROVE CloseInv'
  BY <1>16, ListFacts DEF TeardownLock, Lock
<1>17. ASSUME TeardownClose PROVE CloseInv'
  BY <1>17 DEF TeardownClose, CloseBegin, Target
<1>18. ASSUME TeardownClosed PROVE CloseInv'
  <2>1. CASE closing = <<>>
    BY <1>18, <2>1, TargetFacts DEF TeardownClosed, CloseEnd
  <2>2. CASE closing # <<>>
    <3>1. /\ pump[Head(closing)] = "done"
          /\ closing' = Tail(closing) /\ teardown' = "close"
          /\ UNCHANGED <<run, runErr, pump, tracked>>
      BY <1>18, <2>2, TargetFacts DEF TeardownClosed, CloseEnd
    <3>2. ASSUME NEW i \in DOMAIN tracked, NEW j \in DOMAIN closing,
                 closing[j] = tracked[i]
          PROVE  \/ pump[tracked[i]] = "done"
                 \/ \E l \in DOMAIN Tail(closing) :
                      Tail(closing)[l] = tracked[i]
      <4>1. CASE j = 1
        BY <2>2, <3>1, <3>2, <4>1, ListFacts
      <4>2. CASE j # 1
        <5>1. /\ j - 1 \in DOMAIN Tail(closing)
              /\ Tail(closing)[j - 1] = closing[j]
          BY <2>2, <4>2, ListFacts
        <5> QED BY <3>2, <5>1
      <4> QED BY <4>1, <4>2
    <3> QED BY <1>18, <3>1, <3>2 DEF TeardownClosed
  <2> QED BY <2>1, <2>2
<1>19. ASSUME TeardownReport PROVE CloseInv'
  BY <1>19 DEF TeardownReport
<1>20. ASSUME NEW k \in Spliced, SpliceLock(k) PROVE CloseInv'
  BY <1>20 DEF SpliceLock, Lock
<1>21. ASSUME NEW k \in Spliced, SpliceRun(k) PROVE CloseInv'
  BY <1>21 DEF SpliceRun
<1>22. ASSUME NEW k \in Spliced, SpliceDiscover(k) PROVE CloseInv'
  BY <1>22 DEF SpliceDiscover, Request
<1>23. ASSUME NEW k \in Spliced, SpliceReturn(k) PROVE CloseInv'
  <2>1. /\ teardown \notin {"close", "closing", "report"}
        /\ UNCHANGED <<run, runErr, pump, teardown>>
    BY <1>23 DEF SpliceReturn, LockInv
  <2> QED BY <2>1
<1>24. ASSUME NEW g \in Registrars, RegisterLock(g) PROVE CloseInv'
  BY <1>24 DEF RegisterLock, Lock
<1>25. ASSUME NEW g \in Registrars, RegisterReturn(g) PROVE CloseInv'
  BY <1>25 DEF RegisterReturn
<1>26. CASE UNCHANGED vars
  BY <1>26 DEF vars
<1>27. ASSUME ServeReturn PROVE CloseInv'
  BY <1>27 DEF ServeReturn
<1> QED BY <1>1, <1>2, <1>3, <1>4, <1>5, <1>6, <1>7, <1>8, <1>9, <1>10,
          <1>11, <1>12, <1>13, <1>14, <1>15, <1>16, <1>17, <1>18, <1>19,
          <1>20, <1>21, <1>22, <1>23, <1>24, <1>25, <1>26, <1>27
        DEF Next, Ctrl, Serve, Teardown, Splice

\* Every step leaves the spliced controllers of a served stream synced, or still
\* to come: none is added while it is served.
LEMMA SyncStep ==
  TypeOK /\ LockInv /\ SyncInv /\ [Next]_vars => SyncInv'
<1> SUFFICES ASSUME TypeOK, LockInv, SyncInv, [Next]_vars
             PROVE  SyncInv'
  OBVIOUS
<1> USE DEF TypeOK, SyncInv, ctrlVars, lockVars, syncVars,
             serverVars
<1>1. ASSUME NEW k \in Controller, RunStart(k) PROVE SyncInv'
  BY <1>1 DEF RunStart, Launched
<1>2. ASSUME NEW k \in Controller, PumpEnd(k) PROVE SyncInv'
  BY <1>2 DEF PumpEnd
<1>3. ASSUME NEW k \in Controller, RunEnd(k) PROVE SyncInv'
  BY <1>3 DEF RunEnd
<1>4. ASSUME NEW k \in Controller, StopAndWait(k) PROVE SyncInv'
  BY <1>4 DEF StopAndWait
<1>5. ASSUME NEW k \in Controller, Respond(k) PROVE SyncInv'
  BY <1>5 DEF Respond
<1>6. ASSUME NEW k \in Controller, RemoteEnds(k) PROVE SyncInv'
  BY <1>6 DEF RemoteEnds
<1>7. ASSUME NEW k \in Controller, RemoteAnswersClose(k) PROVE SyncInv'
  BY <1>7 DEF RemoteAnswersClose
<1>8. ASSUME ServeStart PROVE SyncInv'
  BY <1>8 DEF ServeStart, LockInv
<1>9. ASSUME ServeDiscover PROVE SyncInv'
  BY <1>9 DEF ServeDiscover, Request
<1>10. ASSUME ServeOK PROVE SyncInv'
  BY <1>10 DEF ServeOK
<1>11. ASSUME ServeSync PROVE SyncInv'
  <2>1. /\ synced' = synced \cup {Head(syncing)} /\ syncing' = Tail(syncing)
        /\ syncing # <<>> /\ serve = "sync"
        /\ UNCHANGED <<serve, teardown, tracked>>
    BY <1>11 DEF ServeSync
  <2>2. ASSUME NEW i \in DOMAIN tracked, NEW j \in DOMAIN syncing,
               syncing[j] = tracked[i]
        PROVE  \/ tracked[i] \in synced'
               \/ \E l \in DOMAIN Tail(syncing) : Tail(syncing)[l] = tracked[i]
    <3>1. CASE j = 1
      BY <2>1, <2>2, <3>1, ListFacts
    <3>2. CASE j # 1
      <4>1. /\ j - 1 \in DOMAIN Tail(syncing)
            /\ Tail(syncing)[j - 1] = syncing[j]
        BY <2>1, <3>2, ListFacts
      <4> QED BY <2>2, <4>1
    <3> QED BY <3>1, <3>2
  <2> QED BY <2>1, <2>2
<1>12. ASSUME ServeFail PROVE SyncInv'
  BY <1>12 DEF ServeFail
<1>13. ASSUME ServeClose PROVE SyncInv'
  BY <1>13 DEF ServeClose, CloseBegin
<1>14. ASSUME ServeReturnErr PROVE SyncInv'
  BY <1>14 DEF ServeReturnErr, CloseEnd
<1>15. ASSUME TeardownUnlock PROVE SyncInv'
  BY <1>15 DEF TeardownUnlock
<1>16. ASSUME TeardownLock PROVE SyncInv'
  BY <1>16 DEF TeardownLock, Lock
<1>17. ASSUME TeardownClose PROVE SyncInv'
  BY <1>17 DEF TeardownClose, CloseBegin, Target
<1>18. ASSUME TeardownClosed PROVE SyncInv'
  BY <1>18 DEF TeardownClosed, CloseEnd, Target
<1>19. ASSUME TeardownReport PROVE SyncInv'
  BY <1>19 DEF TeardownReport
<1>20. ASSUME NEW k \in Spliced, SpliceLock(k) PROVE SyncInv'
  BY <1>20 DEF SpliceLock, Lock
<1>21. ASSUME NEW k \in Spliced, SpliceRun(k) PROVE SyncInv'
  BY <1>21 DEF SpliceRun
<1>22. ASSUME NEW k \in Spliced, SpliceDiscover(k) PROVE SyncInv'
  BY <1>22 DEF SpliceDiscover, Request
<1>23. ASSUME NEW k \in Spliced, SpliceReturn(k) PROVE SyncInv'
  BY <1>23, ControllerFacts DEF SpliceReturn, LockInv
<1>24. ASSUME NEW g \in Registrars, RegisterLock(g) PROVE SyncInv'
  BY <1>24 DEF RegisterLock, Lock
<1>25. ASSUME NEW g \in Registrars, RegisterReturn(g) PROVE SyncInv'
  BY <1>25 DEF RegisterReturn
<1>26. CASE UNCHANGED vars
  BY <1>26 DEF vars
<1>27. ASSUME ServeReturn PROVE SyncInv'
  BY <1>27 DEF ServeReturn
<1> QED BY <1>1, <1>2, <1>3, <1>4, <1>5, <1>6, <1>7, <1>8, <1>9, <1>10,
          <1>11, <1>12, <1>13, <1>14, <1>15, <1>16, <1>17, <1>18, <1>19,
          <1>20, <1>21, <1>22, <1>23, <1>24, <1>25, <1>26, <1>27
        DEF Next, Ctrl, Serve, Teardown, Splice

\* The invariant holds in every reachable state.
LEMMA Invariance == Spec => []Inv
<1>1. Inv /\ [Next]_vars => Inv'
  BY TypeStep, LockStep, ChStep, CloseStep, SyncStep DEF Inv
<1> QED BY <1>1, InitInv, PTL DEF Spec

-------------------------------------------------------------------------------
\* server.go: the variables of a server and of its goroutines keep their types;
\* the count of read locks never goes below zero or above one.
THEOREM TypeCorrect == Spec => []TypeOK
<1>1. Inv => TypeOK
  BY DEF Inv
<1> QED BY <1>1, Invariance, PTL

\* server.go: of Serve's goroutine while it serves, its teardown, and any
\* number of calls of Splice and RegisterService, at most one is ever between
\* taking Server.lock and giving it up; and Serve's own loop over the spliced
\* controllers, which takes no lock, runs beside none of the others unless Run
\* of the main controller has already returned.
THEOREM MutualExclusion == Spec => []Exclusive
<1>1. ASSUME TypeOK, LockInv, CloseInv PROVE Exclusive
  <2>1. \A x, y \in Holders : x = y
    <3>1. CASE teardown = "running"
      <4>1. writer = "free" /\ ~(teardown \in {"close", "closing", "report"})
        BY <1>1, <3>1 DEF LockInv
      <4>2. Holders \subseteq {"serve"}
        BY <1>1, <4>1, ControllerFacts DEF Holders, LockInv
      <4> QED BY <4>2
    <3>2. CASE teardown # "running"
      <4>1. Holders \subseteq {writer}
        BY <1>1, <3>2 DEF Holders, LockInv
      <4> QED BY <4>1
    <3> QED BY <3>1, <3>2
  <2>2. Cardinality(Holders) <= 1
    <3>1. CASE Holders = {}
      BY <3>1, FS_EmptySet
    <3>2. CASE Holders # {}
      <4>1. PICK x : x \in Holders
        BY <3>2
      <4>2. Holders = {x}
        BY <2>1, <4>1
      <4>3. Cardinality(Holders) = 1
        BY <4>2, FS_Singleton
      <4> QED BY <4>3
    <3> QED BY <3>1, <3>2
  <2>3. ASSUME serve = "sync", run[Main] # "returned"
        PROVE  Holders = {"serve"}
    <3>1. teardown = "running"
      BY <1>1, <2>3 DEF LockInv, CloseInv
    <3>2. "serve" \in Holders
      BY <3>1 DEF Holders
    <3> QED BY <2>1, <3>2
  <2> QED BY <2>2, <2>3 DEF Exclusive
<1>2. Inv => Exclusive
  BY <1>1 DEF Inv
<1> QED BY <1>2, Invariance, PTL

\* server.go:220-222: as long as the main stream is served, every controller in
\* splicedControllers has been given the services discovered on it.
THEOREM SplicedAreSynced == Spec => []ServedIsSynced
<1>1. Inv => ServedIsSynced
  BY DEF Inv, SyncInv, ServedIsSynced
<1> QED BY <1>1, Invariance, PTL

\* server.go:277-287: Serve's goroutine reports the end of the main stream only
\* when the pumps of the main stream and of every spliced one have ended.
THEOREM EndIsReportedLast == Spec => []ReportedLast
<1>1. ASSUME TypeOK, CloseInv PROVE ReportedLast
  BY <1>1 DEF CloseInv, ReportedLast
<1>2. Inv => ReportedLast
  BY <1>1 DEF Inv
<1> QED BY <1>2, Invariance, PTL

\* server.go:256: two slots are enough: neither Serve nor its goroutine finds
\* the error channel full, even if nobody ever reads it.
THEOREM ErrorChannelHasRoom == Spec => []NeverBlocksOnCh
<1>1. ASSUME TypeOK, ChInv PROVE NeverBlocksOnCh
  BY <1>1 DEF ChInv, NeverBlocksOnCh, ChCap
<1>2. Inv => NeverBlocksOnCh
  BY <1>1 DEF Inv
<1> QED BY <1>2, Invariance, PTL
===============================================================================
