------------------------- MODULE EvidenceGateProofs -------------------------
(***************************************************************************)
(* Proofs about EvidenceGate, for any number of operators and faults and   *)
(* every gate.  The claim makes one run the owner of everything that comes *)
(* after it; the invariant follows what that run has reached, from its     *)
(* script over its command to its finalize process.                        *)
(***************************************************************************)
EXTENDS EvidenceGate, ControlWorker, TLAPS

\* How far the script of a run is, and what its call has left behind.
Scripted ==
  \A o \in Operators :
    /\ script[o] \in {"none", "prepare", "check", "write", "fill", "work"} =>
         server[o] = "idle"
    /\ script[o] \in {"evaluate", "tidy", "ok"} => server[o] = "ended"
    /\ script[o] \in {"work", "call", "evaluate", "tidy", "ok"} => P.whole
    /\ server[o] # "idle" => P.data # "none"
    /\ script[o] \in {"tidy", "ok"} /\ gate # "reset" => P.evaluation # "none"
    /\ script[o] \in {"tidy", "ok"} /\ gate \in ReadsAll => P.data = "complete"

\* The command of a run takes it for good only if its script was.
Commanded ==
  \A o \in Operators :
    /\ op[o] = "start" => script[o] = "none"
    /\ op[o] \in {"finalize", "wait"} => good[o]
    /\ \/ good[o] /\ op[o] \notin {"start", "run"}
       \/ op[o] \in {"failStop", "failFinal", "failBackup"}
       \/ fin[o] # "none"
       => script[o] = "ok"
    /\ fin[o] # "none" => op[o] \in {"wait", "failFinal", "again", "againLedger", "done"}

\* A trap that was set after the claim belongs to the claimant.
Trapped ==
  /\ \A o \in Operators : script[o] = "trap" /\ gate \in ClaimsFirst => P.claim = o
  /\ FailureIsOwn

\* What was copied by the time a run is finalized.
Recovered ==
  \A o \in Operators :
    /\ (good[o] /\ op[o] \in {"backupLedger", "finalize", "wait"}) \/ fin[o] # "none"
         => R.data = P.data
    /\ op[o] \in {"finalize", "wait"} \/ fin[o] # "none"
         => /\ R.claim = P.claim /\ R.whole
            /\ gate # "reset" => R.evaluation = P.evaluation

\* The one finalize writes one verdict, that of the evaluation, once it has seen
\* that the data are complete.
Judged ==
  /\ P.result # "none" => P.data = "complete" /\ \E o \in Operators : fin[o] # "none"
  /\ P.result # "none" /\ gate # "reset" => (P.result = "passed" <=> P.evaluation = "positive")
  /\ P.result # "verified"
  /\ \A o \in Operators :
       /\ fin[o] \in {"first", "second", "ok"} => P.data = "complete"
       /\ fin[o] \in {"check", "first"} => P.result = "none"
       /\ fin[o] = "second" => (P.result = "none" <=> gate \in RecoveryFirst \cup {"reset"})

\* The recovery volume follows the host, and a failure comes before a verdict or
\* not at all, as long as no connection is lost.
Agreed ==
  gate \in ClaimsFirst =>
    /\ R.result \in {"passed", "failed"} => P.result = R.result
    /\ faults = 0 =>
         /\ \A o \in Operators : fin[o] \in {"check", "first", "second"} => op[o] = "wait"
         /\ P.failure # Nobody => /\ P.result = "none"
                                 /\ \A o \in Operators : fin[o] \notin {"first", "second"}

IInv ==
  /\ TypeOK /\ OnlyClaimantWorks /\ Scripted /\ Commanded /\ Trapped /\ Recovered
  /\ Judged /\ Agreed

-----------------------------------------------------------------------------
USE GateAssumption

LEMMA InitInvariant == Init => IInv
<1> SUFFICES ASSUME Init PROVE IInv
  OBVIOUS
<1>1. P \in Files /\ R \in Files
  BY Zenon DEF Init, Files, Data, Verdict, Results, Empty
<1>2. good \in [Operators -> BOOLEAN] /\ unsaid \in BOOLEAN
  BY Zenon DEF Init
<1>3. TypeOK
  BY <1>1, <1>2 DEF Init, TypeOK, OpPcs, ScriptPcs, FinPcs
<1>4. /\ OnlyClaimantWorks /\ Scripted /\ Commanded /\ Trapped /\ Recovered /\ Judged
      /\ Agreed
  BY DEF Init, Empty, OnlyClaimantWorks, Scripted, Commanded, Trapped, FailureIsOwn,
         Recovered, Judged, Agreed
<1> QED BY <1>3, <1>4 DEF IInv

LEMMA StutterStep == IInv /\ UNCHANGED vars => IInv'
  BY DEF vars, IInv, TypeOK, OnlyClaimantWorks, Scripted, Commanded, Trapped, FailureIsOwn,
         Recovered, Judged, Agreed, Same, RecoveryFirst

\* The operator's step keeps the shape of its variables.
LEMMA GotoOpType ==
  ASSUME TypeOK, NEW o \in Operators, NEW next \in OpPcs, NEW ok \in BOOLEAN, GotoOp(o, next, ok)
  PROVE op' \in [Operators -> OpPcs] /\ good' \in [Operators -> BOOLEAN]
<1>1. op' \in [Operators -> OpPcs]
  BY DEF TypeOK, GotoOp
<1>2. good' \in [Operators -> BOOLEAN]
  BY Zenon DEF TypeOK, GotoOp
<1> QED BY <1>1, <1>2

\* So do the copies to the recovery volume.
LEMMA CopyType == ASSUME TypeOK, CopyData \/ CopyLedger PROVE R' \in Files
<1>1. \A r \in Files, d \in Data, x \in Results :
        [r EXCEPT !.data = d, !.result = x] \in Files
  BY DEF Files
<1>2. \A r \in Files, c, f \in Operators \cup {Nobody}, w \in BOOLEAN, e \in Verdict,
         x \in Results :
        [r EXCEPT !.claim = c, !.whole = w, !.evaluation = e, !.failure = f, !.result = x]
          \in Files
  BY DEF Files
<1>3. /\ P.claim \in Operators \cup {Nobody} /\ P.failure \in Operators \cup {Nobody}
      /\ P.data \in Data /\ P.evaluation \in Verdict /\ P.result \in Results
      /\ P.whole \in BOOLEAN /\ R.whole \in BOOLEAN
      /\ R.claim \in Operators \cup {Nobody} /\ R.failure \in Operators \cup {Nobody}
      /\ R.data \in Data /\ R.evaluation \in Verdict /\ R.result \in Results
      /\ R \in Files
  BY DEF TypeOK, Files
<1>4. CASE CopyData
  BY <1>1, <1>3, <1>4 DEF CopyData
<1>5. CASE CopyLedger
  <2> DEFINE c == IF P.claim = Nobody THEN R.claim ELSE P.claim
             w == IF P.claim = Nobody THEN R.whole ELSE P.whole
             e == IF P.evaluation = "none" THEN R.evaluation ELSE P.evaluation
             f == IF P.failure = Nobody THEN R.failure ELSE P.failure
             x == IF gate = "reset" \/ P.result = "none" THEN R.result ELSE P.result
  <2>1. /\ c \in Operators \cup {Nobody} /\ f \in Operators \cup {Nobody}
        /\ w \in BOOLEAN /\ e \in Verdict /\ x \in Results
    BY <1>3
  <2>2. R' = [R EXCEPT !.claim = c, !.whole = w, !.evaluation = e, !.failure = f, !.result = x]
    BY <1>5 DEF CopyLedger
  <2> HIDE DEF c, w, e, f, x
  <2> QED BY <1>2, <1>3, <2>1, <2>2
<1> QED BY <1>4, <1>5

LEMMA PrepareStep ==
  ASSUME IInv, NEW o \in Operators, Prepare(o) PROVE IInv'
<1>1. TypeOK'
  BY SMTT(20) DEF Prepare, GotoScript, Err, IInv, TypeOK, OnlyClaimantWorks, Scripted, Commanded, Trapped, Recovered, Judged, Agreed, FailureIsOwn, ClaimsFirst, GraspGates, RecoveryFirst, TrapsFirst, ReadsAll, OpPcs, ScriptPcs, FinPcs, Files, Data, Verdict, Results
<1>2. OnlyClaimantWorks'
  BY SMTT(20) DEF Prepare, GotoScript, Err, IInv, TypeOK, OnlyClaimantWorks, Scripted, Commanded, Trapped, Recovered, Judged, Agreed, FailureIsOwn, ClaimsFirst, GraspGates, RecoveryFirst, TrapsFirst, ReadsAll, OpPcs, ScriptPcs, FinPcs, Files, Data, Verdict, Results
<1>3. Scripted'
  BY SMTT(20) DEF Prepare, GotoScript, Err, IInv, TypeOK, OnlyClaimantWorks, Scripted, Commanded, Trapped, Recovered, Judged, Agreed, FailureIsOwn, ClaimsFirst, GraspGates, RecoveryFirst, TrapsFirst, ReadsAll, OpPcs, ScriptPcs, FinPcs, Files, Data, Verdict, Results
<1>4. Commanded'
  BY SMTT(20) DEF Prepare, GotoScript, Err, IInv, TypeOK, OnlyClaimantWorks, Scripted, Commanded, Trapped, Recovered, Judged, Agreed, FailureIsOwn, ClaimsFirst, GraspGates, RecoveryFirst, TrapsFirst, ReadsAll, OpPcs, ScriptPcs, FinPcs, Files, Data, Verdict, Results
<1>5. Trapped'
  BY SMTT(20) DEF Prepare, GotoScript, Err, IInv, TypeOK, OnlyClaimantWorks, Scripted, Commanded, Trapped, Recovered, Judged, Agreed, FailureIsOwn, ClaimsFirst, GraspGates, RecoveryFirst, TrapsFirst, ReadsAll, OpPcs, ScriptPcs, FinPcs, Files, Data, Verdict, Results
<1>6. Recovered'
  BY SMTT(20) DEF Prepare, GotoScript, Err, IInv, TypeOK, OnlyClaimantWorks, Scripted, Commanded, Trapped, Recovered, Judged, Agreed, FailureIsOwn, ClaimsFirst, GraspGates, RecoveryFirst, TrapsFirst, ReadsAll, OpPcs, ScriptPcs, FinPcs, Files, Data, Verdict, Results
<1>7. Judged'
  BY SMTT(20) DEF Prepare, GotoScript, Err, IInv, TypeOK, OnlyClaimantWorks, Scripted, Commanded, Trapped, Recovered, Judged, Agreed, FailureIsOwn, ClaimsFirst, GraspGates, RecoveryFirst, TrapsFirst, ReadsAll, OpPcs, ScriptPcs, FinPcs, Files, Data, Verdict, Results
<1>8. Agreed'
  BY SMTT(20) DEF Prepare, GotoScript, Err, IInv, TypeOK, OnlyClaimantWorks, Scripted, Commanded, Trapped, Recovered, Judged, Agreed, FailureIsOwn, ClaimsFirst, GraspGates, RecoveryFirst, TrapsFirst, ReadsAll, OpPcs, ScriptPcs, FinPcs, Files, Data, Verdict, Results
<1> QED BY <1>1, <1>2, <1>3, <1>4, <1>5, <1>6, <1>7, <1>8 DEF IInv

LEMMA CheckClaimStep ==
  ASSUME IInv, NEW o \in Operators, CheckClaim(o) PROVE IInv'
<1>1. TypeOK'
  BY SMTT(20) DEF CheckClaim, GotoScript, Err, IInv, TypeOK, OnlyClaimantWorks, Scripted, Commanded, Trapped, Recovered, Judged, Agreed, FailureIsOwn, ClaimsFirst, GraspGates, RecoveryFirst, TrapsFirst, ReadsAll, OpPcs, ScriptPcs, FinPcs, Files, Data, Verdict, Results
<1>2. OnlyClaimantWorks'
  BY SMTT(20) DEF CheckClaim, GotoScript, Err, IInv, TypeOK, OnlyClaimantWorks, Scripted, Commanded, Trapped, Recovered, Judged, Agreed, FailureIsOwn, ClaimsFirst, GraspGates, RecoveryFirst, TrapsFirst, ReadsAll, OpPcs, ScriptPcs, FinPcs, Files, Data, Verdict, Results
<1>3. Scripted'
  BY SMTT(20) DEF CheckClaim, GotoScript, Err, IInv, TypeOK, OnlyClaimantWorks, Scripted, Commanded, Trapped, Recovered, Judged, Agreed, FailureIsOwn, ClaimsFirst, GraspGates, RecoveryFirst, TrapsFirst, ReadsAll, OpPcs, ScriptPcs, FinPcs, Files, Data, Verdict, Results
<1>4. Commanded'
  BY SMTT(20) DEF CheckClaim, GotoScript, Err, IInv, TypeOK, OnlyClaimantWorks, Scripted, Commanded, Trapped, Recovered, Judged, Agreed, FailureIsOwn, ClaimsFirst, GraspGates, RecoveryFirst, TrapsFirst, ReadsAll, OpPcs, ScriptPcs, FinPcs, Files, Data, Verdict, Results
<1>5. Trapped'
  BY SMTT(20) DEF CheckClaim, GotoScript, Err, IInv, TypeOK, OnlyClaimantWorks, Scripted, Commanded, Trapped, Recovered, Judged, Agreed, FailureIsOwn, ClaimsFirst, GraspGates, RecoveryFirst, TrapsFirst, ReadsAll, OpPcs, ScriptPcs, FinPcs, Files, Data, Verdict, Results
<1>6. Recovered'
  BY SMTT(20) DEF CheckClaim, GotoScript, Err, IInv, TypeOK, OnlyClaimantWorks, Scripted, Commanded, Trapped, Recovered, Judged, Agreed, FailureIsOwn, ClaimsFirst, GraspGates, RecoveryFirst, TrapsFirst, ReadsAll, OpPcs, ScriptPcs, FinPcs, Files, Data, Verdict, Results
<1>7. Judged'
  BY SMTT(20) DEF CheckClaim, GotoScript, Err, IInv, TypeOK, OnlyClaimantWorks, Scripted, Commanded, Trapped, Recovered, Judged, Agreed, FailureIsOwn, ClaimsFirst, GraspGates, RecoveryFirst, TrapsFirst, ReadsAll, OpPcs, ScriptPcs, FinPcs, Files, Data, Verdict, Results
<1>8. Agreed'
  BY SMTT(20) DEF CheckClaim, GotoScript, Err, IInv, TypeOK, OnlyClaimantWorks, Scripted, Commanded, Trapped, Recovered, Judged, Agreed, FailureIsOwn, ClaimsFirst, GraspGates, RecoveryFirst, TrapsFirst, ReadsAll, OpPcs, ScriptPcs, FinPcs, Files, Data, Verdict, Results
<1> QED BY <1>1, <1>2, <1>3, <1>4, <1>5, <1>6, <1>7, <1>8 DEF IInv

\* Two ways in which the files change keep their shape.
LEMMA FilesType ==
  ASSUME NEW f \in Files, NEW c \in Operators \cup {Nobody}, NEW w \in BOOLEAN
  PROVE /\ [f EXCEPT !.claim = c, !.whole = w] \in Files
        /\ [f EXCEPT !.whole = w] \in Files
        /\ [f EXCEPT !.failure = c] \in Files
  BY ZenonT(30) DEF Files

LEMMA WriteClaimStep ==
  ASSUME IInv, NEW o \in Operators, WriteClaim(o) PROVE IInv'
<1>0. CASE P.claim = Nobody
  <2>1. PICK w \in BOOLEAN : P' = [P EXCEPT !.claim = o, !.whole = w]
    BY <1>0, Zenon DEF WriteClaim
  <2>2. P' \in Files
    BY <2>1, FilesType DEF IInv, TypeOK
  <2>3. /\ script[o] = "write" /\ GotoScript(o, "fill")
        /\ UNCHANGED <<gate, op, good, server, fin, R, faults, unsaid>>
    BY <1>0 DEF WriteClaim
  <2>4. /\ P'.claim = o /\ P'.data = P.data /\ P'.evaluation = P.evaluation
        /\ P'.result = P.result /\ P'.failure = P.failure
    BY <2>1 DEF IInv, TypeOK, Files
  <2>5. TypeOK'
    BY <1>0, <2>2, <2>3, <2>4, SMTT(20) DEF GotoScript, IInv, TypeOK, OnlyClaimantWorks, Scripted, Commanded,
       Trapped, Recovered, Judged, Agreed, FailureIsOwn, ClaimsFirst, ScriptPcs
  <2>6. OnlyClaimantWorks'
    BY <1>0, <2>2, <2>3, <2>4, SMTT(20) DEF GotoScript, IInv, TypeOK, OnlyClaimantWorks, Scripted, Commanded,
       Trapped, Recovered, Judged, Agreed, FailureIsOwn, ClaimsFirst, ScriptPcs
  <2>7. Scripted'
    BY <1>0, <2>2, <2>3, <2>4, SMTT(20) DEF GotoScript, IInv, TypeOK, OnlyClaimantWorks, Scripted, Commanded,
       Trapped, Recovered, Judged, Agreed, FailureIsOwn, ClaimsFirst, ScriptPcs
  <2>8. Commanded'
    BY <1>0, <2>2, <2>3, <2>4, SMTT(20) DEF GotoScript, IInv, TypeOK, OnlyClaimantWorks, Scripted, Commanded,
       Trapped, Recovered, Judged, Agreed, FailureIsOwn, ClaimsFirst, ScriptPcs
  <2>9. Trapped'
    BY <1>0, <2>2, <2>3, <2>4, SMTT(20) DEF GotoScript, IInv, TypeOK, OnlyClaimantWorks, Scripted, Commanded,
       Trapped, Recovered, Judged, Agreed, FailureIsOwn, ClaimsFirst, ScriptPcs
  <2>10. Recovered'
    BY <1>0, <2>2, <2>3, <2>4, SMTT(20) DEF GotoScript, IInv, TypeOK, OnlyClaimantWorks, Scripted, Commanded,
       Trapped, Recovered, Judged, Agreed, FailureIsOwn, ClaimsFirst, ScriptPcs
  <2>11. Judged'
    BY <1>0, <2>2, <2>3, <2>4, SMTT(20) DEF GotoScript, IInv, TypeOK, OnlyClaimantWorks, Scripted, Commanded,
       Trapped, Recovered, Judged, Agreed, FailureIsOwn, ClaimsFirst, ScriptPcs
  <2>12. Agreed'
    BY <1>0, <2>2, <2>3, <2>4, SMTT(20) DEF GotoScript, IInv, TypeOK, OnlyClaimantWorks, Scripted, Commanded,
       Trapped, Recovered, Judged, Agreed, FailureIsOwn, ClaimsFirst, ScriptPcs
  <2> QED BY <2>5, <2>6, <2>7, <2>8, <2>9, <2>10, <2>11, <2>12 DEF IInv
<1>1. CASE P.claim # Nobody
  <2>1. TypeOK'
    BY <1>1, SMTT(20) DEF WriteClaim, GotoScript, Err, IInv, TypeOK, OnlyClaimantWorks, Scripted, Commanded, Trapped, Recovered, Judged, Agreed, FailureIsOwn, ClaimsFirst, GraspGates, RecoveryFirst, TrapsFirst, ReadsAll, OpPcs, ScriptPcs, FinPcs, Files, Data, Verdict, Results
  <2>2. OnlyClaimantWorks'
    BY <1>1, SMTT(20) DEF WriteClaim, GotoScript, Err, IInv, TypeOK, OnlyClaimantWorks, Scripted, Commanded, Trapped, Recovered, Judged, Agreed, FailureIsOwn, ClaimsFirst, GraspGates, RecoveryFirst, TrapsFirst, ReadsAll, OpPcs, ScriptPcs, FinPcs, Files, Data, Verdict, Results
  <2>3. Scripted'
    BY <1>1, SMTT(20) DEF WriteClaim, GotoScript, Err, IInv, TypeOK, OnlyClaimantWorks, Scripted, Commanded, Trapped, Recovered, Judged, Agreed, FailureIsOwn, ClaimsFirst, GraspGates, RecoveryFirst, TrapsFirst, ReadsAll, OpPcs, ScriptPcs, FinPcs, Files, Data, Verdict, Results
  <2>4. Commanded'
    BY <1>1, SMTT(20) DEF WriteClaim, GotoScript, Err, IInv, TypeOK, OnlyClaimantWorks, Scripted, Commanded, Trapped, Recovered, Judged, Agreed, FailureIsOwn, ClaimsFirst, GraspGates, RecoveryFirst, TrapsFirst, ReadsAll, OpPcs, ScriptPcs, FinPcs, Files, Data, Verdict, Results
  <2>5. Trapped'
    BY <1>1, SMTT(20) DEF WriteClaim, GotoScript, Err, IInv, TypeOK, OnlyClaimantWorks, Scripted, Commanded, Trapped, Recovered, Judged, Agreed, FailureIsOwn, ClaimsFirst, GraspGates, RecoveryFirst, TrapsFirst, ReadsAll, OpPcs, ScriptPcs, FinPcs, Files, Data, Verdict, Results
  <2>6. Recovered'
    BY <1>1, SMTT(20) DEF WriteClaim, GotoScript, Err, IInv, TypeOK, OnlyClaimantWorks, Scripted, Commanded, Trapped, Recovered, Judged, Agreed, FailureIsOwn, ClaimsFirst, GraspGates, RecoveryFirst, TrapsFirst, ReadsAll, OpPcs, ScriptPcs, FinPcs, Files, Data, Verdict, Results
  <2>7. Judged'
    BY <1>1, SMTT(20) DEF WriteClaim, GotoScript, Err, IInv, TypeOK, OnlyClaimantWorks, Scripted, Commanded, Trapped, Recovered, Judged, Agreed, FailureIsOwn, ClaimsFirst, GraspGates, RecoveryFirst, TrapsFirst, ReadsAll, OpPcs, ScriptPcs, FinPcs, Files, Data, Verdict, Results
  <2>8. Agreed'
    BY <1>1, SMTT(20) DEF WriteClaim, GotoScript, Err, IInv, TypeOK, OnlyClaimantWorks, Scripted, Commanded, Trapped, Recovered, Judged, Agreed, FailureIsOwn, ClaimsFirst, GraspGates, RecoveryFirst, TrapsFirst, ReadsAll, OpPcs, ScriptPcs, FinPcs, Files, Data, Verdict, Results
  <2> QED BY <2>1, <2>2, <2>3, <2>4, <2>5, <2>6, <2>7, <2>8 DEF IInv
<1> QED BY <1>0, <1>1

LEMMA FillClaimStep ==
  ASSUME IInv, NEW o \in Operators, FillClaim(o) PROVE IInv'
<1>1. TypeOK'
  <2>1. P' \in Files
    BY FilesType DEF FillClaim, IInv, TypeOK
  <2>2. unsaid' \in BOOLEAN
    BY Zenon DEF FillClaim, IInv, TypeOK
  <2> QED BY <2>1, <2>2 DEF FillClaim, GotoScript, Err, IInv, TypeOK, ScriptPcs
<1>2. OnlyClaimantWorks'
  BY SMTT(20) DEF FillClaim, GotoScript, Err, IInv, TypeOK, OnlyClaimantWorks, Scripted, Commanded, Trapped, Recovered, Judged, Agreed, FailureIsOwn, ClaimsFirst, GraspGates, RecoveryFirst, TrapsFirst, ReadsAll, OpPcs, ScriptPcs, FinPcs, Files, Data, Verdict, Results
<1>3. Scripted'
  BY SMTT(20) DEF FillClaim, GotoScript, Err, IInv, TypeOK, OnlyClaimantWorks, Scripted, Commanded, Trapped, Recovered, Judged, Agreed, FailureIsOwn, ClaimsFirst, GraspGates, RecoveryFirst, TrapsFirst, ReadsAll, OpPcs, ScriptPcs, FinPcs, Files, Data, Verdict, Results
<1>4. Commanded'
  BY SMTT(20) DEF FillClaim, GotoScript, Err, IInv, TypeOK, OnlyClaimantWorks, Scripted, Commanded, Trapped, Recovered, Judged, Agreed, FailureIsOwn, ClaimsFirst, GraspGates, RecoveryFirst, TrapsFirst, ReadsAll, OpPcs, ScriptPcs, FinPcs, Files, Data, Verdict, Results
<1>5. Trapped'
  BY SMTT(20) DEF FillClaim, GotoScript, Err, IInv, TypeOK, OnlyClaimantWorks, Scripted, Commanded, Trapped, Recovered, Judged, Agreed, FailureIsOwn, ClaimsFirst, GraspGates, RecoveryFirst, TrapsFirst, ReadsAll, OpPcs, ScriptPcs, FinPcs, Files, Data, Verdict, Results
<1>6. Recovered'
  BY SMTT(20) DEF FillClaim, GotoScript, Err, IInv, TypeOK, OnlyClaimantWorks, Scripted, Commanded, Trapped, Recovered, Judged, Agreed, FailureIsOwn, ClaimsFirst, GraspGates, RecoveryFirst, TrapsFirst, ReadsAll, OpPcs, ScriptPcs, FinPcs, Files, Data, Verdict, Results
<1>7. Judged'
  BY SMTT(20) DEF FillClaim, GotoScript, Err, IInv, TypeOK, OnlyClaimantWorks, Scripted, Commanded, Trapped, Recovered, Judged, Agreed, FailureIsOwn, ClaimsFirst, GraspGates, RecoveryFirst, TrapsFirst, ReadsAll, OpPcs, ScriptPcs, FinPcs, Files, Data, Verdict, Results
<1>8. Agreed'
  BY SMTT(20) DEF FillClaim, GotoScript, Err, IInv, TypeOK, OnlyClaimantWorks, Scripted, Commanded, Trapped, Recovered, Judged, Agreed, FailureIsOwn, ClaimsFirst, GraspGates, RecoveryFirst, TrapsFirst, ReadsAll, OpPcs, ScriptPcs, FinPcs, Files, Data, Verdict, Results
<1> QED BY <1>1, <1>2, <1>3, <1>4, <1>5, <1>6, <1>7, <1>8 DEF IInv

LEMMA CallServerStep ==
  ASSUME IInv, NEW o \in Operators, CallServer(o) PROVE IInv'
<1>1. TypeOK'
  BY SMTT(20) DEF CallServer, GotoScript, IInv, TypeOK, OnlyClaimantWorks, Scripted, Commanded, Trapped, Recovered, Judged, Agreed, FailureIsOwn, ClaimsFirst, GraspGates, RecoveryFirst, TrapsFirst, ReadsAll, OpPcs, ScriptPcs, FinPcs, Files, Data, Verdict, Results
<1>2. OnlyClaimantWorks'
  BY SMTT(20) DEF CallServer, GotoScript, IInv, TypeOK, OnlyClaimantWorks, Scripted, Commanded, Trapped, Recovered, Judged, Agreed, FailureIsOwn, ClaimsFirst, GraspGates, RecoveryFirst, TrapsFirst, ReadsAll, OpPcs, ScriptPcs, FinPcs, Files, Data, Verdict, Results
<1>3. Scripted'
  BY SMTT(20) DEF CallServer, GotoScript, IInv, TypeOK, OnlyClaimantWorks, Scripted, Commanded, Trapped, Recovered, Judged, Agreed, FailureIsOwn, ClaimsFirst, GraspGates, RecoveryFirst, TrapsFirst, ReadsAll, OpPcs, ScriptPcs, FinPcs, Files, Data, Verdict, Results
<1>4. Commanded'
  BY SMTT(20) DEF CallServer, GotoScript, IInv, TypeOK, OnlyClaimantWorks, Scripted, Commanded, Trapped, Recovered, Judged, Agreed, FailureIsOwn, ClaimsFirst, GraspGates, RecoveryFirst, TrapsFirst, ReadsAll, OpPcs, ScriptPcs, FinPcs, Files, Data, Verdict, Results
<1>5. Trapped'
  BY SMTT(20) DEF CallServer, GotoScript, IInv, TypeOK, OnlyClaimantWorks, Scripted, Commanded, Trapped, Recovered, Judged, Agreed, FailureIsOwn, ClaimsFirst, GraspGates, RecoveryFirst, TrapsFirst, ReadsAll, OpPcs, ScriptPcs, FinPcs, Files, Data, Verdict, Results
<1>6. Recovered'
  BY SMTT(20) DEF CallServer, GotoScript, IInv, TypeOK, OnlyClaimantWorks, Scripted, Commanded, Trapped, Recovered, Judged, Agreed, FailureIsOwn, ClaimsFirst, GraspGates, RecoveryFirst, TrapsFirst, ReadsAll, OpPcs, ScriptPcs, FinPcs, Files, Data, Verdict, Results
<1>7. Judged'
  BY SMTT(20) DEF CallServer, GotoScript, IInv, TypeOK, OnlyClaimantWorks, Scripted, Commanded, Trapped, Recovered, Judged, Agreed, FailureIsOwn, ClaimsFirst, GraspGates, RecoveryFirst, TrapsFirst, ReadsAll, OpPcs, ScriptPcs, FinPcs, Files, Data, Verdict, Results
<1>8. Agreed'
  BY SMTT(20) DEF CallServer, GotoScript, IInv, TypeOK, OnlyClaimantWorks, Scripted, Commanded, Trapped, Recovered, Judged, Agreed, FailureIsOwn, ClaimsFirst, GraspGates, RecoveryFirst, TrapsFirst, ReadsAll, OpPcs, ScriptPcs, FinPcs, Files, Data, Verdict, Results
<1> QED BY <1>1, <1>2, <1>3, <1>4, <1>5, <1>6, <1>7, <1>8 DEF IInv

LEMMA WorkFailsStep ==
  ASSUME IInv, NEW o \in Operators, WorkFails(o) PROVE IInv'
<1>1. TypeOK'
  BY SMTT(20) DEF WorkFails, GotoScript, Err, IInv, TypeOK, OnlyClaimantWorks, Scripted, Commanded, Trapped, Recovered, Judged, Agreed, FailureIsOwn, ClaimsFirst, GraspGates, RecoveryFirst, TrapsFirst, ReadsAll, OpPcs, ScriptPcs, FinPcs, Files, Data, Verdict, Results
<1>2. OnlyClaimantWorks'
  BY SMTT(20) DEF WorkFails, GotoScript, Err, IInv, TypeOK, OnlyClaimantWorks, Scripted, Commanded, Trapped, Recovered, Judged, Agreed, FailureIsOwn, ClaimsFirst, GraspGates, RecoveryFirst, TrapsFirst, ReadsAll, OpPcs, ScriptPcs, FinPcs, Files, Data, Verdict, Results
<1>3. Scripted'
  BY SMTT(20) DEF WorkFails, GotoScript, Err, IInv, TypeOK, OnlyClaimantWorks, Scripted, Commanded, Trapped, Recovered, Judged, Agreed, FailureIsOwn, ClaimsFirst, GraspGates, RecoveryFirst, TrapsFirst, ReadsAll, OpPcs, ScriptPcs, FinPcs, Files, Data, Verdict, Results
<1>4. Commanded'
  BY SMTT(20) DEF WorkFails, GotoScript, Err, IInv, TypeOK, OnlyClaimantWorks, Scripted, Commanded, Trapped, Recovered, Judged, Agreed, FailureIsOwn, ClaimsFirst, GraspGates, RecoveryFirst, TrapsFirst, ReadsAll, OpPcs, ScriptPcs, FinPcs, Files, Data, Verdict, Results
<1>5. Trapped'
  BY SMTT(20) DEF WorkFails, GotoScript, Err, IInv, TypeOK, OnlyClaimantWorks, Scripted, Commanded, Trapped, Recovered, Judged, Agreed, FailureIsOwn, ClaimsFirst, GraspGates, RecoveryFirst, TrapsFirst, ReadsAll, OpPcs, ScriptPcs, FinPcs, Files, Data, Verdict, Results
<1>6. Recovered'
  BY SMTT(20) DEF WorkFails, GotoScript, Err, IInv, TypeOK, OnlyClaimantWorks, Scripted, Commanded, Trapped, Recovered, Judged, Agreed, FailureIsOwn, ClaimsFirst, GraspGates, RecoveryFirst, TrapsFirst, ReadsAll, OpPcs, ScriptPcs, FinPcs, Files, Data, Verdict, Results
<1>7. Judged'
  BY SMTT(20) DEF WorkFails, GotoScript, Err, IInv, TypeOK, OnlyClaimantWorks, Scripted, Commanded, Trapped, Recovered, Judged, Agreed, FailureIsOwn, ClaimsFirst, GraspGates, RecoveryFirst, TrapsFirst, ReadsAll, OpPcs, ScriptPcs, FinPcs, Files, Data, Verdict, Results
<1>8. Agreed'
  BY SMTT(20) DEF WorkFails, GotoScript, Err, IInv, TypeOK, OnlyClaimantWorks, Scripted, Commanded, Trapped, Recovered, Judged, Agreed, FailureIsOwn, ClaimsFirst, GraspGates, RecoveryFirst, TrapsFirst, ReadsAll, OpPcs, ScriptPcs, FinPcs, Files, Data, Verdict, Results
<1> QED BY <1>1, <1>2, <1>3, <1>4, <1>5, <1>6, <1>7, <1>8 DEF IInv

LEMMA ServerEndsStep ==
  ASSUME IInv, NEW o \in Operators, ServerEnds(o) PROVE IInv'
<1>1. TypeOK'
  BY SMTT(20) DEF ServerEnds, IInv, TypeOK, OnlyClaimantWorks, Scripted, Commanded, Trapped, Recovered, Judged, Agreed, FailureIsOwn, ClaimsFirst, GraspGates, RecoveryFirst, TrapsFirst, ReadsAll, OpPcs, ScriptPcs, FinPcs, Files, Data, Verdict, Results
<1>2. OnlyClaimantWorks'
  BY SMTT(20) DEF ServerEnds, IInv, TypeOK, OnlyClaimantWorks, Scripted, Commanded, Trapped, Recovered, Judged, Agreed, FailureIsOwn, ClaimsFirst, GraspGates, RecoveryFirst, TrapsFirst, ReadsAll, OpPcs, ScriptPcs, FinPcs, Files, Data, Verdict, Results
<1>3. Scripted'
  BY SMTT(20) DEF ServerEnds, IInv, TypeOK, OnlyClaimantWorks, Scripted, Commanded, Trapped, Recovered, Judged, Agreed, FailureIsOwn, ClaimsFirst, GraspGates, RecoveryFirst, TrapsFirst, ReadsAll, OpPcs, ScriptPcs, FinPcs, Files, Data, Verdict, Results
<1>4. Commanded'
  BY SMTT(20) DEF ServerEnds, IInv, TypeOK, OnlyClaimantWorks, Scripted, Commanded, Trapped, Recovered, Judged, Agreed, FailureIsOwn, ClaimsFirst, GraspGates, RecoveryFirst, TrapsFirst, ReadsAll, OpPcs, ScriptPcs, FinPcs, Files, Data, Verdict, Results
<1>5. Trapped'
  BY SMTT(20) DEF ServerEnds, IInv, TypeOK, OnlyClaimantWorks, Scripted, Commanded, Trapped, Recovered, Judged, Agreed, FailureIsOwn, ClaimsFirst, GraspGates, RecoveryFirst, TrapsFirst, ReadsAll, OpPcs, ScriptPcs, FinPcs, Files, Data, Verdict, Results
<1>6. Recovered'
  BY SMTT(20) DEF ServerEnds, IInv, TypeOK, OnlyClaimantWorks, Scripted, Commanded, Trapped, Recovered, Judged, Agreed, FailureIsOwn, ClaimsFirst, GraspGates, RecoveryFirst, TrapsFirst, ReadsAll, OpPcs, ScriptPcs, FinPcs, Files, Data, Verdict, Results
<1>7. Judged'
  BY SMTT(20) DEF ServerEnds, IInv, TypeOK, OnlyClaimantWorks, Scripted, Commanded, Trapped, Recovered, Judged, Agreed, FailureIsOwn, ClaimsFirst, GraspGates, RecoveryFirst, TrapsFirst, ReadsAll, OpPcs, ScriptPcs, FinPcs, Files, Data, Verdict, Results
<1>8. Agreed'
  BY SMTT(20) DEF ServerEnds, IInv, TypeOK, OnlyClaimantWorks, Scripted, Commanded, Trapped, Recovered, Judged, Agreed, FailureIsOwn, ClaimsFirst, GraspGates, RecoveryFirst, TrapsFirst, ReadsAll, OpPcs, ScriptPcs, FinPcs, Files, Data, Verdict, Results
<1> QED BY <1>1, <1>2, <1>3, <1>4, <1>5, <1>6, <1>7, <1>8 DEF IInv

LEMMA CallReturnsStep ==
  ASSUME IInv, NEW o \in Operators, CallReturns(o) PROVE IInv'
<1>1. TypeOK'
  BY SMTT(20) DEF CallReturns, Passes, GotoScript, Err, IInv, TypeOK, OnlyClaimantWorks, Scripted, Commanded, Trapped, Recovered, Judged, Agreed, FailureIsOwn, ClaimsFirst, GraspGates, RecoveryFirst, TrapsFirst, ReadsAll, OpPcs, ScriptPcs, FinPcs, Files, Data, Verdict, Results
<1>2. OnlyClaimantWorks'
  BY SMTT(20) DEF CallReturns, Passes, GotoScript, Err, IInv, TypeOK, OnlyClaimantWorks, Scripted, Commanded, Trapped, Recovered, Judged, Agreed, FailureIsOwn, ClaimsFirst, GraspGates, RecoveryFirst, TrapsFirst, ReadsAll, OpPcs, ScriptPcs, FinPcs, Files, Data, Verdict, Results
<1>3. Scripted'
  BY SMTT(20) DEF CallReturns, Passes, GotoScript, Err, IInv, TypeOK, OnlyClaimantWorks, Scripted, Commanded, Trapped, Recovered, Judged, Agreed, FailureIsOwn, ClaimsFirst, GraspGates, RecoveryFirst, TrapsFirst, ReadsAll, OpPcs, ScriptPcs, FinPcs, Files, Data, Verdict, Results
<1>4. Commanded'
  BY SMTT(20) DEF CallReturns, Passes, GotoScript, Err, IInv, TypeOK, OnlyClaimantWorks, Scripted, Commanded, Trapped, Recovered, Judged, Agreed, FailureIsOwn, ClaimsFirst, GraspGates, RecoveryFirst, TrapsFirst, ReadsAll, OpPcs, ScriptPcs, FinPcs, Files, Data, Verdict, Results
<1>5. Trapped'
  BY SMTT(20) DEF CallReturns, Passes, GotoScript, Err, IInv, TypeOK, OnlyClaimantWorks, Scripted, Commanded, Trapped, Recovered, Judged, Agreed, FailureIsOwn, ClaimsFirst, GraspGates, RecoveryFirst, TrapsFirst, ReadsAll, OpPcs, ScriptPcs, FinPcs, Files, Data, Verdict, Results
<1>6. Recovered'
  BY SMTT(20) DEF CallReturns, Passes, GotoScript, Err, IInv, TypeOK, OnlyClaimantWorks, Scripted, Commanded, Trapped, Recovered, Judged, Agreed, FailureIsOwn, ClaimsFirst, GraspGates, RecoveryFirst, TrapsFirst, ReadsAll, OpPcs, ScriptPcs, FinPcs, Files, Data, Verdict, Results
<1>7. Judged'
  BY SMTT(20) DEF CallReturns, Passes, GotoScript, Err, IInv, TypeOK, OnlyClaimantWorks, Scripted, Commanded, Trapped, Recovered, Judged, Agreed, FailureIsOwn, ClaimsFirst, GraspGates, RecoveryFirst, TrapsFirst, ReadsAll, OpPcs, ScriptPcs, FinPcs, Files, Data, Verdict, Results
<1>8. Agreed'
  BY SMTT(20) DEF CallReturns, Passes, GotoScript, Err, IInv, TypeOK, OnlyClaimantWorks, Scripted, Commanded, Trapped, Recovered, Judged, Agreed, FailureIsOwn, ClaimsFirst, GraspGates, RecoveryFirst, TrapsFirst, ReadsAll, OpPcs, ScriptPcs, FinPcs, Files, Data, Verdict, Results
<1> QED BY <1>1, <1>2, <1>3, <1>4, <1>5, <1>6, <1>7, <1>8 DEF IInv

LEMMA EvaluateStep ==
  ASSUME IInv, NEW o \in Operators, Evaluate(o) PROVE IInv'
<1>1. TypeOK'
  BY SMTT(20) DEF Evaluate, Refuse, EvaluateToVerdict, EvaluateGrasp, EvaluateReplay, GotoScript, Err, IInv, TypeOK, OnlyClaimantWorks, Scripted, Commanded, Trapped, Recovered, Judged, Agreed, FailureIsOwn, ClaimsFirst, GraspGates, RecoveryFirst, TrapsFirst, ReadsAll, OpPcs, ScriptPcs, FinPcs, Files, Data, Verdict, Results
<1>2. OnlyClaimantWorks'
  BY SMTT(20) DEF Evaluate, Refuse, EvaluateToVerdict, EvaluateGrasp, EvaluateReplay, GotoScript, Err, IInv, TypeOK, OnlyClaimantWorks, Scripted, Commanded, Trapped, Recovered, Judged, Agreed, FailureIsOwn, ClaimsFirst, GraspGates, RecoveryFirst, TrapsFirst, ReadsAll, OpPcs, ScriptPcs, FinPcs, Files, Data, Verdict, Results
<1>3. Scripted'
  BY SMTT(20) DEF Evaluate, Refuse, EvaluateToVerdict, EvaluateGrasp, EvaluateReplay, GotoScript, Err, IInv, TypeOK, OnlyClaimantWorks, Scripted, Commanded, Trapped, Recovered, Judged, Agreed, FailureIsOwn, ClaimsFirst, GraspGates, RecoveryFirst, TrapsFirst, ReadsAll, OpPcs, ScriptPcs, FinPcs, Files, Data, Verdict, Results
<1>4. Commanded'
  BY SMTT(20) DEF Evaluate, Refuse, EvaluateToVerdict, EvaluateGrasp, EvaluateReplay, GotoScript, Err, IInv, TypeOK, OnlyClaimantWorks, Scripted, Commanded, Trapped, Recovered, Judged, Agreed, FailureIsOwn, ClaimsFirst, GraspGates, RecoveryFirst, TrapsFirst, ReadsAll, OpPcs, ScriptPcs, FinPcs, Files, Data, Verdict, Results
<1>5. Trapped'
  BY SMTT(20) DEF Evaluate, Refuse, EvaluateToVerdict, EvaluateGrasp, EvaluateReplay, GotoScript, Err, IInv, TypeOK, OnlyClaimantWorks, Scripted, Commanded, Trapped, Recovered, Judged, Agreed, FailureIsOwn, ClaimsFirst, GraspGates, RecoveryFirst, TrapsFirst, ReadsAll, OpPcs, ScriptPcs, FinPcs, Files, Data, Verdict, Results
<1>6. Recovered'
  BY SMTT(20) DEF Evaluate, Refuse, EvaluateToVerdict, EvaluateGrasp, EvaluateReplay, GotoScript, Err, IInv, TypeOK, OnlyClaimantWorks, Scripted, Commanded, Trapped, Recovered, Judged, Agreed, FailureIsOwn, ClaimsFirst, GraspGates, RecoveryFirst, TrapsFirst, ReadsAll, OpPcs, ScriptPcs, FinPcs, Files, Data, Verdict, Results
<1>7. Judged'
  BY SMTT(20) DEF Evaluate, Refuse, EvaluateToVerdict, EvaluateGrasp, EvaluateReplay, GotoScript, Err, IInv, TypeOK, OnlyClaimantWorks, Scripted, Commanded, Trapped, Recovered, Judged, Agreed, FailureIsOwn, ClaimsFirst, GraspGates, RecoveryFirst, TrapsFirst, ReadsAll, OpPcs, ScriptPcs, FinPcs, Files, Data, Verdict, Results
<1>8. Agreed'
  BY SMTT(20) DEF Evaluate, Refuse, EvaluateToVerdict, EvaluateGrasp, EvaluateReplay, GotoScript, Err, IInv, TypeOK, OnlyClaimantWorks, Scripted, Commanded, Trapped, Recovered, Judged, Agreed, FailureIsOwn, ClaimsFirst, GraspGates, RecoveryFirst, TrapsFirst, ReadsAll, OpPcs, ScriptPcs, FinPcs, Files, Data, Verdict, Results
<1> QED BY <1>1, <1>2, <1>3, <1>4, <1>5, <1>6, <1>7, <1>8 DEF IInv

LEMMA TidyStep ==
  ASSUME IInv, NEW o \in Operators, Tidy(o) PROVE IInv'
<1>1. TypeOK'
  BY SMTT(20) DEF Tidy, GotoScript, Err, IInv, TypeOK, OnlyClaimantWorks, Scripted, Commanded, Trapped, Recovered, Judged, Agreed, FailureIsOwn, ClaimsFirst, GraspGates, RecoveryFirst, TrapsFirst, ReadsAll, OpPcs, ScriptPcs, FinPcs, Files, Data, Verdict, Results
<1>2. OnlyClaimantWorks'
  BY SMTT(20) DEF Tidy, GotoScript, Err, IInv, TypeOK, OnlyClaimantWorks, Scripted, Commanded, Trapped, Recovered, Judged, Agreed, FailureIsOwn, ClaimsFirst, GraspGates, RecoveryFirst, TrapsFirst, ReadsAll, OpPcs, ScriptPcs, FinPcs, Files, Data, Verdict, Results
<1>3. Scripted'
  BY SMTT(20) DEF Tidy, GotoScript, Err, IInv, TypeOK, OnlyClaimantWorks, Scripted, Commanded, Trapped, Recovered, Judged, Agreed, FailureIsOwn, ClaimsFirst, GraspGates, RecoveryFirst, TrapsFirst, ReadsAll, OpPcs, ScriptPcs, FinPcs, Files, Data, Verdict, Results
<1>4. Commanded'
  BY SMTT(20) DEF Tidy, GotoScript, Err, IInv, TypeOK, OnlyClaimantWorks, Scripted, Commanded, Trapped, Recovered, Judged, Agreed, FailureIsOwn, ClaimsFirst, GraspGates, RecoveryFirst, TrapsFirst, ReadsAll, OpPcs, ScriptPcs, FinPcs, Files, Data, Verdict, Results
<1>5. Trapped'
  BY SMTT(20) DEF Tidy, GotoScript, Err, IInv, TypeOK, OnlyClaimantWorks, Scripted, Commanded, Trapped, Recovered, Judged, Agreed, FailureIsOwn, ClaimsFirst, GraspGates, RecoveryFirst, TrapsFirst, ReadsAll, OpPcs, ScriptPcs, FinPcs, Files, Data, Verdict, Results
<1>6. Recovered'
  BY SMTT(20) DEF Tidy, GotoScript, Err, IInv, TypeOK, OnlyClaimantWorks, Scripted, Commanded, Trapped, Recovered, Judged, Agreed, FailureIsOwn, ClaimsFirst, GraspGates, RecoveryFirst, TrapsFirst, ReadsAll, OpPcs, ScriptPcs, FinPcs, Files, Data, Verdict, Results
<1>7. Judged'
  BY SMTT(20) DEF Tidy, GotoScript, Err, IInv, TypeOK, OnlyClaimantWorks, Scripted, Commanded, Trapped, Recovered, Judged, Agreed, FailureIsOwn, ClaimsFirst, GraspGates, RecoveryFirst, TrapsFirst, ReadsAll, OpPcs, ScriptPcs, FinPcs, Files, Data, Verdict, Results
<1>8. Agreed'
  BY SMTT(20) DEF Tidy, GotoScript, Err, IInv, TypeOK, OnlyClaimantWorks, Scripted, Commanded, Trapped, Recovered, Judged, Agreed, FailureIsOwn, ClaimsFirst, GraspGates, RecoveryFirst, TrapsFirst, ReadsAll, OpPcs, ScriptPcs, FinPcs, Files, Data, Verdict, Results
<1> QED BY <1>1, <1>2, <1>3, <1>4, <1>5, <1>6, <1>7, <1>8 DEF IInv

LEMMA TrapStep ==
  ASSUME IInv, NEW o \in Operators, Trap(o) PROVE IInv'
<1>1. TypeOK'
  <2>1. P' \in Files
    <3>1. P \in Files /\ [P EXCEPT !.failure = o] \in Files
      BY FilesType DEF IInv, TypeOK
    <3>2. P' = P \/ P' = [P EXCEPT !.failure = o]
      BY DEF Trap, RecordFailure
    <3> QED BY <3>1, <3>2
  <2>2. unsaid' \in BOOLEAN
    BY Zenon DEF Trap, RecordFailure, IInv, TypeOK
  <2> QED BY <2>1, <2>2 DEF Trap, GotoScript, IInv, TypeOK, ScriptPcs
<1>2. OnlyClaimantWorks'
  BY SMTT(20) DEF Trap, RecordFailure, MayFail, GotoScript, IInv, TypeOK, OnlyClaimantWorks, Scripted, Commanded, Trapped, Recovered, Judged, Agreed, FailureIsOwn, ClaimsFirst, GraspGates, RecoveryFirst, TrapsFirst, ReadsAll, OpPcs, ScriptPcs, FinPcs, Files, Data, Verdict, Results
<1>3. Scripted'
  BY SMTT(20) DEF Trap, RecordFailure, MayFail, GotoScript, IInv, TypeOK, OnlyClaimantWorks, Scripted, Commanded, Trapped, Recovered, Judged, Agreed, FailureIsOwn, ClaimsFirst, GraspGates, RecoveryFirst, TrapsFirst, ReadsAll, OpPcs, ScriptPcs, FinPcs, Files, Data, Verdict, Results
<1>4. Commanded'
  BY SMTT(20) DEF Trap, RecordFailure, MayFail, GotoScript, IInv, TypeOK, OnlyClaimantWorks, Scripted, Commanded, Trapped, Recovered, Judged, Agreed, FailureIsOwn, ClaimsFirst, GraspGates, RecoveryFirst, TrapsFirst, ReadsAll, OpPcs, ScriptPcs, FinPcs, Files, Data, Verdict, Results
<1>5. Trapped'
  BY SMTT(20) DEF Trap, RecordFailure, MayFail, GotoScript, IInv, TypeOK, OnlyClaimantWorks, Scripted, Commanded, Trapped, Recovered, Judged, Agreed, FailureIsOwn, ClaimsFirst, GraspGates, RecoveryFirst, TrapsFirst, ReadsAll, OpPcs, ScriptPcs, FinPcs, Files, Data, Verdict, Results
<1>6. Recovered'
  BY SMTT(20) DEF Trap, RecordFailure, MayFail, GotoScript, IInv, TypeOK, OnlyClaimantWorks, Scripted, Commanded, Trapped, Recovered, Judged, Agreed, FailureIsOwn, ClaimsFirst, GraspGates, RecoveryFirst, TrapsFirst, ReadsAll, OpPcs, ScriptPcs, FinPcs, Files, Data, Verdict, Results
<1>7. Judged'
  BY SMTT(20) DEF Trap, RecordFailure, MayFail, GotoScript, IInv, TypeOK, OnlyClaimantWorks, Scripted, Commanded, Trapped, Recovered, Judged, Agreed, FailureIsOwn, ClaimsFirst, GraspGates, RecoveryFirst, TrapsFirst, ReadsAll, OpPcs, ScriptPcs, FinPcs, Files, Data, Verdict, Results
<1>8. Agreed'
  BY SMTT(20) DEF Trap, RecordFailure, MayFail, GotoScript, IInv, TypeOK, OnlyClaimantWorks, Scripted, Commanded, Trapped, Recovered, Judged, Agreed, FailureIsOwn, ClaimsFirst, GraspGates, RecoveryFirst, TrapsFirst, ReadsAll, OpPcs, ScriptPcs, FinPcs, Files, Data, Verdict, Results
<1> QED BY <1>1, <1>2, <1>3, <1>4, <1>5, <1>6, <1>7, <1>8 DEF IInv

\* What finalize compares has data in it, or the evaluation had read all of them.
LEMMA ComparesData ==
  ASSUME TypeOK, IsRecovered, gate \notin ReadsAll PROVE P.data = "complete"
<1> DEFINE someData == {"recording", "session", "report"}
<1>1. gate \in AllGates
  BY DEF TypeOK
<1>2. \E e \in someData : e \in Compares
  BY <1>1 DEF Compares, AllGates, GraspGates, ReadsAll, ResetCompares, ActionCompares,
     GraspCompares, HandoffCompares, ContinuationCompares, HoldCompares, ResolutionCompares,
     RotationCompares, HorizonCompares
<1>3. PICK e \in someData : e \in Compares
  BY <1>2
<1>4. Same(e)
  BY <1>3 DEF IsRecovered
<1> QED BY <1>3, <1>4 DEF Same

LEMMA FinalizeCheckStep ==
  ASSUME IInv, NEW o \in Operators, FinalizeCheck(o) PROVE IInv'
<1>1. TypeOK'
  BY SMTT(20) DEF FinalizeCheck, IsRecovered, NotTerminal, IInv, TypeOK, OnlyClaimantWorks, Scripted, Commanded, Trapped, Recovered, Judged, Agreed, FailureIsOwn, ClaimsFirst, GraspGates, RecoveryFirst, TrapsFirst, ReadsAll, OpPcs, ScriptPcs, FinPcs, Files, Data, Verdict, Results
<1>2. OnlyClaimantWorks'
  BY SMTT(20) DEF FinalizeCheck, IsRecovered, NotTerminal, IInv, TypeOK, OnlyClaimantWorks, Scripted, Commanded, Trapped, Recovered, Judged, Agreed, FailureIsOwn, ClaimsFirst, GraspGates, RecoveryFirst, TrapsFirst, ReadsAll, OpPcs, ScriptPcs, FinPcs, Files, Data, Verdict, Results
<1>3. Scripted'
  BY SMTT(20) DEF FinalizeCheck, IsRecovered, NotTerminal, IInv, TypeOK, OnlyClaimantWorks, Scripted, Commanded, Trapped, Recovered, Judged, Agreed, FailureIsOwn, ClaimsFirst, GraspGates, RecoveryFirst, TrapsFirst, ReadsAll, OpPcs, ScriptPcs, FinPcs, Files, Data, Verdict, Results
<1>4. Commanded'
  BY SMTT(20) DEF FinalizeCheck, IsRecovered, NotTerminal, IInv, TypeOK, OnlyClaimantWorks, Scripted, Commanded, Trapped, Recovered, Judged, Agreed, FailureIsOwn, ClaimsFirst, GraspGates, RecoveryFirst, TrapsFirst, ReadsAll, OpPcs, ScriptPcs, FinPcs, Files, Data, Verdict, Results
<1>5. Trapped'
  BY SMTT(20) DEF FinalizeCheck, IsRecovered, NotTerminal, IInv, TypeOK, OnlyClaimantWorks, Scripted, Commanded, Trapped, Recovered, Judged, Agreed, FailureIsOwn, ClaimsFirst, GraspGates, RecoveryFirst, TrapsFirst, ReadsAll, OpPcs, ScriptPcs, FinPcs, Files, Data, Verdict, Results
<1>6. Recovered'
  BY SMTT(20) DEF FinalizeCheck, IsRecovered, NotTerminal, IInv, TypeOK, OnlyClaimantWorks, Scripted, Commanded, Trapped, Recovered, Judged, Agreed, FailureIsOwn, ClaimsFirst, GraspGates, RecoveryFirst, TrapsFirst, ReadsAll, OpPcs, ScriptPcs, FinPcs, Files, Data, Verdict, Results
<1>7. Judged'
  <2>1. CASE IsRecovered
    <3>1. P.data = "complete"
      BY <2>1, ComparesData DEF IInv, Scripted, Commanded, FinalizeCheck
    <3> QED BY <2>1, <3>1, SMTT(20) DEF FinalizeCheck, IsRecovered, NotTerminal, IInv, TypeOK, Judged
  <2>2. CASE ~IsRecovered
    BY <2>2, SMTT(20) DEF FinalizeCheck, IInv, TypeOK, Judged, FinPcs
  <2> QED BY <2>1, <2>2
<1>8. Agreed'
  BY SMTT(20) DEF FinalizeCheck, IsRecovered, NotTerminal, IInv, TypeOK, OnlyClaimantWorks, Scripted, Commanded, Trapped, Recovered, Judged, Agreed, FailureIsOwn, ClaimsFirst, GraspGates, RecoveryFirst, TrapsFirst, ReadsAll, OpPcs, ScriptPcs, FinPcs, Files, Data, Verdict, Results
<1> QED BY <1>1, <1>2, <1>3, <1>4, <1>5, <1>6, <1>7, <1>8 DEF IInv

LEMMA FinalizeFirstStep ==
  ASSUME IInv, NEW o \in Operators, FinalizeFirst(o) PROVE IInv'
<1>1. TypeOK'
  BY SMTT(20) DEF FinalizeFirst, WriteHost, WriteRecovery, FinalResult, IInv, TypeOK, OnlyClaimantWorks, Scripted, Commanded, Trapped, Recovered, Judged, Agreed, FailureIsOwn, ClaimsFirst, GraspGates, RecoveryFirst, TrapsFirst, ReadsAll, OpPcs, ScriptPcs, FinPcs, Files, Data, Verdict, Results
<1>2. OnlyClaimantWorks'
  BY SMTT(20) DEF FinalizeFirst, WriteHost, WriteRecovery, FinalResult, IInv, TypeOK, OnlyClaimantWorks, Scripted, Commanded, Trapped, Recovered, Judged, Agreed, FailureIsOwn, ClaimsFirst, GraspGates, RecoveryFirst, TrapsFirst, ReadsAll, OpPcs, ScriptPcs, FinPcs, Files, Data, Verdict, Results
<1>3. Scripted'
  BY SMTT(20) DEF FinalizeFirst, WriteHost, WriteRecovery, FinalResult, IInv, TypeOK, OnlyClaimantWorks, Scripted, Commanded, Trapped, Recovered, Judged, Agreed, FailureIsOwn, ClaimsFirst, GraspGates, RecoveryFirst, TrapsFirst, ReadsAll, OpPcs, ScriptPcs, FinPcs, Files, Data, Verdict, Results
<1>4. Commanded'
  BY SMTT(20) DEF FinalizeFirst, WriteHost, WriteRecovery, FinalResult, IInv, TypeOK, OnlyClaimantWorks, Scripted, Commanded, Trapped, Recovered, Judged, Agreed, FailureIsOwn, ClaimsFirst, GraspGates, RecoveryFirst, TrapsFirst, ReadsAll, OpPcs, ScriptPcs, FinPcs, Files, Data, Verdict, Results
<1>5. Trapped'
  BY SMTT(20) DEF FinalizeFirst, WriteHost, WriteRecovery, FinalResult, IInv, TypeOK, OnlyClaimantWorks, Scripted, Commanded, Trapped, Recovered, Judged, Agreed, FailureIsOwn, ClaimsFirst, GraspGates, RecoveryFirst, TrapsFirst, ReadsAll, OpPcs, ScriptPcs, FinPcs, Files, Data, Verdict, Results
<1>6. Recovered'
  BY SMTT(20) DEF FinalizeFirst, WriteHost, WriteRecovery, FinalResult, IInv, TypeOK, OnlyClaimantWorks, Scripted, Commanded, Trapped, Recovered, Judged, Agreed, FailureIsOwn, ClaimsFirst, GraspGates, RecoveryFirst, TrapsFirst, ReadsAll, OpPcs, ScriptPcs, FinPcs, Files, Data, Verdict, Results
<1>7. Judged'
  BY SMTT(20) DEF FinalizeFirst, WriteHost, WriteRecovery, FinalResult, IInv, TypeOK, OnlyClaimantWorks, Scripted, Commanded, Trapped, Recovered, Judged, Agreed, FailureIsOwn, ClaimsFirst, GraspGates, RecoveryFirst, TrapsFirst, ReadsAll, OpPcs, ScriptPcs, FinPcs, Files, Data, Verdict, Results
<1>8. Agreed'
  BY SMTT(20) DEF FinalizeFirst, WriteHost, WriteRecovery, FinalResult, IInv, TypeOK, OnlyClaimantWorks, Scripted, Commanded, Trapped, Recovered, Judged, Agreed, FailureIsOwn, ClaimsFirst, GraspGates, RecoveryFirst, TrapsFirst, ReadsAll, OpPcs, ScriptPcs, FinPcs, Files, Data, Verdict, Results
<1> QED BY <1>1, <1>2, <1>3, <1>4, <1>5, <1>6, <1>7, <1>8 DEF IInv

LEMMA FinalizeSecondStep ==
  ASSUME IInv, NEW o \in Operators, FinalizeSecond(o) PROVE IInv'
<1>1. TypeOK'
  BY SMTT(20) DEF FinalizeSecond, WriteHost, WriteRecovery, FinalResult, IInv, TypeOK, OnlyClaimantWorks, Scripted, Commanded, Trapped, Recovered, Judged, Agreed, FailureIsOwn, ClaimsFirst, GraspGates, RecoveryFirst, TrapsFirst, ReadsAll, OpPcs, ScriptPcs, FinPcs, Files, Data, Verdict, Results
<1>2. OnlyClaimantWorks'
  BY SMTT(20) DEF FinalizeSecond, WriteHost, WriteRecovery, FinalResult, IInv, TypeOK, OnlyClaimantWorks, Scripted, Commanded, Trapped, Recovered, Judged, Agreed, FailureIsOwn, ClaimsFirst, GraspGates, RecoveryFirst, TrapsFirst, ReadsAll, OpPcs, ScriptPcs, FinPcs, Files, Data, Verdict, Results
<1>3. Scripted'
  BY SMTT(20) DEF FinalizeSecond, WriteHost, WriteRecovery, FinalResult, IInv, TypeOK, OnlyClaimantWorks, Scripted, Commanded, Trapped, Recovered, Judged, Agreed, FailureIsOwn, ClaimsFirst, GraspGates, RecoveryFirst, TrapsFirst, ReadsAll, OpPcs, ScriptPcs, FinPcs, Files, Data, Verdict, Results
<1>4. Commanded'
  BY SMTT(20) DEF FinalizeSecond, WriteHost, WriteRecovery, FinalResult, IInv, TypeOK, OnlyClaimantWorks, Scripted, Commanded, Trapped, Recovered, Judged, Agreed, FailureIsOwn, ClaimsFirst, GraspGates, RecoveryFirst, TrapsFirst, ReadsAll, OpPcs, ScriptPcs, FinPcs, Files, Data, Verdict, Results
<1>5. Trapped'
  BY SMTT(20) DEF FinalizeSecond, WriteHost, WriteRecovery, FinalResult, IInv, TypeOK, OnlyClaimantWorks, Scripted, Commanded, Trapped, Recovered, Judged, Agreed, FailureIsOwn, ClaimsFirst, GraspGates, RecoveryFirst, TrapsFirst, ReadsAll, OpPcs, ScriptPcs, FinPcs, Files, Data, Verdict, Results
<1>6. Recovered'
  BY SMTT(20) DEF FinalizeSecond, WriteHost, WriteRecovery, FinalResult, IInv, TypeOK, OnlyClaimantWorks, Scripted, Commanded, Trapped, Recovered, Judged, Agreed, FailureIsOwn, ClaimsFirst, GraspGates, RecoveryFirst, TrapsFirst, ReadsAll, OpPcs, ScriptPcs, FinPcs, Files, Data, Verdict, Results
<1>7. Judged'
  BY SMTT(20) DEF FinalizeSecond, WriteHost, WriteRecovery, FinalResult, IInv, TypeOK, OnlyClaimantWorks, Scripted, Commanded, Trapped, Recovered, Judged, Agreed, FailureIsOwn, ClaimsFirst, GraspGates, RecoveryFirst, TrapsFirst, ReadsAll, OpPcs, ScriptPcs, FinPcs, Files, Data, Verdict, Results
<1>8. Agreed'
  BY SMTT(20) DEF FinalizeSecond, WriteHost, WriteRecovery, FinalResult, IInv, TypeOK, OnlyClaimantWorks, Scripted, Commanded, Trapped, Recovered, Judged, Agreed, FailureIsOwn, ClaimsFirst, GraspGates, RecoveryFirst, TrapsFirst, ReadsAll, OpPcs, ScriptPcs, FinPcs, Files, Data, Verdict, Results
<1> QED BY <1>1, <1>2, <1>3, <1>4, <1>5, <1>6, <1>7, <1>8 DEF IInv

LEMMA StartStep ==
  ASSUME IInv, NEW o \in Operators, Start(o) PROVE IInv'
<1>1. TypeOK'
  <2>1. PICK next \in OpPcs, ok \in BOOLEAN : GotoOp(o, next, ok)
    BY DEF Start, AfterRun, OpPcs
  <2>2. op' \in [Operators -> OpPcs] /\ good' \in [Operators -> BOOLEAN]
    BY <2>1, GotoOpType DEF IInv
  <2> QED BY <2>2 DEF Start, GotoScript, IInv, TypeOK, ScriptPcs
<1>2. OnlyClaimantWorks'
  BY SMTT(20) DEF Start, GotoOp, GotoScript, AfterRun, IInv, TypeOK, OnlyClaimantWorks, Scripted, Commanded, Trapped, Recovered, Judged, Agreed, FailureIsOwn, ClaimsFirst, GraspGates, RecoveryFirst, TrapsFirst, ReadsAll, OpPcs, ScriptPcs, FinPcs, Files, Data, Verdict, Results
<1>3. Scripted'
  BY SMTT(20) DEF Start, GotoOp, GotoScript, AfterRun, IInv, TypeOK, OnlyClaimantWorks, Scripted, Commanded, Trapped, Recovered, Judged, Agreed, FailureIsOwn, ClaimsFirst, GraspGates, RecoveryFirst, TrapsFirst, ReadsAll, OpPcs, ScriptPcs, FinPcs, Files, Data, Verdict, Results
<1>4. Commanded'
  BY SMTT(20) DEF Start, GotoOp, GotoScript, AfterRun, IInv, TypeOK, OnlyClaimantWorks, Scripted, Commanded, Trapped, Recovered, Judged, Agreed, FailureIsOwn, ClaimsFirst, GraspGates, RecoveryFirst, TrapsFirst, ReadsAll, OpPcs, ScriptPcs, FinPcs, Files, Data, Verdict, Results
<1>5. Trapped'
  BY SMTT(20) DEF Start, GotoOp, GotoScript, AfterRun, IInv, TypeOK, OnlyClaimantWorks, Scripted, Commanded, Trapped, Recovered, Judged, Agreed, FailureIsOwn, ClaimsFirst, GraspGates, RecoveryFirst, TrapsFirst, ReadsAll, OpPcs, ScriptPcs, FinPcs, Files, Data, Verdict, Results
<1>6. Recovered'
  BY SMTT(20) DEF Start, GotoOp, GotoScript, AfterRun, IInv, TypeOK, OnlyClaimantWorks, Scripted, Commanded, Trapped, Recovered, Judged, Agreed, FailureIsOwn, ClaimsFirst, GraspGates, RecoveryFirst, TrapsFirst, ReadsAll, OpPcs, ScriptPcs, FinPcs, Files, Data, Verdict, Results
<1>7. Judged'
  BY SMTT(20) DEF Start, GotoOp, GotoScript, AfterRun, IInv, TypeOK, OnlyClaimantWorks, Scripted, Commanded, Trapped, Recovered, Judged, Agreed, FailureIsOwn, ClaimsFirst, GraspGates, RecoveryFirst, TrapsFirst, ReadsAll, OpPcs, ScriptPcs, FinPcs, Files, Data, Verdict, Results
<1>8. Agreed'
  BY SMTT(20) DEF Start, GotoOp, GotoScript, AfterRun, IInv, TypeOK, OnlyClaimantWorks, Scripted, Commanded, Trapped, Recovered, Judged, Agreed, FailureIsOwn, ClaimsFirst, GraspGates, RecoveryFirst, TrapsFirst, ReadsAll, OpPcs, ScriptPcs, FinPcs, Files, Data, Verdict, Results
<1> QED BY <1>1, <1>2, <1>3, <1>4, <1>5, <1>6, <1>7, <1>8 DEF IInv

LEMMA RunReturnsStep ==
  ASSUME IInv, NEW o \in Operators, RunReturns(o) PROVE IInv'
<1>1. TypeOK'
  BY SMTT(20) DEF RunReturns, GotoOp, AfterRun, IInv, TypeOK, OnlyClaimantWorks, Scripted, Commanded, Trapped, Recovered, Judged, Agreed, FailureIsOwn, ClaimsFirst, GraspGates, RecoveryFirst, TrapsFirst, ReadsAll, OpPcs, ScriptPcs, FinPcs, Files, Data, Verdict, Results
<1>2. OnlyClaimantWorks'
  BY SMTT(20) DEF RunReturns, GotoOp, AfterRun, IInv, TypeOK, OnlyClaimantWorks, Scripted, Commanded, Trapped, Recovered, Judged, Agreed, FailureIsOwn, ClaimsFirst, GraspGates, RecoveryFirst, TrapsFirst, ReadsAll, OpPcs, ScriptPcs, FinPcs, Files, Data, Verdict, Results
<1>3. Scripted'
  BY SMTT(20) DEF RunReturns, GotoOp, AfterRun, IInv, TypeOK, OnlyClaimantWorks, Scripted, Commanded, Trapped, Recovered, Judged, Agreed, FailureIsOwn, ClaimsFirst, GraspGates, RecoveryFirst, TrapsFirst, ReadsAll, OpPcs, ScriptPcs, FinPcs, Files, Data, Verdict, Results
<1>4. Commanded'
  <2>1. op' = [op EXCEPT ![o] = AfterRun] /\ AfterRun \in {"stop", "backup"}
    BY DEF RunReturns, GotoOp, AfterRun
  <2>2. good'[o] => script[o] = "ok"
    BY Zenon DEF RunReturns, GotoOp, IInv, TypeOK
  <2>3. \A x \in Operators \ {o} : good'[x] = good[x]
    BY Zenon DEF RunReturns, GotoOp, IInv, TypeOK
  <2> QED BY <2>1, <2>2, <2>3, SMTT(20) DEF RunReturns, IInv, TypeOK, Commanded
<1>5. Trapped'
  BY SMTT(20) DEF RunReturns, GotoOp, AfterRun, IInv, TypeOK, OnlyClaimantWorks, Scripted, Commanded, Trapped, Recovered, Judged, Agreed, FailureIsOwn, ClaimsFirst, GraspGates, RecoveryFirst, TrapsFirst, ReadsAll, OpPcs, ScriptPcs, FinPcs, Files, Data, Verdict, Results
<1>6. Recovered'
  BY SMTT(20) DEF RunReturns, GotoOp, AfterRun, IInv, TypeOK, OnlyClaimantWorks, Scripted, Commanded, Trapped, Recovered, Judged, Agreed, FailureIsOwn, ClaimsFirst, GraspGates, RecoveryFirst, TrapsFirst, ReadsAll, OpPcs, ScriptPcs, FinPcs, Files, Data, Verdict, Results
<1>7. Judged'
  BY SMTT(20) DEF RunReturns, GotoOp, AfterRun, IInv, TypeOK, OnlyClaimantWorks, Scripted, Commanded, Trapped, Recovered, Judged, Agreed, FailureIsOwn, ClaimsFirst, GraspGates, RecoveryFirst, TrapsFirst, ReadsAll, OpPcs, ScriptPcs, FinPcs, Files, Data, Verdict, Results
<1>8. Agreed'
  BY SMTT(20) DEF RunReturns, GotoOp, AfterRun, IInv, TypeOK, OnlyClaimantWorks, Scripted, Commanded, Trapped, Recovered, Judged, Agreed, FailureIsOwn, ClaimsFirst, GraspGates, RecoveryFirst, TrapsFirst, ReadsAll, OpPcs, ScriptPcs, FinPcs, Files, Data, Verdict, Results
<1> QED BY <1>1, <1>2, <1>3, <1>4, <1>5, <1>6, <1>7, <1>8 DEF IInv

LEMMA StopWorkerStep ==
  ASSUME IInv, NEW o \in Operators, StopWorker(o) PROVE IInv'
<1>1. TypeOK'
  <2>1. PICK next \in OpPcs, ok \in BOOLEAN : GotoOp(o, next, ok)
    BY DEF StopWorker, OpPcs, IInv, TypeOK
  <2>2. op' \in [Operators -> OpPcs] /\ good' \in [Operators -> BOOLEAN]
    BY <2>1, GotoOpType DEF IInv
  <2> QED BY <2>2 DEF StopWorker, IInv, TypeOK
<1>2. OnlyClaimantWorks'
  BY SMTT(20) DEF StopWorker, GotoOp, IInv, TypeOK, OnlyClaimantWorks, Scripted, Commanded, Trapped, Recovered, Judged, Agreed, FailureIsOwn, ClaimsFirst, GraspGates, RecoveryFirst, TrapsFirst, ReadsAll, OpPcs, ScriptPcs, FinPcs, Files, Data, Verdict, Results
<1>3. Scripted'
  BY SMTT(20) DEF StopWorker, GotoOp, IInv, TypeOK, OnlyClaimantWorks, Scripted, Commanded, Trapped, Recovered, Judged, Agreed, FailureIsOwn, ClaimsFirst, GraspGates, RecoveryFirst, TrapsFirst, ReadsAll, OpPcs, ScriptPcs, FinPcs, Files, Data, Verdict, Results
<1>4. Commanded'
  BY SMTT(20) DEF StopWorker, GotoOp, IInv, TypeOK, OnlyClaimantWorks, Scripted, Commanded, Trapped, Recovered, Judged, Agreed, FailureIsOwn, ClaimsFirst, GraspGates, RecoveryFirst, TrapsFirst, ReadsAll, OpPcs, ScriptPcs, FinPcs, Files, Data, Verdict, Results
<1>5. Trapped'
  BY SMTT(20) DEF StopWorker, GotoOp, IInv, TypeOK, OnlyClaimantWorks, Scripted, Commanded, Trapped, Recovered, Judged, Agreed, FailureIsOwn, ClaimsFirst, GraspGates, RecoveryFirst, TrapsFirst, ReadsAll, OpPcs, ScriptPcs, FinPcs, Files, Data, Verdict, Results
<1>6. Recovered'
  BY SMTT(20) DEF StopWorker, GotoOp, IInv, TypeOK, OnlyClaimantWorks, Scripted, Commanded, Trapped, Recovered, Judged, Agreed, FailureIsOwn, ClaimsFirst, GraspGates, RecoveryFirst, TrapsFirst, ReadsAll, OpPcs, ScriptPcs, FinPcs, Files, Data, Verdict, Results
<1>7. Judged'
  BY SMTT(20) DEF StopWorker, GotoOp, IInv, TypeOK, OnlyClaimantWorks, Scripted, Commanded, Trapped, Recovered, Judged, Agreed, FailureIsOwn, ClaimsFirst, GraspGates, RecoveryFirst, TrapsFirst, ReadsAll, OpPcs, ScriptPcs, FinPcs, Files, Data, Verdict, Results
<1>8. Agreed'
  BY SMTT(20) DEF StopWorker, GotoOp, IInv, TypeOK, OnlyClaimantWorks, Scripted, Commanded, Trapped, Recovered, Judged, Agreed, FailureIsOwn, ClaimsFirst, GraspGates, RecoveryFirst, TrapsFirst, ReadsAll, OpPcs, ScriptPcs, FinPcs, Files, Data, Verdict, Results
<1> QED BY <1>1, <1>2, <1>3, <1>4, <1>5, <1>6, <1>7, <1>8 DEF IInv

LEMMA BackupStep ==
  ASSUME IInv, NEW o \in Operators, Backup(o) PROVE IInv'
<1>1. TypeOK'
  <2>1. PICK next \in OpPcs, ok \in BOOLEAN : GotoOp(o, next, ok)
    BY DEF Backup, OpPcs, IInv, TypeOK
  <2>2. op' \in [Operators -> OpPcs] /\ good' \in [Operators -> BOOLEAN]
    BY <2>1, GotoOpType DEF IInv
  <2> QED BY <2>2, CopyType DEF Backup, IInv, TypeOK
<1>2. OnlyClaimantWorks'
  BY SMTT(20) DEF Backup, CopyData, GotoOp, IInv, TypeOK, OnlyClaimantWorks, Scripted, Commanded, Trapped, Recovered, Judged, Agreed, FailureIsOwn, ClaimsFirst, GraspGates, RecoveryFirst, TrapsFirst, ReadsAll, OpPcs, ScriptPcs, FinPcs, Files, Data, Verdict, Results
<1>3. Scripted'
  BY SMTT(20) DEF Backup, CopyData, GotoOp, IInv, TypeOK, OnlyClaimantWorks, Scripted, Commanded, Trapped, Recovered, Judged, Agreed, FailureIsOwn, ClaimsFirst, GraspGates, RecoveryFirst, TrapsFirst, ReadsAll, OpPcs, ScriptPcs, FinPcs, Files, Data, Verdict, Results
<1>4. Commanded'
  BY SMTT(20) DEF Backup, CopyData, GotoOp, IInv, TypeOK, OnlyClaimantWorks, Scripted, Commanded, Trapped, Recovered, Judged, Agreed, FailureIsOwn, ClaimsFirst, GraspGates, RecoveryFirst, TrapsFirst, ReadsAll, OpPcs, ScriptPcs, FinPcs, Files, Data, Verdict, Results
<1>5. Trapped'
  BY SMTT(20) DEF Backup, CopyData, GotoOp, IInv, TypeOK, OnlyClaimantWorks, Scripted, Commanded, Trapped, Recovered, Judged, Agreed, FailureIsOwn, ClaimsFirst, GraspGates, RecoveryFirst, TrapsFirst, ReadsAll, OpPcs, ScriptPcs, FinPcs, Files, Data, Verdict, Results
<1>6. Recovered'
  BY SMTT(20) DEF Backup, CopyData, GotoOp, IInv, TypeOK, OnlyClaimantWorks, Scripted, Commanded, Trapped, Recovered, Judged, Agreed, FailureIsOwn, ClaimsFirst, GraspGates, RecoveryFirst, TrapsFirst, ReadsAll, OpPcs, ScriptPcs, FinPcs, Files, Data, Verdict, Results
<1>7. Judged'
  BY SMTT(20) DEF Backup, CopyData, GotoOp, IInv, TypeOK, OnlyClaimantWorks, Scripted, Commanded, Trapped, Recovered, Judged, Agreed, FailureIsOwn, ClaimsFirst, GraspGates, RecoveryFirst, TrapsFirst, ReadsAll, OpPcs, ScriptPcs, FinPcs, Files, Data, Verdict, Results
<1>8. Agreed'
  BY SMTT(20) DEF Backup, CopyData, GotoOp, IInv, TypeOK, OnlyClaimantWorks, Scripted, Commanded, Trapped, Recovered, Judged, Agreed, FailureIsOwn, ClaimsFirst, GraspGates, RecoveryFirst, TrapsFirst, ReadsAll, OpPcs, ScriptPcs, FinPcs, Files, Data, Verdict, Results
<1> QED BY <1>1, <1>2, <1>3, <1>4, <1>5, <1>6, <1>7, <1>8 DEF IInv

LEMMA BackupLedgerStep ==
  ASSUME IInv, NEW o \in Operators, BackupLedger(o) PROVE IInv'
<1>1. TypeOK'
  <2>1. PICK next \in OpPcs, ok \in BOOLEAN : GotoOp(o, next, ok)
    BY DEF BackupLedger, OpPcs, IInv, TypeOK
  <2>2. op' \in [Operators -> OpPcs] /\ good' \in [Operators -> BOOLEAN]
    BY <2>1, GotoOpType DEF IInv
  <2> QED BY <2>2, CopyType DEF BackupLedger, IInv, TypeOK
<1>2. OnlyClaimantWorks'
  BY SMTT(20) DEF BackupLedger, CopyLedger, GotoOp, IInv, TypeOK, OnlyClaimantWorks, Scripted, Commanded, Trapped, Recovered, Judged, Agreed, FailureIsOwn, ClaimsFirst, GraspGates, RecoveryFirst, TrapsFirst, ReadsAll, OpPcs, ScriptPcs, FinPcs, Files, Data, Verdict, Results
<1>3. Scripted'
  BY SMTT(20) DEF BackupLedger, CopyLedger, GotoOp, IInv, TypeOK, OnlyClaimantWorks, Scripted, Commanded, Trapped, Recovered, Judged, Agreed, FailureIsOwn, ClaimsFirst, GraspGates, RecoveryFirst, TrapsFirst, ReadsAll, OpPcs, ScriptPcs, FinPcs, Files, Data, Verdict, Results
<1>4. Commanded'
  BY SMTT(20) DEF BackupLedger, CopyLedger, GotoOp, IInv, TypeOK, OnlyClaimantWorks, Scripted, Commanded, Trapped, Recovered, Judged, Agreed, FailureIsOwn, ClaimsFirst, GraspGates, RecoveryFirst, TrapsFirst, ReadsAll, OpPcs, ScriptPcs, FinPcs, Files, Data, Verdict, Results
<1>5. Trapped'
  BY SMTT(20) DEF BackupLedger, CopyLedger, GotoOp, IInv, TypeOK, OnlyClaimantWorks, Scripted, Commanded, Trapped, Recovered, Judged, Agreed, FailureIsOwn, ClaimsFirst, GraspGates, RecoveryFirst, TrapsFirst, ReadsAll, OpPcs, ScriptPcs, FinPcs, Files, Data, Verdict, Results
<1>6. Recovered'
  BY SMTT(20) DEF BackupLedger, CopyLedger, GotoOp, IInv, TypeOK, OnlyClaimantWorks, Scripted, Commanded, Trapped, Recovered, Judged, Agreed, FailureIsOwn, ClaimsFirst, GraspGates, RecoveryFirst, TrapsFirst, ReadsAll, OpPcs, ScriptPcs, FinPcs, Files, Data, Verdict, Results
<1>7. Judged'
  BY SMTT(20) DEF BackupLedger, CopyLedger, GotoOp, IInv, TypeOK, OnlyClaimantWorks, Scripted, Commanded, Trapped, Recovered, Judged, Agreed, FailureIsOwn, ClaimsFirst, GraspGates, RecoveryFirst, TrapsFirst, ReadsAll, OpPcs, ScriptPcs, FinPcs, Files, Data, Verdict, Results
<1>8. Agreed'
  BY SMTT(20) DEF BackupLedger, CopyLedger, GotoOp, IInv, TypeOK, OnlyClaimantWorks, Scripted, Commanded, Trapped, Recovered, Judged, Agreed, FailureIsOwn, ClaimsFirst, GraspGates, RecoveryFirst, TrapsFirst, ReadsAll, OpPcs, ScriptPcs, FinPcs, Files, Data, Verdict, Results
<1> QED BY <1>1, <1>2, <1>3, <1>4, <1>5, <1>6, <1>7, <1>8 DEF IInv

LEMMA BackupFailsStep ==
  ASSUME IInv, NEW o \in Operators, BackupFails(o) PROVE IInv'
<1>1. TypeOK'
  BY SMTT(20) DEF BackupFails, GotoOp, IInv, TypeOK, OnlyClaimantWorks, Scripted, Commanded, Trapped, Recovered, Judged, Agreed, FailureIsOwn, ClaimsFirst, GraspGates, RecoveryFirst, TrapsFirst, ReadsAll, OpPcs, ScriptPcs, FinPcs, Files, Data, Verdict, Results
<1>2. OnlyClaimantWorks'
  BY SMTT(20) DEF BackupFails, GotoOp, IInv, TypeOK, OnlyClaimantWorks, Scripted, Commanded, Trapped, Recovered, Judged, Agreed, FailureIsOwn, ClaimsFirst, GraspGates, RecoveryFirst, TrapsFirst, ReadsAll, OpPcs, ScriptPcs, FinPcs, Files, Data, Verdict, Results
<1>3. Scripted'
  BY SMTT(20) DEF BackupFails, GotoOp, IInv, TypeOK, OnlyClaimantWorks, Scripted, Commanded, Trapped, Recovered, Judged, Agreed, FailureIsOwn, ClaimsFirst, GraspGates, RecoveryFirst, TrapsFirst, ReadsAll, OpPcs, ScriptPcs, FinPcs, Files, Data, Verdict, Results
<1>4. Commanded'
  BY SMTT(20) DEF BackupFails, GotoOp, IInv, TypeOK, OnlyClaimantWorks, Scripted, Commanded, Trapped, Recovered, Judged, Agreed, FailureIsOwn, ClaimsFirst, GraspGates, RecoveryFirst, TrapsFirst, ReadsAll, OpPcs, ScriptPcs, FinPcs, Files, Data, Verdict, Results
<1>5. Trapped'
  BY SMTT(20) DEF BackupFails, GotoOp, IInv, TypeOK, OnlyClaimantWorks, Scripted, Commanded, Trapped, Recovered, Judged, Agreed, FailureIsOwn, ClaimsFirst, GraspGates, RecoveryFirst, TrapsFirst, ReadsAll, OpPcs, ScriptPcs, FinPcs, Files, Data, Verdict, Results
<1>6. Recovered'
  BY SMTT(20) DEF BackupFails, GotoOp, IInv, TypeOK, OnlyClaimantWorks, Scripted, Commanded, Trapped, Recovered, Judged, Agreed, FailureIsOwn, ClaimsFirst, GraspGates, RecoveryFirst, TrapsFirst, ReadsAll, OpPcs, ScriptPcs, FinPcs, Files, Data, Verdict, Results
<1>7. Judged'
  BY SMTT(20) DEF BackupFails, GotoOp, IInv, TypeOK, OnlyClaimantWorks, Scripted, Commanded, Trapped, Recovered, Judged, Agreed, FailureIsOwn, ClaimsFirst, GraspGates, RecoveryFirst, TrapsFirst, ReadsAll, OpPcs, ScriptPcs, FinPcs, Files, Data, Verdict, Results
<1>8. Agreed'
  BY SMTT(20) DEF BackupFails, GotoOp, IInv, TypeOK, OnlyClaimantWorks, Scripted, Commanded, Trapped, Recovered, Judged, Agreed, FailureIsOwn, ClaimsFirst, GraspGates, RecoveryFirst, TrapsFirst, ReadsAll, OpPcs, ScriptPcs, FinPcs, Files, Data, Verdict, Results
<1> QED BY <1>1, <1>2, <1>3, <1>4, <1>5, <1>6, <1>7, <1>8 DEF IInv

LEMMA FinalizeStep ==
  ASSUME IInv, NEW o \in Operators, Finalize(o) PROVE IInv'
<1>1. TypeOK'
  BY SMTT(20) DEF Finalize, GotoOp, IInv, TypeOK, OnlyClaimantWorks, Scripted, Commanded, Trapped, Recovered, Judged, Agreed, FailureIsOwn, ClaimsFirst, GraspGates, RecoveryFirst, TrapsFirst, ReadsAll, OpPcs, ScriptPcs, FinPcs, Files, Data, Verdict, Results
<1>2. OnlyClaimantWorks'
  BY SMTT(20) DEF Finalize, GotoOp, IInv, TypeOK, OnlyClaimantWorks, Scripted, Commanded, Trapped, Recovered, Judged, Agreed, FailureIsOwn, ClaimsFirst, GraspGates, RecoveryFirst, TrapsFirst, ReadsAll, OpPcs, ScriptPcs, FinPcs, Files, Data, Verdict, Results
<1>3. Scripted'
  BY SMTT(20) DEF Finalize, GotoOp, IInv, TypeOK, OnlyClaimantWorks, Scripted, Commanded, Trapped, Recovered, Judged, Agreed, FailureIsOwn, ClaimsFirst, GraspGates, RecoveryFirst, TrapsFirst, ReadsAll, OpPcs, ScriptPcs, FinPcs, Files, Data, Verdict, Results
<1>4. Commanded'
  BY SMTT(20) DEF Finalize, GotoOp, IInv, TypeOK, OnlyClaimantWorks, Scripted, Commanded, Trapped, Recovered, Judged, Agreed, FailureIsOwn, ClaimsFirst, GraspGates, RecoveryFirst, TrapsFirst, ReadsAll, OpPcs, ScriptPcs, FinPcs, Files, Data, Verdict, Results
<1>5. Trapped'
  BY SMTT(20) DEF Finalize, GotoOp, IInv, TypeOK, OnlyClaimantWorks, Scripted, Commanded, Trapped, Recovered, Judged, Agreed, FailureIsOwn, ClaimsFirst, GraspGates, RecoveryFirst, TrapsFirst, ReadsAll, OpPcs, ScriptPcs, FinPcs, Files, Data, Verdict, Results
<1>6. Recovered'
  BY SMTT(20) DEF Finalize, GotoOp, IInv, TypeOK, OnlyClaimantWorks, Scripted, Commanded, Trapped, Recovered, Judged, Agreed, FailureIsOwn, ClaimsFirst, GraspGates, RecoveryFirst, TrapsFirst, ReadsAll, OpPcs, ScriptPcs, FinPcs, Files, Data, Verdict, Results
<1>7. Judged'
  BY SMTT(20) DEF Finalize, GotoOp, IInv, TypeOK, OnlyClaimantWorks, Scripted, Commanded, Trapped, Recovered, Judged, Agreed, FailureIsOwn, ClaimsFirst, GraspGates, RecoveryFirst, TrapsFirst, ReadsAll, OpPcs, ScriptPcs, FinPcs, Files, Data, Verdict, Results
<1>8. Agreed'
  BY SMTT(20) DEF Finalize, GotoOp, IInv, TypeOK, OnlyClaimantWorks, Scripted, Commanded, Trapped, Recovered, Judged, Agreed, FailureIsOwn, ClaimsFirst, GraspGates, RecoveryFirst, TrapsFirst, ReadsAll, OpPcs, ScriptPcs, FinPcs, Files, Data, Verdict, Results
<1> QED BY <1>1, <1>2, <1>3, <1>4, <1>5, <1>6, <1>7, <1>8 DEF IInv

LEMMA FinalizeReturnsStep ==
  ASSUME IInv, NEW o \in Operators, FinalizeReturns(o) PROVE IInv'
<1>1. TypeOK'
  <2>1. PICK next \in OpPcs, ok \in BOOLEAN : GotoOp(o, next, ok)
    BY DEF FinalizeReturns, OpPcs, IInv, TypeOK
  <2>2. op' \in [Operators -> OpPcs] /\ good' \in [Operators -> BOOLEAN]
    BY <2>1, GotoOpType DEF IInv
  <2> QED BY <2>2 DEF FinalizeReturns, IInv, TypeOK
<1>2. OnlyClaimantWorks'
  BY SMTT(20) DEF FinalizeReturns, GotoOp, IInv, TypeOK, OnlyClaimantWorks, Scripted, Commanded, Trapped, Recovered, Judged, Agreed, FailureIsOwn, ClaimsFirst, GraspGates, RecoveryFirst, TrapsFirst, ReadsAll, OpPcs, ScriptPcs, FinPcs, Files, Data, Verdict, Results
<1>3. Scripted'
  BY SMTT(20) DEF FinalizeReturns, GotoOp, IInv, TypeOK, OnlyClaimantWorks, Scripted, Commanded, Trapped, Recovered, Judged, Agreed, FailureIsOwn, ClaimsFirst, GraspGates, RecoveryFirst, TrapsFirst, ReadsAll, OpPcs, ScriptPcs, FinPcs, Files, Data, Verdict, Results
<1>4. Commanded'
  BY SMTT(20) DEF FinalizeReturns, GotoOp, IInv, TypeOK, OnlyClaimantWorks, Scripted, Commanded, Trapped, Recovered, Judged, Agreed, FailureIsOwn, ClaimsFirst, GraspGates, RecoveryFirst, TrapsFirst, ReadsAll, OpPcs, ScriptPcs, FinPcs, Files, Data, Verdict, Results
<1>5. Trapped'
  BY SMTT(20) DEF FinalizeReturns, GotoOp, IInv, TypeOK, OnlyClaimantWorks, Scripted, Commanded, Trapped, Recovered, Judged, Agreed, FailureIsOwn, ClaimsFirst, GraspGates, RecoveryFirst, TrapsFirst, ReadsAll, OpPcs, ScriptPcs, FinPcs, Files, Data, Verdict, Results
<1>6. Recovered'
  BY SMTT(20) DEF FinalizeReturns, GotoOp, IInv, TypeOK, OnlyClaimantWorks, Scripted, Commanded, Trapped, Recovered, Judged, Agreed, FailureIsOwn, ClaimsFirst, GraspGates, RecoveryFirst, TrapsFirst, ReadsAll, OpPcs, ScriptPcs, FinPcs, Files, Data, Verdict, Results
<1>7. Judged'
  BY SMTT(20) DEF FinalizeReturns, GotoOp, IInv, TypeOK, OnlyClaimantWorks, Scripted, Commanded, Trapped, Recovered, Judged, Agreed, FailureIsOwn, ClaimsFirst, GraspGates, RecoveryFirst, TrapsFirst, ReadsAll, OpPcs, ScriptPcs, FinPcs, Files, Data, Verdict, Results
<1>8. Agreed'
  BY SMTT(20) DEF FinalizeReturns, GotoOp, IInv, TypeOK, OnlyClaimantWorks, Scripted, Commanded, Trapped, Recovered, Judged, Agreed, FailureIsOwn, ClaimsFirst, GraspGates, RecoveryFirst, TrapsFirst, ReadsAll, OpPcs, ScriptPcs, FinPcs, Files, Data, Verdict, Results
<1> QED BY <1>1, <1>2, <1>3, <1>4, <1>5, <1>6, <1>7, <1>8 DEF IInv

LEMMA FailStepStep ==
  ASSUME IInv, NEW o \in Operators, FailStep(o) PROVE IInv'
<1>1. TypeOK'
  BY SMTT(20) DEF FailStep, RecordFailure, MayFail, GotoOp, IInv, TypeOK, OnlyClaimantWorks, Scripted, Commanded, Trapped, Recovered, Judged, Agreed, FailureIsOwn, ClaimsFirst, GraspGates, RecoveryFirst, TrapsFirst, ReadsAll, OpPcs, ScriptPcs, FinPcs, Files, Data, Verdict, Results
<1>2. OnlyClaimantWorks'
  BY SMTT(20) DEF FailStep, RecordFailure, MayFail, GotoOp, IInv, TypeOK, OnlyClaimantWorks, Scripted, Commanded, Trapped, Recovered, Judged, Agreed, FailureIsOwn, ClaimsFirst, GraspGates, RecoveryFirst, TrapsFirst, ReadsAll, OpPcs, ScriptPcs, FinPcs, Files, Data, Verdict, Results
<1>3. Scripted'
  BY SMTT(20) DEF FailStep, RecordFailure, MayFail, GotoOp, IInv, TypeOK, OnlyClaimantWorks, Scripted, Commanded, Trapped, Recovered, Judged, Agreed, FailureIsOwn, ClaimsFirst, GraspGates, RecoveryFirst, TrapsFirst, ReadsAll, OpPcs, ScriptPcs, FinPcs, Files, Data, Verdict, Results
<1>4. Commanded'
  BY SMTT(20) DEF FailStep, RecordFailure, MayFail, GotoOp, IInv, TypeOK, OnlyClaimantWorks, Scripted, Commanded, Trapped, Recovered, Judged, Agreed, FailureIsOwn, ClaimsFirst, GraspGates, RecoveryFirst, TrapsFirst, ReadsAll, OpPcs, ScriptPcs, FinPcs, Files, Data, Verdict, Results
<1>5. Trapped'
  BY SMTT(20) DEF FailStep, RecordFailure, MayFail, GotoOp, IInv, TypeOK, OnlyClaimantWorks, Scripted, Commanded, Trapped, Recovered, Judged, Agreed, FailureIsOwn, ClaimsFirst, GraspGates, RecoveryFirst, TrapsFirst, ReadsAll, OpPcs, ScriptPcs, FinPcs, Files, Data, Verdict, Results
<1>6. Recovered'
  BY SMTT(20) DEF FailStep, RecordFailure, MayFail, GotoOp, IInv, TypeOK, OnlyClaimantWorks, Scripted, Commanded, Trapped, Recovered, Judged, Agreed, FailureIsOwn, ClaimsFirst, GraspGates, RecoveryFirst, TrapsFirst, ReadsAll, OpPcs, ScriptPcs, FinPcs, Files, Data, Verdict, Results
<1>7. Judged'
  BY SMTT(20) DEF FailStep, RecordFailure, MayFail, GotoOp, IInv, TypeOK, OnlyClaimantWorks, Scripted, Commanded, Trapped, Recovered, Judged, Agreed, FailureIsOwn, ClaimsFirst, GraspGates, RecoveryFirst, TrapsFirst, ReadsAll, OpPcs, ScriptPcs, FinPcs, Files, Data, Verdict, Results
<1>8. Agreed'
  BY SMTT(20) DEF FailStep, RecordFailure, MayFail, GotoOp, IInv, TypeOK, OnlyClaimantWorks, Scripted, Commanded, Trapped, Recovered, Judged, Agreed, FailureIsOwn, ClaimsFirst, GraspGates, RecoveryFirst, TrapsFirst, ReadsAll, OpPcs, ScriptPcs, FinPcs, Files, Data, Verdict, Results
<1> QED BY <1>1, <1>2, <1>3, <1>4, <1>5, <1>6, <1>7, <1>8 DEF IInv

LEMMA BackupAgainStep ==
  ASSUME IInv, NEW o \in Operators, BackupAgain(o) PROVE IInv'
<1>1. TypeOK'
  <2>1. PICK next \in OpPcs, ok \in BOOLEAN : GotoOp(o, next, ok)
    BY DEF BackupAgain, OpPcs, IInv, TypeOK
  <2>2. op' \in [Operators -> OpPcs] /\ good' \in [Operators -> BOOLEAN]
    BY <2>1, GotoOpType DEF IInv
  <2> QED BY <2>2, CopyType DEF BackupAgain, IInv, TypeOK
<1>2. OnlyClaimantWorks'
  BY SMTT(20) DEF BackupAgain, CopyData, CopyLedger, GotoOp, IInv, TypeOK, OnlyClaimantWorks, Scripted, Commanded, Trapped, Recovered, Judged, Agreed, FailureIsOwn, ClaimsFirst, GraspGates, RecoveryFirst, TrapsFirst, ReadsAll, OpPcs, ScriptPcs, FinPcs, Files, Data, Verdict, Results
<1>3. Scripted'
  BY SMTT(20) DEF BackupAgain, CopyData, CopyLedger, GotoOp, IInv, TypeOK, OnlyClaimantWorks, Scripted, Commanded, Trapped, Recovered, Judged, Agreed, FailureIsOwn, ClaimsFirst, GraspGates, RecoveryFirst, TrapsFirst, ReadsAll, OpPcs, ScriptPcs, FinPcs, Files, Data, Verdict, Results
<1>4. Commanded'
  BY SMTT(20) DEF BackupAgain, CopyData, CopyLedger, GotoOp, IInv, TypeOK, OnlyClaimantWorks, Scripted, Commanded, Trapped, Recovered, Judged, Agreed, FailureIsOwn, ClaimsFirst, GraspGates, RecoveryFirst, TrapsFirst, ReadsAll, OpPcs, ScriptPcs, FinPcs, Files, Data, Verdict, Results
<1>5. Trapped'
  BY SMTT(20) DEF BackupAgain, CopyData, CopyLedger, GotoOp, IInv, TypeOK, OnlyClaimantWorks, Scripted, Commanded, Trapped, Recovered, Judged, Agreed, FailureIsOwn, ClaimsFirst, GraspGates, RecoveryFirst, TrapsFirst, ReadsAll, OpPcs, ScriptPcs, FinPcs, Files, Data, Verdict, Results
<1>6. Recovered'
  <2>1. /\ \A x \in Operators : op'[x] # op[x] => x = o /\ op'[o] \in {"againLedger", "done"}
        /\ op[o] \in {"again", "againLedger"}
        /\ \A x \in Operators : good'[x] => good[x]
    BY Zenon DEF BackupAgain, GotoOp, IInv, TypeOK
  <2>2. CASE CopyData
    BY <2>1, <2>2, SMTT(20) DEF CopyData, BackupAgain, IInv, TypeOK, Files, Scripted, Commanded,
       Recovered, Agreed, Judged, ClaimsFirst, GraspGates
  <2>3. CASE CopyLedger
    BY <2>1, <2>3, SMTT(20) DEF CopyLedger, BackupAgain, IInv, TypeOK, Files, OnlyClaimantWorks,
       Scripted, Commanded, Recovered, Agreed, Judged, ClaimsFirst, GraspGates
  <2>4. CASE R' = R
    BY <2>1, <2>4, SMTT(20) DEF BackupAgain, IInv, Commanded, Recovered
  <2> QED BY <2>2, <2>3, <2>4 DEF BackupAgain
<1>7. Judged'
  BY SMTT(20) DEF BackupAgain, CopyData, CopyLedger, GotoOp, IInv, TypeOK, OnlyClaimantWorks, Scripted, Commanded, Trapped, Recovered, Judged, Agreed, FailureIsOwn, ClaimsFirst, GraspGates, RecoveryFirst, TrapsFirst, ReadsAll, OpPcs, ScriptPcs, FinPcs, Files, Data, Verdict, Results
<1>8. Agreed'
  <2>1. /\ \A x \in Operators : op'[x] # op[x] => x = o /\ op'[o] \in {"againLedger", "done"}
        /\ op[o] \in {"again", "againLedger"}
        /\ \A x \in Operators : good'[x] => good[x]
    BY Zenon DEF BackupAgain, GotoOp, IInv, TypeOK
  <2>2. CASE CopyData
    BY <2>1, <2>2, SMTT(20) DEF CopyData, BackupAgain, IInv, TypeOK, Files, Scripted, Commanded,
       Agreed, Judged, ClaimsFirst, GraspGates
  <2>3. CASE CopyLedger
    BY <2>1, <2>3, SMTT(20) DEF CopyLedger, BackupAgain, IInv, TypeOK, Files, OnlyClaimantWorks,
       Scripted, Commanded, Agreed, Judged, ClaimsFirst, GraspGates
  <2>4. CASE R' = R
    BY <2>1, <2>4, SMTT(20) DEF BackupAgain, IInv, Commanded, Agreed
  <2> QED BY <2>2, <2>3, <2>4 DEF BackupAgain
<1> QED BY <1>1, <1>2, <1>3, <1>4, <1>5, <1>6, <1>7, <1>8 DEF IInv

LEMMA LoseConnectionStep ==
  ASSUME IInv, NEW o \in Operators, LoseConnection(o) PROVE IInv'
<1>1. TypeOK'
  <2>1. PICK next \in OpPcs, ok \in BOOLEAN : GotoOp(o, next, ok)
    BY DEF LoseConnection, AfterRun, OpPcs, IInv, TypeOK
  <2>2. op' \in [Operators -> OpPcs] /\ good' \in [Operators -> BOOLEAN]
    BY <2>1, GotoOpType DEF IInv
  <2> QED BY <2>2 DEF LoseConnection, IInv, TypeOK
<1>2. OnlyClaimantWorks'
  BY SMTT(20) DEF LoseConnection, GotoOp, AfterRun, IInv, TypeOK, OnlyClaimantWorks, Scripted, Commanded, Trapped, Recovered, Judged, Agreed, FailureIsOwn, ClaimsFirst, GraspGates, RecoveryFirst, TrapsFirst, ReadsAll, OpPcs, ScriptPcs, FinPcs, Files, Data, Verdict, Results
<1>3. Scripted'
  BY SMTT(20) DEF LoseConnection, GotoOp, AfterRun, IInv, TypeOK, OnlyClaimantWorks, Scripted, Commanded, Trapped, Recovered, Judged, Agreed, FailureIsOwn, ClaimsFirst, GraspGates, RecoveryFirst, TrapsFirst, ReadsAll, OpPcs, ScriptPcs, FinPcs, Files, Data, Verdict, Results
<1>4. Commanded'
  BY SMTT(20) DEF LoseConnection, GotoOp, AfterRun, IInv, TypeOK, OnlyClaimantWorks, Scripted, Commanded, Trapped, Recovered, Judged, Agreed, FailureIsOwn, ClaimsFirst, GraspGates, RecoveryFirst, TrapsFirst, ReadsAll, OpPcs, ScriptPcs, FinPcs, Files, Data, Verdict, Results
<1>5. Trapped'
  BY SMTT(20) DEF LoseConnection, GotoOp, AfterRun, IInv, TypeOK, OnlyClaimantWorks, Scripted, Commanded, Trapped, Recovered, Judged, Agreed, FailureIsOwn, ClaimsFirst, GraspGates, RecoveryFirst, TrapsFirst, ReadsAll, OpPcs, ScriptPcs, FinPcs, Files, Data, Verdict, Results
<1>6. Recovered'
  BY SMTT(20) DEF LoseConnection, GotoOp, AfterRun, IInv, TypeOK, OnlyClaimantWorks, Scripted, Commanded, Trapped, Recovered, Judged, Agreed, FailureIsOwn, ClaimsFirst, GraspGates, RecoveryFirst, TrapsFirst, ReadsAll, OpPcs, ScriptPcs, FinPcs, Files, Data, Verdict, Results
<1>7. Judged'
  BY SMTT(20) DEF LoseConnection, GotoOp, AfterRun, IInv, TypeOK, OnlyClaimantWorks, Scripted, Commanded, Trapped, Recovered, Judged, Agreed, FailureIsOwn, ClaimsFirst, GraspGates, RecoveryFirst, TrapsFirst, ReadsAll, OpPcs, ScriptPcs, FinPcs, Files, Data, Verdict, Results
<1>8. Agreed'
  BY SMTT(20) DEF LoseConnection, GotoOp, AfterRun, IInv, TypeOK, OnlyClaimantWorks, Scripted, Commanded, Trapped, Recovered, Judged, Agreed, FailureIsOwn, ClaimsFirst, GraspGates, RecoveryFirst, TrapsFirst, ReadsAll, OpPcs, ScriptPcs, FinPcs, Files, Data, Verdict, Results
<1> QED BY <1>1, <1>2, <1>3, <1>4, <1>5, <1>6, <1>7, <1>8 DEF IInv

LEMMA KillScriptStep ==
  ASSUME IInv, NEW o \in Operators, KillScript(o) PROVE IInv'
<1>1. TypeOK'
  BY SMTT(20) DEF KillScript, GotoScript, IInv, TypeOK, OnlyClaimantWorks, Scripted, Commanded, Trapped, Recovered, Judged, Agreed, FailureIsOwn, ClaimsFirst, GraspGates, RecoveryFirst, TrapsFirst, ReadsAll, OpPcs, ScriptPcs, FinPcs, Files, Data, Verdict, Results
<1>2. OnlyClaimantWorks'
  BY SMTT(20) DEF KillScript, GotoScript, IInv, TypeOK, OnlyClaimantWorks, Scripted, Commanded, Trapped, Recovered, Judged, Agreed, FailureIsOwn, ClaimsFirst, GraspGates, RecoveryFirst, TrapsFirst, ReadsAll, OpPcs, ScriptPcs, FinPcs, Files, Data, Verdict, Results
<1>3. Scripted'
  BY SMTT(20) DEF KillScript, GotoScript, IInv, TypeOK, OnlyClaimantWorks, Scripted, Commanded, Trapped, Recovered, Judged, Agreed, FailureIsOwn, ClaimsFirst, GraspGates, RecoveryFirst, TrapsFirst, ReadsAll, OpPcs, ScriptPcs, FinPcs, Files, Data, Verdict, Results
<1>4. Commanded'
  BY SMTT(20) DEF KillScript, GotoScript, IInv, TypeOK, OnlyClaimantWorks, Scripted, Commanded, Trapped, Recovered, Judged, Agreed, FailureIsOwn, ClaimsFirst, GraspGates, RecoveryFirst, TrapsFirst, ReadsAll, OpPcs, ScriptPcs, FinPcs, Files, Data, Verdict, Results
<1>5. Trapped'
  BY SMTT(20) DEF KillScript, GotoScript, IInv, TypeOK, OnlyClaimantWorks, Scripted, Commanded, Trapped, Recovered, Judged, Agreed, FailureIsOwn, ClaimsFirst, GraspGates, RecoveryFirst, TrapsFirst, ReadsAll, OpPcs, ScriptPcs, FinPcs, Files, Data, Verdict, Results
<1>6. Recovered'
  BY SMTT(20) DEF KillScript, GotoScript, IInv, TypeOK, OnlyClaimantWorks, Scripted, Commanded, Trapped, Recovered, Judged, Agreed, FailureIsOwn, ClaimsFirst, GraspGates, RecoveryFirst, TrapsFirst, ReadsAll, OpPcs, ScriptPcs, FinPcs, Files, Data, Verdict, Results
<1>7. Judged'
  BY SMTT(20) DEF KillScript, GotoScript, IInv, TypeOK, OnlyClaimantWorks, Scripted, Commanded, Trapped, Recovered, Judged, Agreed, FailureIsOwn, ClaimsFirst, GraspGates, RecoveryFirst, TrapsFirst, ReadsAll, OpPcs, ScriptPcs, FinPcs, Files, Data, Verdict, Results
<1>8. Agreed'
  BY SMTT(20) DEF KillScript, GotoScript, IInv, TypeOK, OnlyClaimantWorks, Scripted, Commanded, Trapped, Recovered, Judged, Agreed, FailureIsOwn, ClaimsFirst, GraspGates, RecoveryFirst, TrapsFirst, ReadsAll, OpPcs, ScriptPcs, FinPcs, Files, Data, Verdict, Results
<1> QED BY <1>1, <1>2, <1>3, <1>4, <1>5, <1>6, <1>7, <1>8 DEF IInv

-----------------------------------------------------------------------------
LEMMA Step == IInv /\ [Next]_vars => IInv'
  BY StutterStep, PrepareStep, CheckClaimStep, WriteClaimStep, FillClaimStep, CallServerStep, WorkFailsStep, ServerEndsStep, CallReturnsStep, EvaluateStep, TidyStep, TrapStep, FinalizeCheckStep, FinalizeFirstStep, FinalizeSecondStep, StartStep, RunReturnsStep, StopWorkerStep, BackupStep, BackupLedgerStep, BackupFailsStep, FinalizeStep, FinalizeReturnsStep, FailStepStep, BackupAgainStep, LoseConnectionStep, KillScriptStep
     DEF Next, ScriptStep, FinStep, OpStep, Fault

LEMMA Invariance == Spec => []IInv
  BY InitInvariant, Step, PTL DEF Spec

\* Every variable keeps the shape the code gives it.
THEOREM TypeCorrect == Spec => []TypeOK
  BY Invariance, PTL DEF IInv

\* One experiment, however many operators there are.
THEOREM OnlyTheClaimantWorks == Spec => []OnlyClaimantWorks
  BY Invariance, PTL DEF IInv

\* A refused run never records the failure of the run that has the claim, where
\* the trap is set after the claim.
THEOREM FailuresAreOwn == Spec => []FailureIsOwn
  BY Invariance, PTL DEF IInv, Trapped

\* A verdict on the host is that of an evaluation which the recovery volume has.
THEOREM VerdictsAreRecovered == Spec => []VerdictIsRecovered
<1>1. IInv => VerdictIsRecovered
  BY SMTT(20) DEF IInv, OnlyClaimantWorks, Scripted, Commanded, Recovered, Judged, Same,
     VerdictIsRecovered
<1> QED BY <1>1, Invariance, PTL

\* Without a lost connection a failure excludes a verdict.
THEOREM VerdictIsOne == Spec => []OneVerdict
<1>1. IInv => OneVerdict
  BY DEF IInv, Agreed, OneVerdict
<1> QED BY <1>1, Invariance, PTL

(***************************************************************************)
(* The resident worker, for any number of workers, commands, manifests and *)
(* sessions.  What clients rely on follows from the worker's own records;  *)
(* what the files say is true as long as the commands took turns, which    *)
(* the second half of the invariant follows step by step.                  *)
(***************************************************************************)

\* A server process that was started and is not gone.
Live(w) == life[w] \in {"loading", "serving", "dying"}

\* The commands took turns.
Quiet == disturbances \subseteq {"reuse"}

\* A worker that serves has its artifacts, and keeps answers made with them.
Served ==
  \A w \in Workers :
    /\ life[w] # "none" => name[w] # None
    /\ life[w] = "serving" => loaded[w] # None
    /\ cache[w] # None => /\ loaded[w] # None
                          /\ cache[w].proposal = loaded[w].proposal

\* A direct response was made from the frames of its session.
Answered ==
  /\ AnswerIsExpected /\ PlanSeesOwnFrames
  /\ \A s \in Sessions : direct[s] # None => direct[s].encoded = s

\* Only one command is under way.
One ==
  /\ \A c \in Commands : command[c].at = "idle" => command[c] = Idle
  /\ Quiet => \A c, d \in Commands : command[c] # Idle /\ command[d] # Idle => c = d

\* What the files and processes are while a command is under way.
Phased ==
  \A c \in Commands :
    LET k == command[c]
    IN /\ k.at \in {"pid", "artifacts", "wait", "kill", "drain"} =>
            k.pid \in Workers /\ life[k.pid] # "none"
       /\ k.at \in {"clean", "launch", "pid", "artifacts"} => k.name # None
       /\ k.at \in {"pid", "artifacts"} => name[k.pid] = k.name
       /\ Quiet =>
            /\ k.at \in {"clean", "launch", "remove"} => \A w \in Workers : ~Live(w)
            /\ k.at \in {"launch", "pid"} => pidFile = None /\ artifactsFile = None
            /\ k.at = "launch" => socket = None
            /\ k.at = "pid" => \A w \in Workers : Live(w) => w = k.pid
            /\ k.at = "artifacts" => artifactsFile = None
            /\ k.at \in {"artifacts", "kill", "drain"} => k.pid = pidFile

\* What is live, or left a socket, is known by its pid.
Filed ==
  /\ pidFile # None => life[pidFile] # "none"
  /\ Quiet =>
       /\ \A w \in Workers : Live(w) \/ socket = w =>
            pidFile = w \/ \E c \in Commands : command[c].at = "pid" /\ command[c].pid = w
       /\ pidFile # None /\ artifactsFile # None => name[pidFile] = artifactsFile

WorkerInv == WorkerTypeOK /\ Served /\ Answered /\ One /\ Phased /\ Filed

-----------------------------------------------------------------------------
USE WorkerAssumption
USE DEF Live, Alive, PidIsAlive, control_worker_is_running, Quiet, Places, Idle

LEMMA WorkerInitInvariant == WorkerInit => WorkerInv
  BY DEF WorkerInit, WorkerInv, WorkerTypeOK, Served, Answered, AnswerIsExpected, PlanSeesOwnFrames, One,
         Phased, Filed

LEMMA WorkerStutterStep == WorkerInv /\ UNCHANGED workerVars => WorkerInv'
  BY DEF workerVars, files, workers, clients, WorkerInv, WorkerTypeOK, Served, Answered, AnswerIsExpected,
         PlanSeesOwnFrames, One, Phased, Filed

\* A command that begins beside another one ends the quiet.
LEMMA Entered ==
  ASSUME WorkerInv, NEW c \in Commands, NEW at \in Places, NEW n \in Names \cup {None},
         NEW pid \in Workers \cup {None}, Enter(c, at, n, pid)
  PROVE /\ command' \in [Commands -> [at : Places, name : Names \cup {None},
                                      pid : Workers \cup {None}]]
        /\ disturbances' \subseteq {"overlap", "cut", "linger", "reuse"}
        /\ Quiet' => Quiet /\ \A d \in Commands \ {c} : command[d] = Idle
<1>1. [at |-> at, name |-> n, pid |-> pid] \in
        [at : Places, name : Names \cup {None}, pid : Workers \cup {None}]
  OBVIOUS
<1>2. command' = [command EXCEPT ![c] = [at |-> at, name |-> n, pid |-> pid]]
  BY DEF Enter
<1>3. command' \in [Commands -> [at : Places, name : Names \cup {None},
                                pid : Workers \cup {None}]]
  BY <1>1, <1>2 DEF WorkerInv, WorkerTypeOK
<1>4. disturbances' \subseteq {"overlap", "cut", "linger", "reuse"}
  BY DEF Enter, Disturb, WorkerInv, WorkerTypeOK
<1>5. CASE \E d \in Commands \ {c} : command[d] # Idle
  BY <1>3, <1>4, <1>5 DEF Enter, Disturb
<1>6. CASE \A d \in Commands \ {c} : command[d] = Idle
  BY <1>3, <1>4, <1>6 DEF Enter
<1> QED BY <1>5, <1>6

LEMMA ConfigureStep ==
  ASSUME WorkerInv, NEW n \in Names, NEW artifacts \in Artifacts, Configure(n, artifacts) PROVE WorkerInv'
<1>1. WorkerTypeOK'
  BY SMTT(20) DEF Configure, files, workers, clients, WorkerInv, WorkerTypeOK, Served, Answered, One, Phased, Filed, AnswerIsExpected, PlanSeesOwnFrames, Answers, Calls
<1>2. Served'
  BY SMTT(20) DEF Configure, files, workers, clients, WorkerInv, WorkerTypeOK, Served, Answered, One, Phased, Filed, AnswerIsExpected, PlanSeesOwnFrames, Answers, Calls
<1>3. Answered'
  BY SMTT(20) DEF Configure, files, workers, clients, WorkerInv, WorkerTypeOK, Served, Answered, One, Phased, Filed, AnswerIsExpected, PlanSeesOwnFrames, Answers, Calls
<1>4. One'
  BY SMTT(20) DEF Configure, files, workers, clients, WorkerInv, WorkerTypeOK, Served, Answered, One, Phased, Filed, AnswerIsExpected, PlanSeesOwnFrames, Answers, Calls
<1>5. Phased'
  BY SMTT(20) DEF Configure, files, workers, clients, WorkerInv, WorkerTypeOK, Served, Answered, One, Phased, Filed, AnswerIsExpected, PlanSeesOwnFrames, Answers, Calls
<1>6. Filed'
  BY SMTT(20) DEF Configure, files, workers, clients, WorkerInv, WorkerTypeOK, Served, Answered, One, Phased, Filed, AnswerIsExpected, PlanSeesOwnFrames, Answers, Calls
<1> QED BY <1>1, <1>2, <1>3, <1>4, <1>5, <1>6 DEF WorkerInv

LEMMA BeginStartStep ==
  ASSUME WorkerInv, NEW c \in Commands, NEW n \in Names, BeginStart(c, n) PROVE WorkerInv'
<1>a. /\ Enter(c, "clean", n, None)
      /\ UNCHANGED <<manifest, workers, files, clients>>
  BY DEF BeginStart
<1>b. /\ command' \in [Commands -> [at : Places, name : Names \cup {None},
                                    pid : Workers \cup {None}]]
      /\ disturbances' \subseteq {"overlap", "cut", "linger", "reuse"}
      /\ Quiet' => Quiet /\ \A d \in Commands \ {c} : command[d] = Idle
  BY <1>a, Entered DEF WorkerInv, WorkerTypeOK
<1>c. command' = [command EXCEPT ![c] = [at |-> "clean", name |-> n, pid |-> None]]
  BY <1>a DEF Enter
<1>1. WorkerTypeOK'
  BY <1>a, <1>b DEF files, workers, clients, WorkerInv, WorkerTypeOK
<1>2. Served'
  BY SMTT(20) DEF BeginStart, Enter, Disturb, files, workers, clients, WorkerInv, WorkerTypeOK, Served, Answered, One, Phased, Filed, AnswerIsExpected, PlanSeesOwnFrames, Answers, Calls
<1>3. Answered'
  BY SMTT(20) DEF BeginStart, Enter, Disturb, files, workers, clients, WorkerInv, WorkerTypeOK, Served, Answered, One, Phased, Filed, AnswerIsExpected, PlanSeesOwnFrames, Answers, Calls
<1>4. One'
  BY <1>b, <1>c, SMTT(20) DEF WorkerInv, WorkerTypeOK, One
<1>5. Phased'
  <2>1. Quiet' => \A w \in Workers : ~Live(w)
    BY <1>a, <1>b, SMTT(20) DEF BeginStart, Enter, WorkerInv, WorkerTypeOK, One, Filed
  <2>2. \A d \in Commands \ {c} : command'[d] = command[d]
    BY <1>c
  <2>3. command'[c].at = "clean" /\ command'[c].name = n
    BY <1>c DEF WorkerInv, WorkerTypeOK
  <2> QED BY <1>a, <1>b, <2>1, <2>2, <2>3, SMTT(20) DEF files, workers, WorkerInv, WorkerTypeOK, One, Phased
<1>6. Filed'
  BY SMTT(20) DEF BeginStart, Enter, Disturb, files, workers, clients, WorkerInv, WorkerTypeOK, Served, Answered, One, Phased, Filed, AnswerIsExpected, PlanSeesOwnFrames, Answers, Calls
<1> QED BY <1>1, <1>2, <1>3, <1>4, <1>5, <1>6 DEF WorkerInv

LEMMA CleanStep ==
  ASSUME WorkerInv, NEW c \in Commands, Clean(c) PROVE WorkerInv'
<1>1. WorkerTypeOK'
  BY SMTT(20) DEF Clean, Goto, files, workers, clients, WorkerInv, WorkerTypeOK, Served, Answered, One, Phased, Filed, AnswerIsExpected, PlanSeesOwnFrames, Answers, Calls
<1>2. Served'
  BY SMTT(20) DEF Clean, Goto, files, workers, clients, WorkerInv, WorkerTypeOK, Served, Answered, One, Phased, Filed, AnswerIsExpected, PlanSeesOwnFrames, Answers, Calls
<1>3. Answered'
  BY SMTT(20) DEF Clean, Goto, files, workers, clients, WorkerInv, WorkerTypeOK, Served, Answered, One, Phased, Filed, AnswerIsExpected, PlanSeesOwnFrames, Answers, Calls
<1>4. One'
  BY SMTT(20) DEF Clean, Goto, files, workers, clients, WorkerInv, WorkerTypeOK, Served, Answered, One, Phased, Filed, AnswerIsExpected, PlanSeesOwnFrames, Answers, Calls
<1>5. Phased'
  BY SMTT(20) DEF Clean, Goto, files, workers, clients, WorkerInv, WorkerTypeOK, Served, Answered, One, Phased, Filed, AnswerIsExpected, PlanSeesOwnFrames, Answers, Calls
<1>6. Filed'
  BY SMTT(20) DEF Clean, Goto, files, workers, clients, WorkerInv, WorkerTypeOK, Served, Answered, One, Phased, Filed, AnswerIsExpected, PlanSeesOwnFrames, Answers, Calls
<1> QED BY <1>1, <1>2, <1>3, <1>4, <1>5, <1>6 DEF WorkerInv

LEMMA LaunchStep ==
  ASSUME WorkerInv, NEW c \in Commands, NEW w \in Workers, Launch(c, w) PROVE WorkerInv'
<1>1. WorkerTypeOK'
  <2>1. command[c].name \in Names
    BY DEF Launch, WorkerInv, WorkerTypeOK, Phased
  <2>2. command' \in [Commands -> [at : Places, name : Names \cup {None},
                                  pid : Workers \cup {None}]]
    <3>1. [command[c] EXCEPT !.at = "pid", !.pid = w] \in
            [at : Places, name : Names \cup {None}, pid : Workers \cup {None}]
      <4>1. \A r \in [at : Places, name : Names \cup {None}, pid : Workers \cup {None}] :
              [r EXCEPT !.at = "pid", !.pid = w] \in
                [at : Places, name : Names \cup {None}, pid : Workers \cup {None}]
        BY Zenon
      <4> QED BY <4>1, ZenonT(40) DEF WorkerInv, WorkerTypeOK
    <3>2. command' = [command EXCEPT ![c] = [command[c] EXCEPT !.at = "pid", !.pid = w]]
      BY DEF Launch
    <3> QED BY <3>1, <3>2 DEF WorkerInv, WorkerTypeOK
  <2> QED BY <2>1, <2>2 DEF Launch, files, clients, WorkerInv, WorkerTypeOK
<1>2. Served'
  BY SMTT(20) DEF Launch, files, workers, clients, WorkerInv, WorkerTypeOK, Served, Answered, One, Phased, Filed, AnswerIsExpected, PlanSeesOwnFrames, Answers, Calls
<1>3. Answered'
  BY SMTT(20) DEF Launch, files, workers, clients, WorkerInv, WorkerTypeOK, Served, Answered, One, Phased, Filed, AnswerIsExpected, PlanSeesOwnFrames, Answers, Calls
<1>4. One'
  BY SMTT(20) DEF Launch, files, workers, clients, WorkerInv, WorkerTypeOK, Served, Answered, One, Phased, Filed, AnswerIsExpected, PlanSeesOwnFrames, Answers, Calls
<1>5. Phased'
  BY SMTT(20) DEF Launch, files, workers, clients, WorkerInv, WorkerTypeOK, Served, Answered, One, Phased, Filed, AnswerIsExpected, PlanSeesOwnFrames, Answers, Calls
<1>6. Filed'
  BY SMTT(20) DEF Launch, files, workers, clients, WorkerInv, WorkerTypeOK, Served, Answered, One, Phased, Filed, AnswerIsExpected, PlanSeesOwnFrames, Answers, Calls
<1> QED BY <1>1, <1>2, <1>3, <1>4, <1>5, <1>6 DEF WorkerInv

LEMMA WritePidStep ==
  ASSUME WorkerInv, NEW c \in Commands, WritePid(c) PROVE WorkerInv'
<1>1. WorkerTypeOK'
  BY SMTT(20) DEF WritePid, Goto, files, workers, clients, WorkerInv, WorkerTypeOK, Served, Answered, One, Phased, Filed, AnswerIsExpected, PlanSeesOwnFrames, Answers, Calls
<1>2. Served'
  BY SMTT(20) DEF WritePid, Goto, files, workers, clients, WorkerInv, WorkerTypeOK, Served, Answered, One, Phased, Filed, AnswerIsExpected, PlanSeesOwnFrames, Answers, Calls
<1>3. Answered'
  BY SMTT(20) DEF WritePid, Goto, files, workers, clients, WorkerInv, WorkerTypeOK, Served, Answered, One, Phased, Filed, AnswerIsExpected, PlanSeesOwnFrames, Answers, Calls
<1>4. One'
  BY SMTT(20) DEF WritePid, Goto, files, workers, clients, WorkerInv, WorkerTypeOK, Served, Answered, One, Phased, Filed, AnswerIsExpected, PlanSeesOwnFrames, Answers, Calls
<1>5. Phased'
  BY SMTT(20) DEF WritePid, Goto, files, workers, clients, WorkerInv, WorkerTypeOK, Served, Answered, One, Phased, Filed, AnswerIsExpected, PlanSeesOwnFrames, Answers, Calls
<1>6. Filed'
  BY SMTT(20) DEF WritePid, Goto, files, workers, clients, WorkerInv, WorkerTypeOK, Served, Answered, One, Phased, Filed, AnswerIsExpected, PlanSeesOwnFrames, Answers, Calls
<1> QED BY <1>1, <1>2, <1>3, <1>4, <1>5, <1>6 DEF WorkerInv

LEMMA WriteArtifactsStep ==
  ASSUME WorkerInv, NEW c \in Commands, WriteArtifacts(c) PROVE WorkerInv'
<1>1. WorkerTypeOK'
  BY SMTT(20) DEF WriteArtifacts, Goto, files, workers, clients, WorkerInv, WorkerTypeOK, Served, Answered, One, Phased, Filed, AnswerIsExpected, PlanSeesOwnFrames, Answers, Calls
<1>2. Served'
  BY SMTT(20) DEF WriteArtifacts, Goto, files, workers, clients, WorkerInv, WorkerTypeOK, Served, Answered, One, Phased, Filed, AnswerIsExpected, PlanSeesOwnFrames, Answers, Calls
<1>3. Answered'
  BY SMTT(20) DEF WriteArtifacts, Goto, files, workers, clients, WorkerInv, WorkerTypeOK, Served, Answered, One, Phased, Filed, AnswerIsExpected, PlanSeesOwnFrames, Answers, Calls
<1>4. One'
  BY SMTT(20) DEF WriteArtifacts, Goto, files, workers, clients, WorkerInv, WorkerTypeOK, Served, Answered, One, Phased, Filed, AnswerIsExpected, PlanSeesOwnFrames, Answers, Calls
<1>5. Phased'
  BY SMTT(20) DEF WriteArtifacts, Goto, files, workers, clients, WorkerInv, WorkerTypeOK, Served, Answered, One, Phased, Filed, AnswerIsExpected, PlanSeesOwnFrames, Answers, Calls
<1>6. Filed'
  BY SMTT(20) DEF WriteArtifacts, Goto, files, workers, clients, WorkerInv, WorkerTypeOK, Served, Answered, One, Phased, Filed, AnswerIsExpected, PlanSeesOwnFrames, Answers, Calls
<1> QED BY <1>1, <1>2, <1>3, <1>4, <1>5, <1>6 DEF WorkerInv

LEMMA EndStartStep ==
  ASSUME WorkerInv, NEW c \in Commands, EndStart(c) PROVE WorkerInv'
<1>1. WorkerTypeOK'
  BY SMTT(20) DEF EndStart, Quit, files, workers, clients, WorkerInv, WorkerTypeOK, Served, Answered, One, Phased, Filed, AnswerIsExpected, PlanSeesOwnFrames, Answers, Calls
<1>2. Served'
  BY SMTT(20) DEF EndStart, Quit, files, workers, clients, WorkerInv, WorkerTypeOK, Served, Answered, One, Phased, Filed, AnswerIsExpected, PlanSeesOwnFrames, Answers, Calls
<1>3. Answered'
  BY SMTT(20) DEF EndStart, Quit, files, workers, clients, WorkerInv, WorkerTypeOK, Served, Answered, One, Phased, Filed, AnswerIsExpected, PlanSeesOwnFrames, Answers, Calls
<1>4. One'
  BY SMTT(20) DEF EndStart, Quit, files, workers, clients, WorkerInv, WorkerTypeOK, Served, Answered, One, Phased, Filed, AnswerIsExpected, PlanSeesOwnFrames, Answers, Calls
<1>5. Phased'
  BY SMTT(20) DEF EndStart, Quit, files, workers, clients, WorkerInv, WorkerTypeOK, Served, Answered, One, Phased, Filed, AnswerIsExpected, PlanSeesOwnFrames, Answers, Calls
<1>6. Filed'
  BY SMTT(20) DEF EndStart, Quit, files, workers, clients, WorkerInv, WorkerTypeOK, Served, Answered, One, Phased, Filed, AnswerIsExpected, PlanSeesOwnFrames, Answers, Calls
<1> QED BY <1>1, <1>2, <1>3, <1>4, <1>5, <1>6 DEF WorkerInv

LEMMA StopStoppedStep ==
  ASSUME WorkerInv, NEW c \in Commands, StopStopped(c) PROVE WorkerInv'
<1>1. WorkerTypeOK'
  BY SMTT(20) DEF StopStopped, Disturb, files, workers, clients, WorkerInv, WorkerTypeOK, Served, Answered, One, Phased, Filed, AnswerIsExpected, PlanSeesOwnFrames, Answers, Calls
<1>2. Served'
  BY SMTT(20) DEF StopStopped, Disturb, files, workers, clients, WorkerInv, WorkerTypeOK, Served, Answered, One, Phased, Filed, AnswerIsExpected, PlanSeesOwnFrames, Answers, Calls
<1>3. Answered'
  BY SMTT(20) DEF StopStopped, Disturb, files, workers, clients, WorkerInv, WorkerTypeOK, Served, Answered, One, Phased, Filed, AnswerIsExpected, PlanSeesOwnFrames, Answers, Calls
<1>4. One'
  BY SMTT(20) DEF StopStopped, Disturb, files, workers, clients, WorkerInv, WorkerTypeOK, Served, Answered, One, Phased, Filed, AnswerIsExpected, PlanSeesOwnFrames, Answers, Calls
<1>5. Phased'
  BY SMTT(20) DEF StopStopped, Disturb, files, workers, clients, WorkerInv, WorkerTypeOK, Served, Answered, One, Phased, Filed, AnswerIsExpected, PlanSeesOwnFrames, Answers, Calls
<1>6. Filed'
  BY SMTT(20) DEF StopStopped, Disturb, files, workers, clients, WorkerInv, WorkerTypeOK, Served, Answered, One, Phased, Filed, AnswerIsExpected, PlanSeesOwnFrames, Answers, Calls
<1> QED BY <1>1, <1>2, <1>3, <1>4, <1>5, <1>6 DEF WorkerInv

LEMMA BeginStopStep ==
  ASSUME WorkerInv, NEW c \in Commands, BeginStop(c) PROVE WorkerInv'
<1>a. /\ Enter(c, "kill", None, pidFile)
      /\ UNCHANGED <<manifest, workers, files, clients>>
  BY DEF BeginStop
<1>b. /\ command' \in [Commands -> [at : Places, name : Names \cup {None},
                                    pid : Workers \cup {None}]]
      /\ disturbances' \subseteq {"overlap", "cut", "linger", "reuse"}
      /\ Quiet' => Quiet /\ \A d \in Commands \ {c} : command[d] = Idle
  BY <1>a, Entered DEF WorkerInv, WorkerTypeOK
<1>c. command' = [command EXCEPT ![c] = [at |-> "kill", name |-> None, pid |-> pidFile]]
  BY <1>a DEF Enter
<1>1. WorkerTypeOK'
  BY <1>a, <1>b DEF files, workers, clients, WorkerInv, WorkerTypeOK
<1>2. Served'
  BY SMTT(20) DEF BeginStop, Enter, Disturb, files, workers, clients, WorkerInv, WorkerTypeOK, Served, Answered, One, Phased, Filed, AnswerIsExpected, PlanSeesOwnFrames, Answers, Calls
<1>3. Answered'
  BY SMTT(20) DEF BeginStop, Enter, Disturb, files, workers, clients, WorkerInv, WorkerTypeOK, Served, Answered, One, Phased, Filed, AnswerIsExpected, PlanSeesOwnFrames, Answers, Calls
<1>4. One'
  BY <1>b, <1>c, SMTT(20) DEF WorkerInv, WorkerTypeOK, One
<1>5. Phased'
  BY <1>a, <1>b, <1>c, SMTT(20) DEF BeginStop, files, workers, WorkerInv, WorkerTypeOK, One, Phased, Filed
<1>6. Filed'
  BY SMTT(20) DEF BeginStop, Enter, Disturb, files, workers, clients, WorkerInv, WorkerTypeOK, Served, Answered, One, Phased, Filed, AnswerIsExpected, PlanSeesOwnFrames, Answers, Calls
<1> QED BY <1>1, <1>2, <1>3, <1>4, <1>5, <1>6 DEF WorkerInv

LEMMA KillStep ==
  ASSUME WorkerInv, NEW c \in Commands, Kill(c) PROVE WorkerInv'
<1>1. WorkerTypeOK'
  <2>1. command' \in [Commands -> [at : Places, name : Names \cup {None},
                                  pid : Workers \cup {None}]]
    <3>1. \A at \in Places : [command[c] EXCEPT !.at = at] \in
            [at : Places, name : Names \cup {None}, pid : Workers \cup {None}]
      BY DEF WorkerInv, WorkerTypeOK
    <3>2. command' \in {[command EXCEPT ![c] = Idle]} \cup
                      {[command EXCEPT ![c] = [command[c] EXCEPT !.at = at]] : at \in Places}
      BY DEF Kill, Goto, Quit
    <3> QED BY <3>1, <3>2, SMTT(30) DEF WorkerInv, WorkerTypeOK
  <2>2. life' \in [Workers -> {"none", "loading", "serving", "dying", "dead", "foreign"}]
    BY DEF Kill, WorkerInv, WorkerTypeOK
  <2> QED BY <2>1, <2>2 DEF Kill, files, clients, WorkerInv, WorkerTypeOK
<1>2. Served'
  BY SMTT(20) DEF Kill, Goto, Quit, files, workers, clients, WorkerInv, WorkerTypeOK, Served, Answered, One, Phased, Filed, AnswerIsExpected, PlanSeesOwnFrames, Answers, Calls
<1>3. Answered'
  BY SMTT(20) DEF Kill, Goto, Quit, files, workers, clients, WorkerInv, WorkerTypeOK, Served, Answered, One, Phased, Filed, AnswerIsExpected, PlanSeesOwnFrames, Answers, Calls
<1>4. One'
  BY SMTT(20) DEF Kill, Goto, Quit, files, workers, clients, WorkerInv, WorkerTypeOK, Served, Answered, One, Phased, Filed, AnswerIsExpected, PlanSeesOwnFrames, Answers, Calls
<1>5. Phased'
  <2> DEFINE w == command[c].pid
  <2>1. \A d \in Commands \ {c} : command'[d] = command[d]
    BY DEF Kill, Goto, Quit, WorkerInv, WorkerTypeOK
  <2>2. \A v \in Workers : Live(v)' => Live(v)
    BY DEF Kill, WorkerInv, WorkerTypeOK
  <2>3. \A v \in Workers : life[v] # "none" => life'[v] # "none"
    BY DEF Kill, WorkerInv, WorkerTypeOK
  <2>4. \/ command'[c] = Idle
        \/ command'[c].at = "drain" /\ command'[c].pid = w
        \/ command'[c].at = "remove" /\ ~Alive(w) /\ life' = life
    BY DEF Kill, Goto, Quit, WorkerInv, WorkerTypeOK
  <2>5. Quiet /\ ~Alive(w) => \A v \in Workers : ~Live(v)
    BY SMTT(20) DEF Kill, WorkerInv, WorkerTypeOK, One, Phased, Filed
  <2> QED BY <2>1, <2>2, <2>3, <2>4, <2>5, SMTT(20) DEF Kill, files, WorkerInv, WorkerTypeOK, Phased
<1>6. Filed'
  BY SMTT(20) DEF Kill, Goto, Quit, files, workers, clients, WorkerInv, WorkerTypeOK, Served, Answered, One, Phased, Filed, AnswerIsExpected, PlanSeesOwnFrames, Answers, Calls
<1> QED BY <1>1, <1>2, <1>3, <1>4, <1>5, <1>6 DEF WorkerInv

LEMMA DrainStep ==
  ASSUME WorkerInv, NEW c \in Commands, Drain(c) PROVE WorkerInv'
<1>1. WorkerTypeOK'
  BY SMTT(20) DEF Drain, Goto, Disturb, files, workers, clients, WorkerInv, WorkerTypeOK, Served, Answered, One, Phased, Filed, AnswerIsExpected, PlanSeesOwnFrames, Answers, Calls
<1>2. Served'
  BY SMTT(20) DEF Drain, Goto, Disturb, files, workers, clients, WorkerInv, WorkerTypeOK, Served, Answered, One, Phased, Filed, AnswerIsExpected, PlanSeesOwnFrames, Answers, Calls
<1>3. Answered'
  BY SMTT(20) DEF Drain, Goto, Disturb, files, workers, clients, WorkerInv, WorkerTypeOK, Served, Answered, One, Phased, Filed, AnswerIsExpected, PlanSeesOwnFrames, Answers, Calls
<1>4. One'
  BY SMTT(20) DEF Drain, Goto, Disturb, files, workers, clients, WorkerInv, WorkerTypeOK, Served, Answered, One, Phased, Filed, AnswerIsExpected, PlanSeesOwnFrames, Answers, Calls
<1>5. Phased'
  <2>1. \A d \in Commands \ {c} : command'[d] = command[d]
    BY DEF Drain, Goto, WorkerInv, WorkerTypeOK
  <2>2. command'[c].at = "remove"
    BY DEF Drain, Goto, WorkerInv, WorkerTypeOK
  <2>3. Quiet' => Quiet /\ ~Alive(command[c].pid)
    BY DEF Drain, Disturb, WorkerInv, WorkerTypeOK
  <2>4. Quiet' => \A v \in Workers : ~Live(v)
    BY <2>3, SMTT(20) DEF Drain, WorkerInv, WorkerTypeOK, One, Phased, Filed
  <2> QED BY <2>1, <2>2, <2>3, <2>4, SMTT(20) DEF Drain, files, workers, WorkerInv, WorkerTypeOK, Phased
<1>6. Filed'
  BY SMTT(20) DEF Drain, Goto, Disturb, files, workers, clients, WorkerInv, WorkerTypeOK, Served, Answered, One, Phased, Filed, AnswerIsExpected, PlanSeesOwnFrames, Answers, Calls
<1> QED BY <1>1, <1>2, <1>3, <1>4, <1>5, <1>6 DEF WorkerInv

LEMMA RemoveStep ==
  ASSUME WorkerInv, NEW c \in Commands, Remove(c) PROVE WorkerInv'
<1>1. WorkerTypeOK'
  BY SMTT(20) DEF Remove, Quit, files, workers, clients, WorkerInv, WorkerTypeOK, Served, Answered, One, Phased, Filed, AnswerIsExpected, PlanSeesOwnFrames, Answers, Calls
<1>2. Served'
  BY SMTT(20) DEF Remove, Quit, files, workers, clients, WorkerInv, WorkerTypeOK, Served, Answered, One, Phased, Filed, AnswerIsExpected, PlanSeesOwnFrames, Answers, Calls
<1>3. Answered'
  BY SMTT(20) DEF Remove, Quit, files, workers, clients, WorkerInv, WorkerTypeOK, Served, Answered, One, Phased, Filed, AnswerIsExpected, PlanSeesOwnFrames, Answers, Calls
<1>4. One'
  BY SMTT(20) DEF Remove, Quit, files, workers, clients, WorkerInv, WorkerTypeOK, Served, Answered, One, Phased, Filed, AnswerIsExpected, PlanSeesOwnFrames, Answers, Calls
<1>5. Phased'
  BY SMTT(20) DEF Remove, Quit, files, workers, clients, WorkerInv, WorkerTypeOK, Served, Answered, One, Phased, Filed, AnswerIsExpected, PlanSeesOwnFrames, Answers, Calls
<1>6. Filed'
  BY SMTT(20) DEF Remove, Quit, files, workers, clients, WorkerInv, WorkerTypeOK, Served, Answered, One, Phased, Filed, AnswerIsExpected, PlanSeesOwnFrames, Answers, Calls
<1> QED BY <1>1, <1>2, <1>3, <1>4, <1>5, <1>6 DEF WorkerInv

LEMMA CutOffStep ==
  ASSUME WorkerInv, NEW c \in Commands, CutOff(c) PROVE WorkerInv'
<1>1. WorkerTypeOK'
  BY SMTT(20) DEF CutOff, Quit, Disturb, files, workers, clients, WorkerInv, WorkerTypeOK, Served, Answered, One, Phased, Filed, AnswerIsExpected, PlanSeesOwnFrames, Answers, Calls
<1>2. Served'
  BY SMTT(20) DEF CutOff, Quit, Disturb, files, workers, clients, WorkerInv, WorkerTypeOK, Served, Answered, One, Phased, Filed, AnswerIsExpected, PlanSeesOwnFrames, Answers, Calls
<1>3. Answered'
  BY SMTT(20) DEF CutOff, Quit, Disturb, files, workers, clients, WorkerInv, WorkerTypeOK, Served, Answered, One, Phased, Filed, AnswerIsExpected, PlanSeesOwnFrames, Answers, Calls
<1>4. One'
  BY SMTT(20) DEF CutOff, Quit, Disturb, files, workers, clients, WorkerInv, WorkerTypeOK, Served, Answered, One, Phased, Filed, AnswerIsExpected, PlanSeesOwnFrames, Answers, Calls
<1>5. Phased'
  BY SMTT(20) DEF CutOff, Quit, Disturb, files, workers, clients, WorkerInv, WorkerTypeOK, Served, Answered, One, Phased, Filed, AnswerIsExpected, PlanSeesOwnFrames, Answers, Calls
<1>6. Filed'
  BY SMTT(20) DEF CutOff, Quit, Disturb, files, workers, clients, WorkerInv, WorkerTypeOK, Served, Answered, One, Phased, Filed, AnswerIsExpected, PlanSeesOwnFrames, Answers, Calls
<1> QED BY <1>1, <1>2, <1>3, <1>4, <1>5, <1>6 DEF WorkerInv

LEMMA LoadStep ==
  ASSUME WorkerInv, NEW w \in Workers, Load(w) PROVE WorkerInv'
<1>1. WorkerTypeOK'
  BY SMTT(20) DEF Load, Artifacts, files, workers, clients, WorkerInv, WorkerTypeOK, Served, Answered, One, Phased, Filed, AnswerIsExpected, PlanSeesOwnFrames, Answers, Calls
<1>2. Served'
  BY SMTT(20) DEF Load, Artifacts, files, workers, clients, WorkerInv, WorkerTypeOK, Served, Answered, One, Phased, Filed, AnswerIsExpected, PlanSeesOwnFrames, Answers, Calls
<1>3. Answered'
  BY SMTT(20) DEF Load, Artifacts, files, workers, clients, WorkerInv, WorkerTypeOK, Served, Answered, One, Phased, Filed, AnswerIsExpected, PlanSeesOwnFrames, Answers, Calls
<1>4. One'
  BY SMTT(20) DEF Load, Artifacts, files, workers, clients, WorkerInv, WorkerTypeOK, Served, Answered, One, Phased, Filed, AnswerIsExpected, PlanSeesOwnFrames, Answers, Calls
<1>5. Phased'
  BY SMTT(20) DEF Load, Artifacts, files, workers, clients, WorkerInv, WorkerTypeOK, Served, Answered, One, Phased, Filed, AnswerIsExpected, PlanSeesOwnFrames, Answers, Calls
<1>6. Filed'
  BY SMTT(20) DEF Load, Artifacts, files, workers, clients, WorkerInv, WorkerTypeOK, Served, Answered, One, Phased, Filed, AnswerIsExpected, PlanSeesOwnFrames, Answers, Calls
<1> QED BY <1>1, <1>2, <1>3, <1>4, <1>5, <1>6 DEF WorkerInv

LEMMA BindStep ==
  ASSUME WorkerInv, NEW w \in Workers, Bind(w) PROVE WorkerInv'
<1>1. WorkerTypeOK'
  BY SMTT(20) DEF Bind, files, workers, clients, WorkerInv, WorkerTypeOK, Served, Answered, One, Phased, Filed, AnswerIsExpected, PlanSeesOwnFrames, Answers, Calls
<1>2. Served'
  BY SMTT(20) DEF Bind, files, workers, clients, WorkerInv, WorkerTypeOK, Served, Answered, One, Phased, Filed, AnswerIsExpected, PlanSeesOwnFrames, Answers, Calls
<1>3. Answered'
  BY SMTT(20) DEF Bind, files, workers, clients, WorkerInv, WorkerTypeOK, Served, Answered, One, Phased, Filed, AnswerIsExpected, PlanSeesOwnFrames, Answers, Calls
<1>4. One'
  BY SMTT(20) DEF Bind, files, workers, clients, WorkerInv, WorkerTypeOK, Served, Answered, One, Phased, Filed, AnswerIsExpected, PlanSeesOwnFrames, Answers, Calls
<1>5. Phased'
  BY SMTT(20) DEF Bind, files, workers, clients, WorkerInv, WorkerTypeOK, Served, Answered, One, Phased, Filed, AnswerIsExpected, PlanSeesOwnFrames, Answers, Calls
<1>6. Filed'
  BY SMTT(20) DEF Bind, files, workers, clients, WorkerInv, WorkerTypeOK, Served, Answered, One, Phased, Filed, AnswerIsExpected, PlanSeesOwnFrames, Answers, Calls
<1> QED BY <1>1, <1>2, <1>3, <1>4, <1>5, <1>6 DEF WorkerInv

LEMMA DieStep ==
  ASSUME WorkerInv, NEW w \in Workers, Die(w) PROVE WorkerInv'
<1>1. WorkerTypeOK'
  BY SMTT(20) DEF Die, files, workers, clients, WorkerInv, WorkerTypeOK, Served, Answered, One, Phased, Filed, AnswerIsExpected, PlanSeesOwnFrames, Answers, Calls
<1>2. Served'
  BY SMTT(20) DEF Die, files, workers, clients, WorkerInv, WorkerTypeOK, Served, Answered, One, Phased, Filed, AnswerIsExpected, PlanSeesOwnFrames, Answers, Calls
<1>3. Answered'
  BY SMTT(20) DEF Die, files, workers, clients, WorkerInv, WorkerTypeOK, Served, Answered, One, Phased, Filed, AnswerIsExpected, PlanSeesOwnFrames, Answers, Calls
<1>4. One'
  BY SMTT(20) DEF Die, files, workers, clients, WorkerInv, WorkerTypeOK, Served, Answered, One, Phased, Filed, AnswerIsExpected, PlanSeesOwnFrames, Answers, Calls
<1>5. Phased'
  BY SMTT(20) DEF Die, files, workers, clients, WorkerInv, WorkerTypeOK, Served, Answered, One, Phased, Filed, AnswerIsExpected, PlanSeesOwnFrames, Answers, Calls
<1>6. Filed'
  BY SMTT(20) DEF Die, files, workers, clients, WorkerInv, WorkerTypeOK, Served, Answered, One, Phased, Filed, AnswerIsExpected, PlanSeesOwnFrames, Answers, Calls
<1> QED BY <1>1, <1>2, <1>3, <1>4, <1>5, <1>6 DEF WorkerInv

LEMMA ReusePidStep ==
  ASSUME WorkerInv, NEW w \in Workers, ReusePid(w) PROVE WorkerInv'
<1>1. WorkerTypeOK'
  BY SMTT(20) DEF ReusePid, Disturb, files, workers, clients, WorkerInv, WorkerTypeOK, Served, Answered, One, Phased, Filed, AnswerIsExpected, PlanSeesOwnFrames, Answers, Calls
<1>2. Served'
  BY SMTT(20) DEF ReusePid, Disturb, files, workers, clients, WorkerInv, WorkerTypeOK, Served, Answered, One, Phased, Filed, AnswerIsExpected, PlanSeesOwnFrames, Answers, Calls
<1>3. Answered'
  BY SMTT(20) DEF ReusePid, Disturb, files, workers, clients, WorkerInv, WorkerTypeOK, Served, Answered, One, Phased, Filed, AnswerIsExpected, PlanSeesOwnFrames, Answers, Calls
<1>4. One'
  BY SMTT(20) DEF ReusePid, Disturb, files, workers, clients, WorkerInv, WorkerTypeOK, Served, Answered, One, Phased, Filed, AnswerIsExpected, PlanSeesOwnFrames, Answers, Calls
<1>5. Phased'
  BY SMTT(20) DEF ReusePid, Disturb, files, workers, clients, WorkerInv, WorkerTypeOK, Served, Answered, One, Phased, Filed, AnswerIsExpected, PlanSeesOwnFrames, Answers, Calls
<1>6. Filed'
  BY SMTT(20) DEF ReusePid, Disturb, files, workers, clients, WorkerInv, WorkerTypeOK, Served, Answered, One, Phased, Filed, AnswerIsExpected, PlanSeesOwnFrames, Answers, Calls
<1> QED BY <1>1, <1>2, <1>3, <1>4, <1>5, <1>6 DEF WorkerInv

LEMMA RequestDirectStep ==
  ASSUME WorkerInv, NEW s \in Sessions, RequestDirect(s) PROVE WorkerInv'
<1>1. WorkerTypeOK'
  BY SMTT(20) DEF RequestDirect, files, workers, clients, WorkerInv, WorkerTypeOK, Served, Answered, One, Phased, Filed, AnswerIsExpected, PlanSeesOwnFrames, Answers, Calls
<1>2. Served'
  BY SMTT(20) DEF RequestDirect, files, workers, clients, WorkerInv, WorkerTypeOK, Served, Answered, One, Phased, Filed, AnswerIsExpected, PlanSeesOwnFrames, Answers, Calls
<1>3. Answered'
  BY SMTT(20) DEF RequestDirect, files, workers, clients, WorkerInv, WorkerTypeOK, Served, Answered, One, Phased, Filed, AnswerIsExpected, PlanSeesOwnFrames, Answers, Calls
<1>4. One'
  BY SMTT(20) DEF RequestDirect, files, workers, clients, WorkerInv, WorkerTypeOK, Served, Answered, One, Phased, Filed, AnswerIsExpected, PlanSeesOwnFrames, Answers, Calls
<1>5. Phased'
  BY SMTT(20) DEF RequestDirect, files, workers, clients, WorkerInv, WorkerTypeOK, Served, Answered, One, Phased, Filed, AnswerIsExpected, PlanSeesOwnFrames, Answers, Calls
<1>6. Filed'
  BY SMTT(20) DEF RequestDirect, files, workers, clients, WorkerInv, WorkerTypeOK, Served, Answered, One, Phased, Filed, AnswerIsExpected, PlanSeesOwnFrames, Answers, Calls
<1> QED BY <1>1, <1>2, <1>3, <1>4, <1>5, <1>6 DEF WorkerInv

LEMMA RequestShadowStep ==
  ASSUME WorkerInv, NEW s \in Sessions, RequestShadow(s) PROVE WorkerInv'
<1>1. WorkerTypeOK'
  BY SMTT(20) DEF RequestShadow, Artifacts, files, workers, clients, WorkerInv, WorkerTypeOK, Served, Answered, One, Phased, Filed, AnswerIsExpected, PlanSeesOwnFrames, Answers, Calls
<1>2. Served'
  BY SMTT(20) DEF RequestShadow, Artifacts, files, workers, clients, WorkerInv, WorkerTypeOK, Served, Answered, One, Phased, Filed, AnswerIsExpected, PlanSeesOwnFrames, Answers, Calls
<1>3. Answered'
  BY SMTT(20) DEF RequestShadow, Artifacts, files, workers, clients, WorkerInv, WorkerTypeOK, Served, Answered, One, Phased, Filed, AnswerIsExpected, PlanSeesOwnFrames, Answers, Calls
<1>4. One'
  BY SMTT(20) DEF RequestShadow, Artifacts, files, workers, clients, WorkerInv, WorkerTypeOK, Served, Answered, One, Phased, Filed, AnswerIsExpected, PlanSeesOwnFrames, Answers, Calls
<1>5. Phased'
  BY SMTT(20) DEF RequestShadow, Artifacts, files, workers, clients, WorkerInv, WorkerTypeOK, Served, Answered, One, Phased, Filed, AnswerIsExpected, PlanSeesOwnFrames, Answers, Calls
<1>6. Filed'
  BY SMTT(20) DEF RequestShadow, Artifacts, files, workers, clients, WorkerInv, WorkerTypeOK, Served, Answered, One, Phased, Filed, AnswerIsExpected, PlanSeesOwnFrames, Answers, Calls
<1> QED BY <1>1, <1>2, <1>3, <1>4, <1>5, <1>6 DEF WorkerInv

LEMMA ConnectStep ==
  ASSUME WorkerInv, NEW s \in Sessions, Connect(s) PROVE WorkerInv'
<1>1. WorkerTypeOK'
  <2>1. [call[s] EXCEPT !.at = "sent", !.worker = socket] \in Calls
    <3>1. \A r \in Calls, w \in Workers : [r EXCEPT !.at = "sent", !.worker = w] \in Calls
      BY Zenon DEF Calls
    <3> QED BY <3>1 DEF Connect, WorkerInv, WorkerTypeOK
  <2>2. call' = [call EXCEPT ![s] = [call[s] EXCEPT !.at = "sent", !.worker = socket]]
    BY DEF Connect
  <2>3. call' \in [Sessions -> Calls \cup {None}]
    BY <2>1, <2>2 DEF WorkerInv, WorkerTypeOK
  <2> QED BY <2>3 DEF Connect, files, workers, WorkerInv, WorkerTypeOK
<1>2. Served'
  BY SMTT(20) DEF Connect, files, workers, clients, WorkerInv, WorkerTypeOK, Served, Answered, One, Phased, Filed, AnswerIsExpected, PlanSeesOwnFrames, Answers, Calls
<1>3. Answered'
  BY SMTT(20) DEF Connect, files, workers, clients, WorkerInv, WorkerTypeOK, Served, Answered, One, Phased, Filed, AnswerIsExpected, PlanSeesOwnFrames, Answers, Calls
<1>4. One'
  BY SMTT(20) DEF Connect, files, workers, clients, WorkerInv, WorkerTypeOK, Served, Answered, One, Phased, Filed, AnswerIsExpected, PlanSeesOwnFrames, Answers, Calls
<1>5. Phased'
  BY SMTT(20) DEF Connect, files, workers, clients, WorkerInv, WorkerTypeOK, Served, Answered, One, Phased, Filed, AnswerIsExpected, PlanSeesOwnFrames, Answers, Calls
<1>6. Filed'
  BY SMTT(20) DEF Connect, files, workers, clients, WorkerInv, WorkerTypeOK, Served, Answered, One, Phased, Filed, AnswerIsExpected, PlanSeesOwnFrames, Answers, Calls
<1> QED BY <1>1, <1>2, <1>3, <1>4, <1>5, <1>6 DEF WorkerInv

LEMMA CallFailsStep ==
  ASSUME WorkerInv, NEW s \in Sessions, CallFails(s) PROVE WorkerInv'
<1>1. WorkerTypeOK'
  BY SMTT(20) DEF CallFails, files, workers, clients, WorkerInv, WorkerTypeOK, Served, Answered, One, Phased, Filed, AnswerIsExpected, PlanSeesOwnFrames, Answers, Calls
<1>2. Served'
  BY SMTT(20) DEF CallFails, files, workers, clients, WorkerInv, WorkerTypeOK, Served, Answered, One, Phased, Filed, AnswerIsExpected, PlanSeesOwnFrames, Answers, Calls
<1>3. Answered'
  BY SMTT(20) DEF CallFails, files, workers, clients, WorkerInv, WorkerTypeOK, Served, Answered, One, Phased, Filed, AnswerIsExpected, PlanSeesOwnFrames, Answers, Calls
<1>4. One'
  BY SMTT(20) DEF CallFails, files, workers, clients, WorkerInv, WorkerTypeOK, Served, Answered, One, Phased, Filed, AnswerIsExpected, PlanSeesOwnFrames, Answers, Calls
<1>5. Phased'
  BY SMTT(20) DEF CallFails, files, workers, clients, WorkerInv, WorkerTypeOK, Served, Answered, One, Phased, Filed, AnswerIsExpected, PlanSeesOwnFrames, Answers, Calls
<1>6. Filed'
  BY SMTT(20) DEF CallFails, files, workers, clients, WorkerInv, WorkerTypeOK, Served, Answered, One, Phased, Filed, AnswerIsExpected, PlanSeesOwnFrames, Answers, Calls
<1> QED BY <1>1, <1>2, <1>3, <1>4, <1>5, <1>6 DEF WorkerInv

LEMMA PredictStep ==
  ASSUME WorkerInv, NEW s \in Sessions, NEW w \in Workers, Predict(s, w) PROVE WorkerInv'
<1>1. WorkerTypeOK'
  BY SMTT(20) DEF Predict, Receives, Answer, Artifacts, files, workers, clients, WorkerInv, WorkerTypeOK, Served, Answered, One, Phased, Filed, AnswerIsExpected, PlanSeesOwnFrames, Answers, Calls
<1>2. Served'
  BY SMTT(20) DEF Predict, Receives, Answer, Artifacts, files, workers, clients, WorkerInv, WorkerTypeOK, Served, Answered, One, Phased, Filed, AnswerIsExpected, PlanSeesOwnFrames, Answers, Calls
<1>3. Answered'
  BY SMTT(20) DEF Predict, Receives, Answer, Artifacts, files, workers, clients, WorkerInv, WorkerTypeOK, Served, Answered, One, Phased, Filed, AnswerIsExpected, PlanSeesOwnFrames, Answers, Calls
<1>4. One'
  BY SMTT(20) DEF Predict, Receives, Answer, Artifacts, files, workers, clients, WorkerInv, WorkerTypeOK, Served, Answered, One, Phased, Filed, AnswerIsExpected, PlanSeesOwnFrames, Answers, Calls
<1>5. Phased'
  BY SMTT(20) DEF Predict, Receives, Answer, Artifacts, files, workers, clients, WorkerInv, WorkerTypeOK, Served, Answered, One, Phased, Filed, AnswerIsExpected, PlanSeesOwnFrames, Answers, Calls
<1>6. Filed'
  BY SMTT(20) DEF Predict, Receives, Answer, Artifacts, files, workers, clients, WorkerInv, WorkerTypeOK, Served, Answered, One, Phased, Filed, AnswerIsExpected, PlanSeesOwnFrames, Answers, Calls
<1> QED BY <1>1, <1>2, <1>3, <1>4, <1>5, <1>6 DEF WorkerInv

LEMMA plan_shadowStep ==
  ASSUME WorkerInv, NEW s \in Sessions, NEW w \in Workers, plan_shadow(s, w) PROVE WorkerInv'
<1>1. WorkerTypeOK'
  BY SMTT(20) DEF plan_shadow, Receives, CacheHits, Answer, Artifacts, files, workers, clients, WorkerInv, WorkerTypeOK, Served, Answered, One, Phased, Filed, AnswerIsExpected, PlanSeesOwnFrames, Answers, Calls
<1>2. Served'
  BY SMTT(20) DEF plan_shadow, Receives, CacheHits, Answer, Artifacts, files, workers, clients, WorkerInv, WorkerTypeOK, Served, Answered, One, Phased, Filed, AnswerIsExpected, PlanSeesOwnFrames, Answers, Calls
<1>3. Answered'
  BY SMTT(20) DEF plan_shadow, Receives, CacheHits, Answer, Artifacts, files, workers, clients, WorkerInv, WorkerTypeOK, Served, Answered, One, Phased, Filed, AnswerIsExpected, PlanSeesOwnFrames, Answers, Calls
<1>4. One'
  BY SMTT(20) DEF plan_shadow, Receives, CacheHits, Answer, Artifacts, files, workers, clients, WorkerInv, WorkerTypeOK, Served, Answered, One, Phased, Filed, AnswerIsExpected, PlanSeesOwnFrames, Answers, Calls
<1>5. Phased'
  BY SMTT(20) DEF plan_shadow, Receives, CacheHits, Answer, Artifacts, files, workers, clients, WorkerInv, WorkerTypeOK, Served, Answered, One, Phased, Filed, AnswerIsExpected, PlanSeesOwnFrames, Answers, Calls
<1>6. Filed'
  BY SMTT(20) DEF plan_shadow, Receives, CacheHits, Answer, Artifacts, files, workers, clients, WorkerInv, WorkerTypeOK, Served, Answered, One, Phased, Filed, AnswerIsExpected, PlanSeesOwnFrames, Answers, Calls
<1> QED BY <1>1, <1>2, <1>3, <1>4, <1>5, <1>6 DEF WorkerInv

-----------------------------------------------------------------------------
LEMMA WorkerStep == WorkerInv /\ [WorkerNext]_workerVars => WorkerInv'
  BY WorkerStutterStep, ConfigureStep, BeginStartStep, CleanStep, LaunchStep, WritePidStep, WriteArtifactsStep, EndStartStep, StopStoppedStep, BeginStopStep, KillStep, DrainStep, RemoveStep, CutOffStep, LoadStep, BindStep, DieStep, ReusePidStep, RequestDirectStep, RequestShadowStep, ConnectStep, CallFailsStep, PredictStep, plan_shadowStep
     DEF WorkerNext

LEMMA WorkerInvariance == WorkerSpec => []WorkerInv
  BY WorkerInitInvariant, WorkerStep, PTL DEF WorkerSpec

\* Every variable keeps the shape the code gives it.
THEOREM WorkerTypeCorrect == WorkerSpec => []WorkerTypeOK
  BY WorkerInvariance, PTL DEF WorkerInv

\* Responses and plans come from a worker with the expected proposal, whatever
\* the commands and the crashes did to the files.
THEOREM Expected == WorkerSpec => []AnswerIsExpected
  BY WorkerInvariance, PTL DEF WorkerInv, Answered

\* A plan is scored on the frames of its own observation.
THEOREM OwnFrames == WorkerSpec => []PlanSeesOwnFrames
  BY WorkerInvariance, PTL DEF WorkerInv, Answered

\* Commands that take turns lose no worker.
THEOREM WorkersAreFound == WorkerSpec => []NoOrphan
<1>1. WorkerInv => NoOrphan
  BY DEF WorkerInv, WorkerTypeOK, Filed, NoOrphan
<1> QED BY <1>1, WorkerInvariance, PTL

\* What status calls ready is one process started with the manifest named.
THEOREM ReadyIsReady == WorkerSpec => []ReadyIsTrue
<1>1. WorkerInv => ReadyIsTrue
  BY DEF WorkerInv, WorkerTypeOK, Phased, Filed, ReadyIsTrue
<1> QED BY <1>1, WorkerInvariance, PTL
=============================================================================
