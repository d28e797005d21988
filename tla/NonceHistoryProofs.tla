------------------------ MODULE NonceHistoryProofs -------------------------
(***************************************************************************)
(* Theorems about NonceHistory for any number of preflights, nonces and    *)
(* semantics, any limit of the history and any number of crashes.  That    *)
(* one of the claimants runs is not inductive: one has to know that the    *)
(* claim of a nonce is still the one its run created unless an entry of    *)
(* the nonce was removed, hence who removes a claim, and that the facts    *)
(* about other processes that a file speaks of are never undone.           *)
(* What was superseded, and how many entries there are, is an argument     *)
(* about who has yet to list the history, and what it will find there.     *)
(***************************************************************************)
EXTENDS NonceHistory, FiniteSetTheorems, WellFoundedInduction, TLAPS

-----------------------------------------------------------------------------
(* The inductive invariant.                                                *)

BeforeEntry ==
  {"IDLE", "CLAIM", "OPEN", "FILL_CLAIM", "READ_CLAIM", "WAIT", "REPLAY", "REPLAY_READ",
   "RUN", "WRITE", "WRITE_READ", "CREATE_ENTRY"}
Trimming == {"TRIM", "TRIM_ENTRY", "TRIM_CLAIM", "TRIM_RESULT"}
Completing == {"COMPLETE", "CREATE_RESULT", "FILL_RESULT", "CHMOD_RESULT"}

OnRecord(p) == entries[p].file \in {"WRITTEN", "GONE"}

\* The entry of p is as far as p is.
EntryInv(p) ==
  /\ procs[p].stage \in BeforeEntry => entries[p].file = "NONE"
  /\ procs[p].stage = "FILL_ENTRY" => entries[p].file # "NONE"
  /\ procs[p].stage \in Trimming \cup Completing => OnRecord(p)
  /\ entries[p].at <= clock

\* Until an entry of its nonce is removed, who created the claim has it.
ClaimInv(p) ==
  /\ procs[p].stage # "IDLE" => Nonce(p) \in Nonces
  /\ procs[p].stage = "IDLE" => ~procs[p].claimed
  /\ procs[p].stage \in Completing => procs[p].claimed
  /\ procs[p].stage = "FILL_CLAIM" \/ procs[p].claimed =>
       Released(Nonce(p)) \/ claims[Nonce(p)].by = p

\* Who removes a claim has removed the entry first.
TrimInv(p) ==
  /\ procs[p].stage \in {"TRIM_ENTRY", "TRIM_CLAIM", "TRIM_RESULT"} => procs[p].target \in Procs
  /\ procs[p].stage \in {"TRIM_CLAIM", "TRIM_RESULT"} => entries[procs[p].target].file = "GONE"

\* The receipt that p replays is on record, with the nonce p asked for.
SourceOK(p) ==
  LET e == procs[p].source
  IN  e \in Procs /\ procs[e].claimed /\ Nonce(e) = Nonce(p)
        /\ procs[e].sem = procs[p].sem /\ OnRecord(e)

SourceInv(p) ==
  /\ procs[p].answer # "NONE" => procs[p].stage = "DONE"
  /\ procs[p].stage \in {"REPLAY", "REPLAY_READ"} => SourceOK(p)
  /\ procs[p].answer = "REPLAYED" => SourceOK(p) /\ Lasting(procs[p].source)

ProcInv(p) == EntryInv(p) /\ ClaimInv(p) /\ TrimInv(p) /\ SourceInv(p)

\* No file, no creator; a result is made by a run that is on record.
ClaimFileInv(n) == claims[n].file = "NONE" => claims[n].by = Nobody

ResultInv(n) ==
  results[n].file # "NONE" =>
    LET p == results[n].by
    IN  p \in Procs /\ procs[p].claimed /\ Nonce(p) = n /\ OnRecord(p)

IInv ==
  /\ TypeOK
  /\ \A p \in Procs : ProcInv(p)
  /\ \A n \in Nonces : ClaimFileInv(n) /\ ResultInv(n)

-----------------------------------------------------------------------------
(* Types.                                                                  *)

LEMMA NobodyIsNone == Nobody \notin Procs
BY NonceHistoryAssumption DEF NonceHistoryAssumption, Nobody, Procs

\* What the steps that end a preflight, or only move it, leave of it.
LEMMA EndsMoves ==
  ASSUME TypeOK, NEW p \in Procs, NEW a \in Answers, Ends(p, a)
  PROVE  /\ procs' \in [Procs -> Proc]
         /\ \A q \in Procs \ {p} : procs'[q] = procs[q]
         /\ procs'[p].stage = "DONE" /\ procs'[p].answer = a
         /\ procs'[p].nonce = procs[p].nonce /\ procs'[p].sem = procs[p].sem
         /\ procs'[p].claimed = procs[p].claimed /\ procs'[p].source = procs[p].source
         /\ procs'[p].earlier = procs[p].earlier
<1> DEFINE proc == [procs[p] EXCEPT !.stage = "DONE", !.answer = a,
                                    !.listed = {}, !.target = Nobody, !.todo = {}]
<1>1. procs' = [procs EXCEPT ![p] = proc]
  BY DEF Ends
<1>2. procs[p] \in Proc
  BY DEF TypeOK
<1>3. proc \in Proc
  BY <1>2 DEF Proc, Stages
<1>4. /\ proc.stage = "DONE" /\ proc.answer = a
      /\ proc.nonce = procs[p].nonce /\ proc.sem = procs[p].sem
      /\ proc.claimed = procs[p].claimed /\ proc.source = procs[p].source
      /\ proc.earlier = procs[p].earlier
  BY <1>2 DEF Proc
<1> HIDE DEF proc
<1> QED
  BY <1>1, <1>3, <1>4 DEF TypeOK

LEMMA GoToMoves ==
  ASSUME TypeOK, NEW p \in Procs, NEW s \in Stages, GoTo(p, s)
  PROVE  /\ procs' \in [Procs -> Proc]
         /\ \A q \in Procs \ {p} : procs'[q] = procs[q]
         /\ procs'[p].stage = s /\ procs'[p].answer = procs[p].answer
         /\ procs'[p].nonce = procs[p].nonce /\ procs'[p].sem = procs[p].sem
         /\ procs'[p].claimed = procs[p].claimed /\ procs'[p].source = procs[p].source
         /\ procs'[p].target = procs[p].target /\ procs'[p].todo = procs[p].todo
         /\ procs'[p].earlier = procs[p].earlier
<1> DEFINE proc == [procs[p] EXCEPT !.stage = s]
<1>1. procs[p] \in Proc
  BY DEF TypeOK
<1>2. procs' = [procs EXCEPT ![p] = proc]
  BY DEF GoTo
<1>3. proc \in Proc
  BY <1>1 DEF Proc
<1>4. /\ proc.stage = s /\ proc.answer = procs[p].answer
      /\ proc.nonce = procs[p].nonce /\ proc.sem = procs[p].sem
      /\ proc.claimed = procs[p].claimed /\ proc.source = procs[p].source
      /\ proc.target = procs[p].target /\ proc.todo = procs[p].todo
      /\ proc.earlier = procs[p].earlier
  BY <1>1 DEF Proc
<1> HIDE DEF proc
<1> QED
  BY <1>2, <1>3, <1>4 DEF TypeOK

\* The record that stands for p after a step that changes it to proc.
LEMMA Becomes ==
  ASSUME TypeOK, NEW p \in Procs, NEW proc \in Proc, procs' = [procs EXCEPT ![p] = proc]
  PROVE  /\ procs' \in [Procs -> Proc]
         /\ \A q \in Procs \ {p} : procs'[q] = procs[q]
         /\ procs'[p] = proc
BY DEF TypeOK

LEMMA ListMoves ==
  ASSUME TypeOK, NEW p \in Procs, NEW s \in Stages, ListHistory(p, s)
  PROVE  /\ procs' \in [Procs -> Proc]
         /\ \A q \in Procs \ {p} : procs'[q] = procs[q]
         /\ procs'[p].stage = s /\ procs'[p].answer = procs[p].answer
         /\ procs'[p].nonce = procs[p].nonce /\ procs'[p].sem = procs[p].sem
         /\ procs'[p].claimed = procs[p].claimed /\ procs'[p].source = procs[p].source
         /\ procs'[p].target = procs[p].target /\ procs'[p].earlier = procs[p].earlier
         /\ procs'[p].listed = Newest({q \in Procs : Exists(q)}, Retention)
<1> DEFINE E == Newest({q \in Procs : Exists(q)}, Retention)
           proc == [procs[p] EXCEPT !.stage = s, !.listed = E]
<1>1. procs' = [procs EXCEPT ![p] = proc]
  BY DEF ListHistory
<1>2. procs[p] \in Proc
  BY DEF TypeOK
<1>3. E \in SUBSET Procs
  BY DEF Newest
<1> HIDE DEF E
<1>4. proc \in Proc
  BY <1>2, <1>3 DEF Proc
<1>5. /\ proc.stage = s /\ proc.answer = procs[p].answer
      /\ proc.nonce = procs[p].nonce /\ proc.sem = procs[p].sem
      /\ proc.claimed = procs[p].claimed /\ proc.source = procs[p].source
      /\ proc.target = procs[p].target /\ proc.earlier = procs[p].earlier /\ proc.listed = E
  BY <1>2 DEF Proc
<1> HIDE DEF proc
<1> QED
  BY <1>1, <1>4, <1>5, Becomes DEF E

\* The record of p after a step that changes its stage, its target and the
\* names that follow, as retirement does.
LEMMA RetiresMoves ==
  ASSUME TypeOK, NEW p \in Procs, NEW todo \in SUBSET Procs, Retires(p, todo)
  PROVE  /\ procs' \in [Procs -> Proc]
         /\ \A q \in Procs \ {p} : procs'[q] = procs[q]
         /\ procs'[p].nonce = procs[p].nonce /\ procs'[p].sem = procs[p].sem
         /\ procs'[p].claimed = procs[p].claimed /\ procs'[p].source = procs[p].source
         /\ procs'[p].earlier = procs[p].earlier
         /\ \/ /\ procs'[p].stage = "TRIM_ENTRY" /\ procs'[p].answer = procs[p].answer
               /\ procs'[p].target \in Procs
               /\ todo = procs'[p].todo \cup {procs'[p].target}
            \/ /\ procs'[p].stage = "COMPLETE" /\ procs'[p].answer = procs[p].answer
               /\ procs[p].claimed /\ todo = {}
            \/ procs'[p].stage = "DONE" /\ procs'[p].answer = "RECORDED" /\ todo = {}
<1>0. procs[p] \in Proc
  BY DEF TypeOK
<1>1. ASSUME NEW q \in todo,
             procs' = [procs EXCEPT ![p].stage = "TRIM_ENTRY", ![p].target = q,
                                    ![p].todo = todo \ {q}]
      PROVE  /\ procs' \in [Procs -> Proc]
             /\ \A r \in Procs \ {p} : procs'[r] = procs[r]
             /\ procs'[p].nonce = procs[p].nonce /\ procs'[p].sem = procs[p].sem
             /\ procs'[p].claimed = procs[p].claimed /\ procs'[p].source = procs[p].source
             /\ procs'[p].stage = "TRIM_ENTRY" /\ procs'[p].answer = procs[p].answer
             /\ procs'[p].target \in Procs /\ todo = procs'[p].todo \cup {procs'[p].target}
             /\ procs'[p].earlier = procs[p].earlier
  <2> DEFINE proc == [procs[p] EXCEPT !.stage = "TRIM_ENTRY", !.target = q, !.todo = todo \ {q}]
  <2>1. procs' = [procs EXCEPT ![p] = proc]
    BY <1>1
  <2>2. proc \in Proc
    BY <1>0 DEF Proc, Stages
  <2>3. /\ proc.nonce = procs[p].nonce /\ proc.sem = procs[p].sem
        /\ proc.claimed = procs[p].claimed /\ proc.source = procs[p].source
        /\ proc.stage = "TRIM_ENTRY" /\ proc.answer = procs[p].answer /\ proc.target = q
        /\ proc.todo = todo \ {q} /\ proc.earlier = procs[p].earlier
    BY <1>0 DEF Proc
  <2>4. todo = (todo \ {q}) \cup {q} /\ q \in Procs
    OBVIOUS
  <2> HIDE DEF proc
  <2>5. procs'[p] = proc /\ procs' \in [Procs -> Proc] /\ \A r \in Procs \ {p} : procs'[r] = procs[r]
    BY <2>1, <2>2, Becomes
  <2> QED
    BY <2>3, <2>4, <2>5
<1>2. ASSUME procs' = [procs EXCEPT ![p].stage = "COMPLETE", ![p].target = Nobody,
                                    ![p].todo = {}]
      PROVE  /\ procs' \in [Procs -> Proc]
             /\ \A r \in Procs \ {p} : procs'[r] = procs[r]
             /\ procs'[p].nonce = procs[p].nonce /\ procs'[p].sem = procs[p].sem
             /\ procs'[p].claimed = procs[p].claimed /\ procs'[p].source = procs[p].source
             /\ procs'[p].stage = "COMPLETE" /\ procs'[p].answer = procs[p].answer
             /\ procs'[p].earlier = procs[p].earlier
  <2> DEFINE proc == [procs[p] EXCEPT !.stage = "COMPLETE", !.target = Nobody, !.todo = {}]
  <2>1. procs' = [procs EXCEPT ![p] = proc]
    BY <1>2
  <2>2. proc \in Proc
    BY <1>0 DEF Proc, Stages
  <2>3. /\ proc.nonce = procs[p].nonce /\ proc.sem = procs[p].sem
        /\ proc.claimed = procs[p].claimed /\ proc.source = procs[p].source
        /\ proc.stage = "COMPLETE" /\ proc.answer = procs[p].answer
        /\ proc.earlier = procs[p].earlier
    BY <1>0 DEF Proc
  <2> HIDE DEF proc
  <2> QED
    BY <2>1, <2>2, <2>3, Becomes
<1>3. "RECORDED" \in Answers
  BY DEF Answers
<1> QED
  BY <1>1, <1>2, <1>3, EndsMoves DEF Retires

\* The record of p after a result has told it what to replay.
LEMMA AnsweredMoves ==
  ASSUME TypeOK, NEW p \in Procs, NEW f \in File, Answered(p, f)
  PROVE  /\ procs' \in [Procs -> Proc]
         /\ \A q \in Procs \ {p} : procs'[q] = procs[q]
         /\ procs'[p].nonce = procs[p].nonce /\ procs'[p].sem = procs[p].sem
         /\ procs'[p].claimed = procs[p].claimed
         /\ procs'[p].earlier = procs[p].earlier
         /\ \/ /\ procs'[p].stage = "REPLAY" /\ procs'[p].answer = procs[p].answer
               /\ procs'[p].source = f.by /\ f.file = "WRITTEN" /\ SameSemantics(p, f)
            \/ procs'[p].stage = "DONE" /\ procs'[p].answer \in {"REJECTED", "MISMATCH"}
<1>1. ASSUME procs' = [procs EXCEPT ![p].stage = "REPLAY", ![p].source = f.by]
      PROVE  /\ procs' \in [Procs -> Proc]
             /\ \A q \in Procs \ {p} : procs'[q] = procs[q]
             /\ procs'[p].nonce = procs[p].nonce /\ procs'[p].sem = procs[p].sem
             /\ procs'[p].claimed = procs[p].claimed
             /\ procs'[p].stage = "REPLAY" /\ procs'[p].answer = procs[p].answer
             /\ procs'[p].source = f.by /\ procs'[p].earlier = procs[p].earlier
  <2> DEFINE proc == [procs[p] EXCEPT !.stage = "REPLAY", !.source = f.by]
  <2>0. procs[p] \in Proc /\ f.by \in Procs \cup {Nobody}
    BY DEF TypeOK, File
  <2>1. procs' = [procs EXCEPT ![p] = proc]
    BY <1>1
  <2>2. proc \in Proc
    BY <2>0 DEF Proc, Stages
  <2>3. /\ proc.nonce = procs[p].nonce /\ proc.sem = procs[p].sem
        /\ proc.claimed = procs[p].claimed /\ proc.source = f.by
        /\ proc.stage = "REPLAY" /\ proc.answer = procs[p].answer
        /\ proc.earlier = procs[p].earlier
    BY <2>0 DEF Proc
  <2> HIDE DEF proc
  <2> QED
    BY <2>1, <2>2, <2>3, Becomes
<1>2. "REJECTED" \in Answers /\ "MISMATCH" \in Answers
  BY DEF Answers
<1>3. CASE f.file = "WRITTEN" /\ SameSemantics(p, f)
           /\ procs' = [procs EXCEPT ![p].stage = "REPLAY", ![p].source = f.by]
  BY <1>1, <1>3
<1>4. CASE Ends(p, "REJECTED")
  BY <1>2, <1>4, EndsMoves
<1>5. CASE Ends(p, "MISMATCH")
  BY <1>2, <1>5, EndsMoves
<1> QED
  BY <1>3, <1>4, <1>5 DEF Answered, Throws

\* Files.
LEMMA FileTypes ==
  /\ NoFile \in File
  /\ \A p \in Procs : [file |-> "EMPTY", by |-> p] \in File
  /\ \A files \in [Nonces -> File], p \in Procs : Filled(files, p) \in [Nonces -> File]
<1>1. NoFile \in File /\ \A p \in Procs : [file |-> "EMPTY", by |-> p] \in File
  BY DEF NoFile, File
<1>2. ASSUME NEW files \in [Nonces -> File], NEW p \in Procs, files[Nonce(p)].by = p
      PROVE  [files EXCEPT ![Nonce(p)].file = "WRITTEN"] \in [Nonces -> File]
  <2>1. CASE Nonce(p) \in Nonces
    <3>1. [files[Nonce(p)] EXCEPT !.file = "WRITTEN"] \in File
      BY <2>1 DEF File
    <3> QED
      BY <3>1
  <2>2. CASE Nonce(p) \notin Nonces
    BY <2>2
  <2> QED
    BY <2>1, <2>2
<1> QED
  BY <1>1, <1>2 DEF Filled

-----------------------------------------------------------------------------
(* What no step undoes, and what follows for those a step does not move.   *)

\* What a process has done, and what is on record, stays; a claim changes
\* hands only when it has no creator or its nonce is released.
Steady ==
  /\ clock \in Int /\ clock' \in Int /\ clock <= clock'
  /\ cleaner.stage # "IDLE" => cleaner'.stage # "IDLE"
  /\ \A q \in Procs :
       /\ procs[q].stage # "IDLE" =>
            procs'[q].nonce = procs[q].nonce /\ procs'[q].sem = procs[q].sem
       /\ procs[q].claimed => procs'[q].claimed
       /\ entries[q].file # "NONE" =>
            /\ entries'[q].file # "NONE"
            /\ entries'[q].at = entries[q].at /\ entries'[q].expires = entries[q].expires
       /\ entries[q].file = "WRITTEN" => entries'[q].file \in {"WRITTEN", "GONE"}
       /\ entries[q].file = "GONE" => entries'[q].file = "GONE"
  /\ \A n \in Nonces :
       claims'[n].by = claims[n].by \/ claims[n].by = Nobody \/ Released(n)'

LEMMA ReleasedStays ==
  ASSUME IInv, Steady, NEW n, Released(n)
  PROVE  Released(n)'
<1>1. CASE cleaner.stage # "IDLE"
  BY <1>1 DEF Steady, Released
<1>2. ASSUME NEW p \in Procs, Nonce(p) = n, entries[p].file = "GONE"
      PROVE  Nonce(p)' = n /\ entries'[p].file = "GONE"
  BY <1>2 DEF Steady, Nonce, IInv, ProcInv, EntryInv, BeforeEntry
<1> QED
  BY <1>1, <1>2 DEF Released

LEMMA OnRecordStays ==
  ASSUME Steady, NEW p \in Procs, OnRecord(p)
  PROVE  OnRecord(p)'
BY DEF Steady, OnRecord

LEMMA SourceStays ==
  ASSUME IInv, Steady, NEW p \in Procs, SourceOK(p),
         procs'[p].source = procs[p].source,
         procs'[p].nonce = procs[p].nonce, procs'[p].sem = procs[p].sem
  PROVE  SourceOK(p)'
<1> DEFINE e == procs[p].source
<1>1. e \in Procs /\ OnRecord(e)'
  BY OnRecordStays DEF SourceOK
<1>2. procs'[e].claimed /\ procs[e].stage # "IDLE"
  BY <1>1 DEF Steady, SourceOK, IInv, ProcInv, ClaimInv
<1>3. procs'[e].nonce = procs[e].nonce /\ procs'[e].sem = procs[e].sem
  BY <1>1, <1>2 DEF Steady
<1> QED
  BY <1>1, <1>2, <1>3 DEF SourceOK, Nonce

LEMMA ClaimStays ==
  ASSUME IInv, Steady, NEW p \in Procs,
         procs[p].stage = "FILL_CLAIM" \/ procs[p].claimed,
         procs'[p].nonce = procs[p].nonce
  PROVE  Released(Nonce(p))' \/ claims'[Nonce(p)'].by = p
<1>1. PICK n \in Nonces : n = Nonce(p)
  BY DEF IInv, ProcInv, ClaimInv
<1>2. Released(n) \/ claims[n].by = p
  BY <1>1 DEF IInv, ProcInv, ClaimInv
<1>3. Nonce(p)' = n
  BY <1>1 DEF Nonce
<1>4. CASE Released(n)
  BY <1>3, <1>4, ReleasedStays
<1>5. CASE claims[n].by = p
  <2>1. claims[n].by # Nobody
    BY <1>5, NobodyIsNone
  <2>2. claims'[n].by = p \/ Released(n)'
    BY <1>5, <2>1 DEF Steady
  <2> QED
    BY <1>3, <2>2
<1> QED
  BY <1>2, <1>4, <1>5

\* Nobody else's step changes what holds of q.
LEMMA OtherKeeps ==
  ASSUME IInv, Steady, NEW q \in Procs, procs'[q] = procs[q],
         entries[q].file = "NONE" => entries'[q] = entries[q]
  PROVE  ProcInv(q)'
<1>0. ProcInv(q)
  BY DEF IInv
<1>1. EntryInv(q)'
  <2>1. entries[q].at \in Int /\ entries'[q].at = entries[q].at
    BY DEF Steady, IInv, TypeOK, Entry
  <2>2. entries'[q].at <= clock'
    BY <1>0, <2>1 DEF Steady, ProcInv, EntryInv
  <2> QED
    BY <1>0, <2>2 DEF Steady, ProcInv, EntryInv, OnRecord
<1>2. ClaimInv(q)'
  BY <1>0, ClaimStays DEF ProcInv, ClaimInv, Nonce
<1>3. TrimInv(q)'
  BY <1>0 DEF Steady, ProcInv, TrimInv
<1>4. SourceInv(q)'
  <2>1. SourceOK(q) => SourceOK(q)'
    BY SourceStays
  <2>2. SourceOK(q) /\ Lasting(procs[q].source) => Lasting(procs[q].source)'
    BY DEF Steady, SourceOK, OnRecord, Lasting
  <2> QED
    BY <1>0, <2>1, <2>2 DEF ProcInv, SourceInv
<1> QED
  BY <1>1, <1>2, <1>3, <1>4 DEF ProcInv

LEMMA ResultKeeps ==
  ASSUME IInv, Steady, NEW n \in Nonces,
         \/ results'[n].file = "NONE"
         \/ results[n].file # "NONE" /\ results'[n].by = results[n].by
  PROVE  ResultInv(n)'
<1> SUFFICES ASSUME results'[n].file # "NONE" PROVE ResultInv(n)'
  BY DEF ResultInv
<1>1. PICK p \in Procs : /\ results'[n].by = p /\ procs[p].claimed
                         /\ Nonce(p) = n /\ OnRecord(p)
  BY DEF IInv, ResultInv
<1>2. procs'[p].claimed /\ procs[p].stage # "IDLE"
  BY <1>1 DEF Steady, IInv, ProcInv, ClaimInv
<1>3. procs'[p].nonce = n /\ OnRecord(p)'
  BY <1>1, <1>2, OnRecordStays DEF Steady, Nonce
<1> QED
  BY <1>1, <1>2, <1>3 DEF ResultInv, Nonce, OnRecord

\* A step of p keeps the invariant when it is steady, and keeps it for p and
\* for the files.
LEMMA StepKeeps ==
  ASSUME IInv, Steady, TypeOK', NEW p \in Procs, ProcInv(p)',
         \A q \in Procs \ {p} : procs'[q] = procs[q],
         \A q \in Procs \ {p} : entries[q].file = "NONE" => entries'[q] = entries[q],
         \A n \in Nonces : ClaimFileInv(n)',
         \A n \in Nonces : \/ results'[n].file = "NONE"
                           \/ results[n].file # "NONE" /\ results'[n].by = results[n].by
                           \/ ResultInv(n)'
  PROVE  IInv'
<1>1. ASSUME NEW q \in Procs PROVE ProcInv(q)'
  BY OtherKeeps
<1>2. ASSUME NEW n \in Nonces PROVE ResultInv(n)'
  BY ResultKeeps
<1> QED
  BY <1>1, <1>2 DEF IInv

\* A step of p that touches no file.
Quiet(p) ==
  /\ procs' \in [Procs -> Proc]
  /\ \A q \in Procs \ {p} : procs'[q] = procs[q]
  /\ procs'[p].nonce = procs[p].nonce /\ procs'[p].sem = procs[p].sem
  /\ procs'[p].claimed = procs[p].claimed
  /\ UNCHANGED <<clock, claims, results, entries, cleaner>>

\* Where p may go, for what it knows already.
Allowed(p) ==
  /\ procs[p].stage # "IDLE" /\ procs'[p].stage # "IDLE"
  /\ procs'[p].stage \in BeforeEntry => procs[p].stage \in BeforeEntry
  /\ procs'[p].stage = "FILL_CLAIM" => FALSE
  /\ procs'[p].stage = "FILL_ENTRY" => FALSE
  /\ procs'[p].stage \in Trimming \cup Completing => procs[p].stage \in Trimming \cup Completing
  /\ procs'[p].stage \in Completing => procs[p].claimed
  /\ procs'[p].stage \in {"TRIM_ENTRY", "TRIM_CLAIM", "TRIM_RESULT"} => FALSE

LEMMA QuietStep ==
  ASSUME IInv, NEW p \in Procs, Quiet(p), Allowed(p),
         procs'[p].answer # "NONE" => procs'[p].stage = "DONE",
         procs'[p].stage \in {"REPLAY", "REPLAY_READ"} => SourceOK(p)',
         procs'[p].answer = "REPLAYED" => SourceOK(p)' /\ Lasting(procs[p].source)'
  PROVE  IInv'
<1>0. ProcInv(p)
  BY DEF IInv
<1>1. TypeOK'
  BY DEF IInv, TypeOK, Quiet
<1>2. Steady
  <2>1. clock \in Int
    BY NonceHistoryAssumption DEF IInv, TypeOK, NonceHistoryAssumption
  <2> QED
    BY <2>1 DEF Steady, Quiet
<1>3. EntryInv(p)'
  BY <1>0 DEF ProcInv, EntryInv, OnRecord, Quiet, Allowed
<1>4. ClaimInv(p)'
  <2>1. procs[p].claimed => Released(Nonce(p))' \/ claims'[Nonce(p)'].by = p
    BY <1>2, ClaimStays DEF Quiet
  <2> QED
    BY <1>0, <2>1 DEF ProcInv, ClaimInv, Quiet, Allowed, Nonce
<1>5. TrimInv(p)'
  BY DEF TrimInv, Allowed
<1>6. SourceInv(p)'
  BY DEF SourceInv
<1>7. \A n \in Nonces : ClaimFileInv(n)'
  BY DEF IInv, ClaimFileInv, Quiet
<1>8. \A n \in Nonces : \/ results'[n].file = "NONE"
                        \/ results[n].file # "NONE" /\ results'[n].by = results[n].by
  BY DEF Quiet
<1>9. /\ \A q \in Procs \ {p} : procs'[q] = procs[q]
      /\ \A q \in Procs \ {p} : entries[q].file = "NONE" => entries'[q] = entries[q]
  BY DEF Quiet
<1> QED
  BY <1>1, <1>2, <1>3, <1>4, <1>5, <1>6, <1>7, <1>8, <1>9, StepKeeps DEF ProcInv

\* An ending without a replay, or a move that concerns nothing p knows.
LEMMA EndStep ==
  ASSUME IInv, NEW p \in Procs, NEW a \in Answers \ {"REPLAYED"}, Ends(p, a),
         procs[p].stage # "IDLE", UNCHANGED <<clock, claims, results, entries, cleaner>>
  PROVE  IInv'
<1>1. TypeOK
  BY DEF IInv
<1>2. Quiet(p) /\ procs'[p].stage = "DONE" /\ procs'[p].answer = a
  BY <1>1, EndsMoves DEF Quiet
<1>3. Allowed(p)
  BY <1>2 DEF Allowed, BeforeEntry, Trimming, Completing
<1> QED
  BY <1>2, <1>3, QuietStep

LEMMA GoToStep ==
  ASSUME IInv, NEW p \in Procs, NEW s \in Stages, GoTo(p, s),
         procs[p].stage \notin {"IDLE", "DONE"},
         s \notin {"IDLE", "FILL_CLAIM", "FILL_ENTRY", "TRIM_ENTRY", "TRIM_CLAIM", "TRIM_RESULT",
                   "REPLAY", "REPLAY_READ"},
         s \in BeforeEntry => procs[p].stage \in BeforeEntry,
         s \in Trimming \cup Completing => procs[p].stage \in Trimming \cup Completing,
         s \in Completing => procs[p].claimed,
         UNCHANGED <<clock, claims, results, entries, cleaner>>
  PROVE  IInv'
<1>1. TypeOK /\ procs[p] \in Proc /\ SourceInv(p)
  BY DEF IInv, TypeOK, ProcInv
<1>2. Quiet(p) /\ procs'[p].stage = s /\ procs'[p].answer = "NONE"
  BY <1>1, GoToMoves DEF Quiet, SourceInv
<1>3. Allowed(p)
  BY <1>2 DEF Allowed
<1> QED
  BY <1>2, <1>3, QuietStep

\* A readdir, before the entry of p exists.
LEMMA ListStep ==
  ASSUME IInv, NEW p \in Procs,
         ReplayList(p) \/ WriteList(p)
  PROVE  IInv'
<1>1. TypeOK /\ SourceInv(p)
  BY DEF IInv, ProcInv
<1>2. CASE ReplayList(p)
  <2>1. /\ Quiet(p) /\ procs'[p].stage = "REPLAY_READ" /\ procs'[p].answer = procs[p].answer
        /\ procs'[p].source = procs[p].source
    <3>1. "REPLAY_READ" \in Stages
      BY DEF Stages
    <3> QED
      BY <1>1, <1>2, <3>1, ListMoves DEF ReplayList, Quiet, ListHistory
  <2>2. procs[p].stage = "REPLAY" /\ procs[p].answer = "NONE" /\ SourceOK(p)
    BY <1>1, <1>2 DEF ReplayList, At, SourceInv
  <2>3. Allowed(p)
    BY <2>1, <2>2 DEF Allowed, BeforeEntry, Trimming, Completing
  <2>4. SourceOK(p)'
    <3>1. Steady
      BY <2>1, NonceHistoryAssumption DEF Quiet, Steady, IInv, TypeOK, NonceHistoryAssumption
    <3> QED
      BY <2>1, <2>2, <3>1, SourceStays DEF Quiet
  <2> QED
    BY <2>1, <2>2, <2>3, <2>4, QuietStep
<1>3. CASE WriteList(p)
  <2>1. /\ Quiet(p) /\ procs'[p].stage = "WRITE_READ" /\ procs'[p].answer = procs[p].answer
    <3>1. "WRITE_READ" \in Stages
      BY DEF Stages
    <3> QED
      BY <1>1, <1>3, <3>1, ListMoves DEF WriteList, Quiet, ListHistory
  <2>2. procs[p].stage = "WRITE" /\ procs[p].answer = "NONE"
    BY <1>1, <1>3 DEF WriteList, At, SourceInv
  <2>3. Allowed(p)
    BY <2>1, <2>2 DEF Allowed, BeforeEntry, Trimming, Completing
  <2> QED
    BY <2>1, <2>2, <2>3, QuietStep
<1> QED
  BY <1>2, <1>3

\* A result is read: its run is the receipt to replay.
LEMMA AnswerStep ==
  ASSUME IInv, NEW p \in Procs, NEW n \in Nonces, n = Nonce(p), Answered(p, results[n]),
         procs[p].stage \in {"CLAIM", "WAIT"},
         UNCHANGED <<clock, claims, results, entries, cleaner>>
  PROVE  IInv'
<1>1. TypeOK /\ SourceInv(p) /\ ResultInv(n) /\ results[n] \in File
  BY DEF IInv, ProcInv, TypeOK
<1>2. Quiet(p)
  BY <1>1, AnsweredMoves DEF Quiet
<1>3. \/ /\ procs'[p].stage = "REPLAY" /\ procs'[p].answer = procs[p].answer
         /\ procs'[p].source = results[n].by /\ results[n].file = "WRITTEN"
         /\ SameSemantics(p, results[n])
      \/ procs'[p].stage = "DONE" /\ procs'[p].answer \in {"REJECTED", "MISMATCH"}
  BY <1>1, AnsweredMoves
<1>4. Allowed(p)
  BY <1>3 DEF Allowed, BeforeEntry, Trimming, Completing
<1>5. CASE procs'[p].stage = "DONE" /\ procs'[p].answer \in {"REJECTED", "MISMATCH"}
  BY <1>2, <1>4, <1>5, QuietStep
<1>6. CASE /\ procs'[p].stage = "REPLAY" /\ procs'[p].answer = procs[p].answer
           /\ procs'[p].source = results[n].by /\ results[n].file = "WRITTEN"
           /\ SameSemantics(p, results[n])
  <2>1. PICK e \in Procs : e = results[n].by /\ procs[e].claimed /\ Nonce(e) = n /\ OnRecord(e)
    BY <1>1, <1>6 DEF ResultInv
  <2>2. procs[e].sem = procs[p].sem
    BY <1>6, <2>1 DEF SameSemantics
  <2>3. e # p
    BY <2>1 DEF IInv, ProcInv, EntryInv, BeforeEntry, OnRecord
  <2>4. procs'[e] = procs[e] /\ entries'[e] = entries[e]
    BY <1>2, <2>1, <2>3 DEF Quiet
  <2>5. SourceOK(p)'
    <3>1. procs'[p].source = e
      BY <1>6, <2>1
    <3>2. Nonce(p)' = Nonce(p) /\ procs'[p].sem = procs[p].sem
      BY <1>2 DEF Quiet, Nonce
    <3>3. Nonce(e)' = Nonce(p)' /\ procs'[e].sem = procs'[p].sem
      BY <2>1, <2>2, <2>4, <3>2 DEF Nonce
    <3>4. procs'[e].claimed /\ OnRecord(e)'
      BY <2>1, <2>4 DEF OnRecord
    <3> QED
      BY <3>1, <3>3, <3>4 DEF SourceOK
  <2>6. procs[p].answer = "NONE"
    BY <1>1 DEF SourceInv
  <2> QED
    BY <1>2, <1>4, <1>6, <2>5, <2>6, QuietStep
<1> QED
  BY <1>3, <1>5, <1>6

LEMMA ReadResultStep ==
  ASSUME IInv, NEW p \in Procs, ReadResult(p)
  PROVE  IInv'
<1>1. PICK n \in Nonces : n = Nonce(p)
  BY DEF IInv, ProcInv, ClaimInv, ReadResult, At
<1>2. CASE Answered(p, results[Nonce(p)])
  BY <1>1, <1>2, AnswerStep DEF ReadResult, At
<1>3. CASE GoTo(p, "OPEN")
  <2>1. "OPEN" \in Stages \cap BeforeEntry /\ "OPEN" \notin Trimming \cup Completing
    BY DEF Stages, BeforeEntry, Trimming, Completing
  <2> QED
    BY <1>3, <2>1, GoToStep DEF ReadResult, At, BeforeEntry
<1> QED
  BY <1>2, <1>3 DEF ReadResult

LEMMA PollResultStep ==
  ASSUME IInv, NEW p \in Procs, PollResult(p)
  PROVE  IInv'
<1>1. PICK n \in Nonces : n = Nonce(p)
  BY DEF IInv, ProcInv, ClaimInv, PollResult, At
<1> QED
  BY <1>1, AnswerStep DEF PollResult, At

\* The receipt that is returned is active, hence lasting.
LEMMA ReplayReadStep ==
  ASSUME IInv, NEW p \in Procs, ReplayRead(p)
  PROVE  IInv'
<1>0. "REJECTED" \in Answers /\ "NOT_CURRENT" \in Answers /\ "REPLAYED" \in Answers
  BY DEF Answers
<1>1. CASE Ends(p, "REJECTED") \/ Ends(p, "NOT_CURRENT")
  BY <1>0, <1>1, EndStep DEF ReplayRead, Throws, At
<1>2. CASE Active(procs[p].source, procs[p].listed) /\ Ends(p, "REPLAYED")
  <2>1. TypeOK /\ SourceOK(p) /\ procs[p].stage = "REPLAY_READ"
    BY DEF IInv, ProcInv, SourceInv, ReplayRead, At
  <2>2. /\ Quiet(p) /\ procs'[p].stage = "DONE" /\ procs'[p].answer = "REPLAYED"
        /\ procs'[p].source = procs[p].source
    BY <1>0, <1>2, <2>1, EndsMoves DEF Quiet, ReplayRead
  <2>3. Allowed(p)
    BY <2>1, <2>2 DEF Allowed, BeforeEntry, Trimming, Completing
  <2>4. Steady
    BY <2>2, NonceHistoryAssumption DEF Quiet, Steady, IInv, TypeOK, NonceHistoryAssumption
  <2>5. SourceOK(p)'
    BY <2>1, <2>2, <2>4, SourceStays DEF Quiet
  <2>6. Lasting(procs[p].source)
    <3>1. PICK e \in Procs : e = procs[p].source
      BY <2>1 DEF SourceOK
    <3>2. clock < entries[e].expires /\ entries[e].at <= clock
      BY <1>2, <3>1 DEF Active, IInv, ProcInv, EntryInv
    <3>3. clock \in Int /\ entries[e].at \in Int /\ entries[e].expires \in Int
      BY NonceHistoryAssumption DEF IInv, TypeOK, Entry, NonceHistoryAssumption
    <3> QED
      BY <3>1, <3>2, <3>3 DEF Lasting
  <2>7. Lasting(procs[p].source)'
    BY <2>2, <2>6 DEF Lasting, Quiet
  <2> QED
    BY <2>2, <2>3, <2>5, <2>7, QuietStep
<1> QED
  BY <1>1, <1>2 DEF ReplayRead, Throws

\* The other steps that touch no file.
LEMMA OtherQuietSteps ==
  ASSUME IInv, NEW p \in Procs,
         ClaimExists(p) \/ ReadClaim(p) \/ WaitTimesOut(p) \/ RunThrows(p)
           \/ ReadOwnClaim(p) \/ ChmodResult(p)
  PROVE  IInv'
<1>0. \A a \in {"REJECTED", "MISMATCH", "PENDING", "FAILED", "RECORDED"} : a \in Answers \ {"REPLAYED"}
  BY DEF Answers
<1>1. /\ {"READ_CLAIM", "WAIT"} \subseteq Stages \cap BeforeEntry
      /\ "CREATE_RESULT" \in Stages \cap Completing /\ "CREATE_RESULT" \notin BeforeEntry
      /\ "READ_CLAIM" \notin Trimming \cup Completing /\ "WAIT" \notin Trimming \cup Completing
  BY DEF Stages, BeforeEntry, Trimming, Completing
<1>2. CASE ClaimExists(p)
  BY <1>1, <1>2, GoToStep DEF ClaimExists, At, BeforeEntry
<1>3. CASE ReadClaim(p)
  <2>1. CASE Ends(p, "REJECTED") \/ Ends(p, "MISMATCH")
    BY <1>0, <1>3, <2>1, EndStep DEF ReadClaim, At
  <2>2. CASE GoTo(p, "WAIT")
    BY <1>1, <1>3, <2>2, GoToStep DEF ReadClaim, At, BeforeEntry
  <2> QED
    BY <1>3, <2>1, <2>2 DEF ReadClaim, Throws
<1>4. CASE WaitTimesOut(p)
  BY <1>0, <1>4, EndStep DEF WaitTimesOut, At
<1>5. CASE RunThrows(p)
  BY <1>0, <1>5, EndStep DEF RunThrows, At
<1>6. CASE ReadOwnClaim(p)
  <2>1. CASE Ends(p, "REJECTED")
    BY <1>0, <1>6, <2>1, EndStep DEF ReadOwnClaim, At
  <2>2. CASE GoTo(p, "CREATE_RESULT")
    <3>1. procs[p].stage = "COMPLETE" /\ procs[p].claimed
      BY <1>6 DEF ReadOwnClaim, At, IInv, ProcInv, ClaimInv, Completing
    <3> QED
      BY <1>1, <1>6, <2>2, <3>1, GoToStep DEF ReadOwnClaim, Completing
  <2> QED
    BY <1>6, <2>1, <2>2 DEF ReadOwnClaim, Throws
<1>7. CASE ChmodResult(p)
  BY <1>0, <1>7, EndStep DEF ChmodResult, At, Throws
<1> QED
  BY <1>2, <1>3, <1>4, <1>5, <1>6, <1>7

LEMMA CrashStep ==
  ASSUME IInv, NEW p \in Procs, Crash(p)
  PROVE  IInv'
<1> DEFINE proc == [procs[p] EXCEPT !.stage = "CRASHED", !.listed = {}, !.target = Nobody,
                                    !.todo = {}]
<1>1. TypeOK /\ procs[p] \in Proc /\ SourceInv(p)
  BY DEF IInv, TypeOK, ProcInv
<1>2. procs' = [procs EXCEPT ![p] = proc]
  BY DEF Crash
<1>3. proc \in Proc
  BY <1>1 DEF Proc, Stages
<1>4. /\ proc.nonce = procs[p].nonce /\ proc.sem = procs[p].sem
      /\ proc.claimed = procs[p].claimed
      /\ proc.stage = "CRASHED" /\ proc.answer = procs[p].answer
  BY <1>1 DEF Proc
<1> HIDE DEF proc
<1>5. Quiet(p) /\ procs'[p].stage = "CRASHED" /\ procs'[p].answer = "NONE"
  BY <1>1, <1>2, <1>3, <1>4, Becomes DEF Quiet, SourceInv, Crash
<1>6. Allowed(p)
  BY <1>5 DEF Allowed, Crash, BeforeEntry, Trimming, Completing
<1> QED
  BY <1>5, <1>6, QuietStep

-----------------------------------------------------------------------------
(* The steps that create, fill and remove files.                           *)

\* A step that leaves the entries, the clock and the cleaner alone.
LEMMA FileStep ==
  ASSUME IInv, NEW p \in Procs, procs[p].stage # "IDLE",
         procs' \in [Procs -> Proc], claims' \in [Nonces -> File], results' \in [Nonces -> File],
         \A q \in Procs \ {p} : procs'[q] = procs[q],
         procs'[p].nonce = procs[p].nonce, procs'[p].sem = procs[p].sem,
         procs[p].claimed => procs'[p].claimed,
         UNCHANGED <<clock, entries, cleaner>>,
         \A n \in Nonces : claims'[n].by = claims[n].by \/ claims[n].by = Nobody \/ Released(n)
  PROVE  Steady /\ TypeOK'
<1>1. TypeOK'
  BY DEF IInv, TypeOK
<1>2. clock \in Int
  BY NonceHistoryAssumption DEF IInv, TypeOK, NonceHistoryAssumption
<1>3. ASSUME NEW n \in Nonces PROVE claims'[n].by = claims[n].by \/ claims[n].by = Nobody \/ Released(n)'
  <2>1. CASE cleaner.stage # "IDLE"
    BY <2>1 DEF Released
  <2>2. ASSUME NEW r \in Procs, Nonce(r) = n, entries[r].file = "GONE"
        PROVE  Released(n)'
    <3>1. procs'[r].nonce = n
      BY <2>2 DEF Nonce
    <3> QED
      BY <2>2, <3>1 DEF Released, Nonce
  <2> QED
    BY <2>1, <2>2 DEF Released
<1> QED
  BY <1>1, <1>2, <1>3 DEF Steady

LEMMA CreateClaimStep ==
  ASSUME IInv, NEW p \in Procs, CreateClaim(p)
  PROVE  IInv'
<1>1. PICK n \in Nonces : n = Nonce(p)
  BY DEF IInv, ProcInv, ClaimInv, CreateClaim, At
<1>2. /\ TypeOK /\ ProcInv(p) /\ procs[p] \in Proc /\ procs[p].stage = "OPEN"
      /\ claims[n].by = Nobody
  BY <1>1 DEF IInv, TypeOK, CreateClaim, At, Free, ClaimFileInv
<1>3. claims' = [claims EXCEPT ![n] = [file |-> "EMPTY", by |-> p]] /\ results' = results
  BY <1>1 DEF CreateClaim
<1>4. /\ procs' \in [Procs -> Proc]
      /\ \A q \in Procs \ {p} : procs'[q] = procs[q]
      /\ procs'[p].stage = "FILL_CLAIM" /\ procs'[p].answer = procs[p].answer
      /\ procs'[p].nonce = procs[p].nonce /\ procs'[p].sem = procs[p].sem
      /\ procs'[p].claimed = procs[p].claimed
  <2>1. "FILL_CLAIM" \in Stages
    BY DEF Stages
  <2> QED
    BY <1>2, <2>1, GoToMoves DEF CreateClaim
<1>5. claims' \in [Nonces -> File] /\ results' \in [Nonces -> File]
  BY <1>2, <1>3, FileTypes DEF TypeOK
<1>6. Steady /\ TypeOK'
  BY <1>2, <1>3, <1>4, <1>5, FileStep DEF CreateClaim, TypeOK
<1>7. Nonce(p)' = n /\ claims'[n].by = p
  BY <1>1, <1>2, <1>3, <1>4 DEF Nonce, TypeOK
<1>8. ProcInv(p)'
  <2>1. EntryInv(p)' /\ TrimInv(p)' /\ SourceInv(p)'
    BY <1>2, <1>4 DEF ProcInv, EntryInv, TrimInv, SourceInv, CreateClaim, BeforeEntry,
      Trimming, Completing
  <2>2. ClaimInv(p)'
    BY <1>2, <1>4, <1>7 DEF ProcInv, ClaimInv, Completing
  <2> QED
    BY <2>1, <2>2 DEF ProcInv
<1>9. \A m \in Nonces : ClaimFileInv(m)'
  BY <1>2, <1>3 DEF IInv, ClaimFileInv, TypeOK
<1> QED
  BY <1>3, <1>4, <1>6, <1>8, <1>9, StepKeeps DEF CreateClaim

\* What filling a file does to the files.
LEMMA FilledFiles ==
  ASSUME NEW files \in [Nonces -> File], NEW p \in Procs, NEW n \in Nonces, n = Nonce(p)
  PROVE  /\ Filled(files, p) \in [Nonces -> File]
         /\ \A m \in Nonces \ {n} : Filled(files, p)[m] = files[m]
         /\ Filled(files, p)[n].by = files[n].by
         /\ files[n].by = p => Filled(files, p)[n].file = "WRITTEN"
         /\ files[n].by # p => Filled(files, p)[n] = files[n]
<1>1. Filled(files, p) \in [Nonces -> File]
  BY FileTypes
<1>2. CASE files[n].by = p
  <2>1. Filled(files, p) = [files EXCEPT ![n] = [files[n] EXCEPT !.file = "WRITTEN"]]
    BY <1>2 DEF Filled
  <2>2. /\ [files[n] EXCEPT !.file = "WRITTEN"].by = files[n].by
        /\ [files[n] EXCEPT !.file = "WRITTEN"].file = "WRITTEN"
    BY DEF File
  <2> QED
    BY <1>1, <1>2, <2>1, <2>2
<1>3. CASE files[n].by # p
  BY <1>1, <1>3 DEF Filled
<1> QED
  BY <1>2, <1>3

LEMMA FillClaimStep ==
  ASSUME IInv, NEW p \in Procs, FillClaim(p)
  PROVE  IInv'
<1>1. PICK n \in Nonces : n = Nonce(p)
  BY DEF IInv, ProcInv, ClaimInv, FillClaim, At
<1>2. TypeOK /\ ProcInv(p) /\ procs[p] \in Proc /\ procs[p].stage = "FILL_CLAIM"
  BY DEF IInv, TypeOK, FillClaim, At
<1>3. claims' = Filled(claims, p) /\ results' = results
  BY DEF FillClaim
<1>4. /\ procs' \in [Procs -> Proc]
      /\ \A q \in Procs \ {p} : procs'[q] = procs[q]
      /\ \/ procs'[p].stage = "DONE" /\ procs'[p].answer = "REJECTED"
         \/ procs'[p].stage = "RUN" /\ procs'[p].answer = procs[p].answer
      /\ procs'[p].nonce = procs[p].nonce /\ procs'[p].sem = procs[p].sem
      /\ procs[p].claimed => procs'[p].claimed
  <2>1. CASE Throws(p)
    <3>1. "REJECTED" \in Answers
      BY DEF Answers
    <3> QED
      BY <1>2, <2>1, <3>1, EndsMoves DEF Throws
  <2>2. CASE procs' = [procs EXCEPT ![p].stage = "RUN", ![p].claimed = TRUE]
    <3> DEFINE proc == [procs[p] EXCEPT !.stage = "RUN", !.claimed = TRUE]
    <3>1. procs' = [procs EXCEPT ![p] = proc]
      BY <2>2
    <3>2. proc \in Proc
      BY <1>2 DEF Proc, Stages
    <3>3. /\ proc.stage = "RUN" /\ proc.answer = procs[p].answer /\ proc.claimed
          /\ proc.nonce = procs[p].nonce /\ proc.sem = procs[p].sem
      BY <1>2 DEF Proc
    <3> HIDE DEF proc
    <3> QED
      BY <1>2, <3>1, <3>2, <3>3, Becomes
  <2> QED
    BY <2>1, <2>2 DEF FillClaim
<1>5. claims' \in [Nonces -> File] /\ results' \in [Nonces -> File]
  BY <1>1, <1>2, <1>3, FilledFiles DEF TypeOK
<1>6. \A m \in Nonces : claims'[m].by = claims[m].by
  BY <1>1, <1>2, <1>3, FilledFiles DEF TypeOK
<1>7. Steady /\ TypeOK'
  BY <1>2, <1>3, <1>4, <1>5, <1>6, FileStep DEF FillClaim, TypeOK
<1>8. ProcInv(p)'
  <2>1. EntryInv(p)' /\ TrimInv(p)' /\ SourceInv(p)'
    BY <1>2, <1>4 DEF ProcInv, EntryInv, TrimInv, SourceInv, FillClaim, BeforeEntry,
      Trimming, Completing
  <2>2. ClaimInv(p)'
    <3>1. Released(Nonce(p))' \/ claims'[Nonce(p)'].by = p
      BY <1>2, <1>4, <1>7, ClaimStays
    <3>2. Nonce(p)' \in Nonces
      BY <1>1, <1>4 DEF Nonce
    <3> QED
      BY <1>4, <3>1, <3>2 DEF ClaimInv, Completing
  <2> QED
    BY <2>1, <2>2 DEF ProcInv
<1>9. ASSUME NEW m \in Nonces PROVE ClaimFileInv(m)'
  <2>1. CASE m = n /\ claims[n].by = p
    BY <1>1, <1>2, <1>3, <2>1, FilledFiles DEF ClaimFileInv, TypeOK
  <2>2. CASE m # n \/ claims[n].by # p
    BY <1>1, <1>2, <1>3, <2>2, FilledFiles DEF ClaimFileInv, TypeOK, IInv
  <2> QED
    BY <2>1, <2>2
<1> QED
  BY <1>3, <1>4, <1>7, <1>8, <1>9, StepKeeps DEF FillClaim

LEMMA CreateResultStep ==
  ASSUME IInv, NEW p \in Procs, CreateResult(p)
  PROVE  IInv'
<1>1. PICK n \in Nonces : n = Nonce(p)
  BY DEF IInv, ProcInv, ClaimInv, CreateResult, At
<1>2. TypeOK /\ ProcInv(p) /\ procs[p] \in Proc /\ procs[p].stage = "CREATE_RESULT"
  BY DEF IInv, TypeOK, CreateResult, At
<1>3. CASE Throws(p) /\ UNCHANGED results
  <2>1. "REJECTED" \in Answers \ {"REPLAYED"}
    BY DEF Answers
  <2> QED
    BY <1>2, <1>3, <2>1, EndStep DEF Throws, CreateResult
<1>4. CASE /\ results' = [results EXCEPT ![Nonce(p)] = [file |-> "EMPTY", by |-> p]]
           /\ GoTo(p, "FILL_RESULT")
  <2>1. /\ procs' \in [Procs -> Proc]
        /\ \A q \in Procs \ {p} : procs'[q] = procs[q]
        /\ procs'[p].stage = "FILL_RESULT" /\ procs'[p].answer = procs[p].answer
        /\ procs'[p].nonce = procs[p].nonce /\ procs'[p].sem = procs[p].sem
        /\ procs'[p].claimed = procs[p].claimed
    <3>1. "FILL_RESULT" \in Stages
      BY DEF Stages
    <3> QED
      BY <1>2, <1>4, <3>1, GoToMoves
  <2>2. claims' \in [Nonces -> File] /\ results' \in [Nonces -> File]
    BY <1>1, <1>2, <1>4, FileTypes DEF TypeOK, CreateResult
  <2>3. Steady /\ TypeOK'
    BY <1>2, <2>1, <2>2, FileStep DEF CreateResult, TypeOK
  <2>4. procs[p].claimed /\ OnRecord(p)
    BY <1>2 DEF ProcInv, ClaimInv, EntryInv, Completing
  <2>5. ProcInv(p)'
    <3>1. EntryInv(p)' /\ TrimInv(p)' /\ SourceInv(p)'
      BY <1>2, <2>1 DEF ProcInv, EntryInv, TrimInv, SourceInv, CreateResult, BeforeEntry,
        Trimming, Completing, OnRecord
    <3>2. ClaimInv(p)'
      <4>1. Released(Nonce(p))' \/ claims'[Nonce(p)'].by = p
        BY <2>1, <2>3, <2>4, ClaimStays
      <4>2. Nonce(p)' \in Nonces
        BY <1>1, <2>1 DEF Nonce
      <4> QED
        BY <2>1, <2>4, <4>1, <4>2 DEF ClaimInv
    <3> QED
      BY <3>1, <3>2 DEF ProcInv
  <2>6. \A m \in Nonces : ClaimFileInv(m)'
    BY DEF IInv, ClaimFileInv, CreateResult
  <2>7. ResultInv(n)'
    <3>1. results'[n].by = p
      BY <1>1, <1>2, <1>4 DEF TypeOK
    <3> QED
      BY <1>1, <2>1, <2>4, <3>1 DEF ResultInv, Nonce, OnRecord, CreateResult
  <2>8. \A m \in Nonces \ {n} : results'[m] = results[m]
    BY <1>1, <1>2, <1>4 DEF TypeOK
  <2> QED
    BY <2>1, <2>3, <2>5, <2>6, <2>7, <2>8, StepKeeps DEF CreateResult
<1> QED
  BY <1>3, <1>4 DEF CreateResult

LEMMA FillResultStep ==
  ASSUME IInv, NEW p \in Procs, FillResult(p)
  PROVE  IInv'
<1>1. PICK n \in Nonces : n = Nonce(p)
  BY DEF IInv, ProcInv, ClaimInv, FillResult, At
<1>2. TypeOK /\ ProcInv(p) /\ procs[p] \in Proc /\ procs[p].stage = "FILL_RESULT"
  BY DEF IInv, TypeOK, FillResult, At
<1>3. /\ procs' \in [Procs -> Proc]
      /\ \A q \in Procs \ {p} : procs'[q] = procs[q]
      /\ procs'[p].stage = "CHMOD_RESULT" /\ procs'[p].answer = procs[p].answer
      /\ procs'[p].nonce = procs[p].nonce /\ procs'[p].sem = procs[p].sem
      /\ procs'[p].claimed = procs[p].claimed
  <2>1. "CHMOD_RESULT" \in Stages
    BY DEF Stages
  <2> QED
    BY <1>2, <2>1, GoToMoves DEF FillResult
<1>4. claims' \in [Nonces -> File] /\ results' \in [Nonces -> File]
  BY <1>1, <1>2, FilledFiles DEF TypeOK, FillResult
<1>5. Steady /\ TypeOK'
  BY <1>2, <1>3, <1>4, FileStep DEF FillResult, TypeOK
<1>6. procs[p].claimed /\ OnRecord(p)
  BY <1>2 DEF ProcInv, ClaimInv, EntryInv, Completing
<1>7. ProcInv(p)'
  <2>1. EntryInv(p)' /\ TrimInv(p)' /\ SourceInv(p)'
    BY <1>2, <1>3 DEF ProcInv, EntryInv, TrimInv, SourceInv, FillResult, BeforeEntry,
      Trimming, Completing, OnRecord
  <2>2. ClaimInv(p)'
    <3>1. Released(Nonce(p))' \/ claims'[Nonce(p)'].by = p
      BY <1>3, <1>5, <1>6, ClaimStays
    <3>2. Nonce(p)' \in Nonces
      BY <1>1, <1>3 DEF Nonce
    <3> QED
      BY <1>3, <1>6, <3>1, <3>2 DEF ClaimInv
  <2> QED
    BY <2>1, <2>2 DEF ProcInv
<1>8. \A m \in Nonces : ClaimFileInv(m)'
  BY DEF IInv, ClaimFileInv, FillResult
<1>9. ASSUME NEW m \in Nonces
      PROVE  \/ results'[m].file = "NONE"
             \/ results[m].file # "NONE" /\ results'[m].by = results[m].by
             \/ ResultInv(m)'
  <2>1. CASE m = n /\ results[n].by = p
    <3>1. results'[m].by = p
      BY <1>1, <1>2, <2>1, FilledFiles DEF FillResult, TypeOK
    <3> QED
      BY <1>1, <1>3, <1>6, <2>1, <3>1 DEF ResultInv, Nonce, OnRecord, FillResult
  <2>2. CASE m # n \/ results[n].by # p
    <3>1. results'[m] = results[m]
      BY <1>1, <1>2, <2>2, FilledFiles DEF FillResult, TypeOK
    <3> QED
      BY <3>1
  <2> QED
    BY <2>1, <2>2
<1> QED
  BY <1>3, <1>5, <1>7, <1>8, <1>9, StepKeeps DEF FillResult

\* A run ends retirement, or goes on to the next name.
LEMMA RetiresInv ==
  ASSUME IInv, Steady, NEW p \in Procs, NEW todo \in SUBSET Procs, Retires(p, todo),
         procs[p].stage \in Trimming, entries' = entries, clock' = clock
  PROVE  ProcInv(p)'
<1>1. TypeOK /\ ProcInv(p) /\ procs[p].stage # "IDLE" /\ procs[p].stage # "DONE"
  BY DEF IInv, Trimming
<1>2. /\ procs'[p].nonce = procs[p].nonce /\ procs'[p].claimed = procs[p].claimed
      /\ \/ /\ procs'[p].stage = "TRIM_ENTRY" /\ procs'[p].answer = procs[p].answer
            /\ procs'[p].target \in Procs
         \/ /\ procs'[p].stage = "COMPLETE" /\ procs'[p].answer = procs[p].answer
            /\ procs[p].claimed
         \/ procs'[p].stage = "DONE" /\ procs'[p].answer = "RECORDED"
  BY <1>1, RetiresMoves
<1>3. EntryInv(p)' /\ TrimInv(p)' /\ SourceInv(p)'
  BY <1>1, <1>2 DEF ProcInv, EntryInv, TrimInv, SourceInv, BeforeEntry, Trimming, Completing,
    OnRecord
<1>4. ClaimInv(p)'
  <2>1. procs[p].claimed => Released(Nonce(p))' \/ claims'[Nonce(p)'].by = p
    BY <1>2, ClaimStays
  <2>2. Nonce(p)' \in Nonces
    BY <1>1, <1>2 DEF ProcInv, ClaimInv, Nonce
  <2> QED
    BY <1>2, <2>1, <2>2 DEF ClaimInv, Completing
<1> QED
  BY <1>3, <1>4 DEF ProcInv

LEMMA TrimListStep ==
  ASSUME IInv, NEW p \in Procs, TrimList(p)
  PROVE  IInv'
<1>1. TypeOK /\ procs[p].stage = "TRIM" /\ procs[p].stage \in Trimming
  BY DEF IInv, TrimList, At, Trimming
<1>2. CASE Throws(p)
  <2>1. "REJECTED" \in Answers \ {"REPLAYED"}
    BY DEF Answers
  <2> QED
    BY <1>1, <1>2, <2>1, EndStep DEF Throws, TrimList
<1>3. CASE Retires(p, Overflow)
  <2>1. Overflow \in SUBSET Procs
    BY DEF Overflow
  <2>2. /\ procs' \in [Procs -> Proc]
        /\ \A q \in Procs \ {p} : procs'[q] = procs[q]
        /\ procs'[p].nonce = procs[p].nonce /\ procs'[p].sem = procs[p].sem
        /\ procs'[p].claimed = procs[p].claimed
    BY <1>1, <1>3, <2>1, RetiresMoves
  <2>3. Steady /\ TypeOK'
    BY <1>1, <2>2, FileStep DEF TrimList, TypeOK
  <2>4. ProcInv(p)'
    BY <1>1, <1>3, <2>1, <2>3, RetiresInv DEF TrimList
  <2>5. \A m \in Nonces : ClaimFileInv(m)'
    BY DEF IInv, ClaimFileInv, TrimList
  <2> QED
    BY <2>2, <2>3, <2>4, <2>5, StepKeeps DEF TrimList
<1> QED
  BY <1>2, <1>3 DEF TrimList

\* An entry of the target's nonce is gone: the claim may go.
LEMMA TargetReleased ==
  ASSUME IInv, NEW p \in Procs, procs[p].stage \in {"TRIM_CLAIM", "TRIM_RESULT"}
  PROVE  \E n \in Nonces : n = Nonce(procs[p].target) /\ Released(n)
<1>1. PICK q \in Procs : q = procs[p].target /\ entries[q].file = "GONE"
  BY DEF IInv, ProcInv, TrimInv
<1>2. Nonce(q) \in Nonces
  BY <1>1 DEF IInv, ProcInv, EntryInv, ClaimInv, BeforeEntry
<1> QED
  BY <1>1, <1>2 DEF Released

LEMMA TrimClaimStep ==
  ASSUME IInv, NEW p \in Procs, TrimClaim(p)
  PROVE  IInv'
<1>1. /\ TypeOK /\ ProcInv(p) /\ procs[p] \in Proc /\ procs[p].stage = "TRIM_CLAIM"
  BY DEF IInv, TypeOK, TrimClaim, At
<1>2. PICK n \in Nonces : n = Nonce(procs[p].target) /\ Released(n)
  BY <1>1, TargetReleased
<1>3. claims' = [claims EXCEPT ![n] = NoFile] /\ results' = results
  BY <1>2 DEF TrimClaim
<1>4. /\ procs' \in [Procs -> Proc]
      /\ \A q \in Procs \ {p} : procs'[q] = procs[q]
      /\ procs'[p].stage = "TRIM_RESULT" /\ procs'[p].answer = procs[p].answer
      /\ procs'[p].nonce = procs[p].nonce /\ procs'[p].sem = procs[p].sem
      /\ procs'[p].claimed = procs[p].claimed /\ procs'[p].target = procs[p].target
  <2>1. "TRIM_RESULT" \in Stages
    BY DEF Stages
  <2> QED
    BY <1>1, <2>1, GoToMoves DEF TrimClaim
<1>5. claims' \in [Nonces -> File] /\ results' \in [Nonces -> File]
  BY <1>1, <1>3, FileTypes DEF TypeOK
<1>6. Steady /\ TypeOK'
  BY <1>1, <1>2, <1>3, <1>4, <1>5, FileStep DEF TrimClaim, TypeOK
<1>7. ProcInv(p)'
  <2>1. EntryInv(p)' /\ TrimInv(p)' /\ SourceInv(p)'
    BY <1>1, <1>4 DEF ProcInv, EntryInv, TrimInv, SourceInv, TrimClaim, BeforeEntry,
      Trimming, Completing, OnRecord
  <2>2. ClaimInv(p)'
    <3>1. procs[p].claimed => Released(Nonce(p))' \/ claims'[Nonce(p)'].by = p
      BY <1>4, <1>6, ClaimStays
    <3>2. Nonce(p)' \in Nonces
      BY <1>1, <1>4 DEF ProcInv, ClaimInv, Nonce
    <3> QED
      BY <1>4, <3>1, <3>2 DEF ClaimInv, Completing
  <2> QED
    BY <2>1, <2>2 DEF ProcInv
<1>8. \A m \in Nonces : ClaimFileInv(m)'
  BY <1>1, <1>3 DEF IInv, ClaimFileInv, TypeOK, NoFile
<1> QED
  BY <1>3, <1>4, <1>6, <1>7, <1>8, StepKeeps DEF TrimClaim

LEMMA TrimResultStep ==
  ASSUME IInv, NEW p \in Procs, TrimResult(p)
  PROVE  IInv'
<1>1. /\ TypeOK /\ procs[p] \in Proc /\ procs[p].stage = "TRIM_RESULT"
      /\ procs[p].stage \in Trimming
  BY DEF IInv, TypeOK, TrimResult, At, Trimming
<1>2. PICK n \in Nonces : n = Nonce(procs[p].target) /\ Released(n)
  BY <1>1, TargetReleased
<1>3. results' = [results EXCEPT ![n] = NoFile]
  BY <1>2 DEF TrimResult
<1>4. procs[p].todo \in SUBSET Procs
  BY <1>1 DEF Proc
<1>5. /\ procs' \in [Procs -> Proc]
      /\ \A q \in Procs \ {p} : procs'[q] = procs[q]
      /\ procs'[p].nonce = procs[p].nonce /\ procs'[p].sem = procs[p].sem
      /\ procs'[p].claimed = procs[p].claimed
  BY <1>1, <1>4, RetiresMoves DEF TrimResult
<1>6. results' \in [Nonces -> File]
  BY <1>1, <1>3, FileTypes DEF TypeOK
<1>7. Steady /\ TypeOK'
  BY <1>1, <1>5, <1>6, FileStep DEF TrimResult, TypeOK
<1>8. ProcInv(p)'
  <2>1. PICK todo \in SUBSET Procs : todo = procs[p].todo
    BY <1>4
  <2>2. Retires(p, todo)
    BY <2>1 DEF TrimResult
  <2> QED
    BY <1>1, <1>7, <2>2, RetiresInv DEF TrimResult
<1>9. \A m \in Nonces : ClaimFileInv(m)'
  BY DEF IInv, ClaimFileInv, TrimResult
<1>10. \A m \in Nonces : results'[m].file = "NONE" \/ results'[m] = results[m]
  BY <1>1, <1>3 DEF TypeOK, NoFile
<1> QED
  BY <1>5, <1>7, <1>8, <1>9, <1>10, StepKeeps DEF TrimResult

-----------------------------------------------------------------------------
(* The steps that change a history entry.                                  *)

\* What may become of the entries.
EntriesMove ==
  \A q \in Procs :
    /\ entries[q].file # "NONE" =>
         /\ entries'[q].file # "NONE"
         /\ entries'[q].at = entries[q].at /\ entries'[q].expires = entries[q].expires
         /\ entries'[q].failure = entries[q].failure
    /\ entries[q].file = "WRITTEN" => entries'[q].file \in {"WRITTEN", "GONE"}
    /\ entries[q].file = "GONE" => entries'[q].file = "GONE"

LEMMA EntryStep ==
  ASSUME IInv, NEW p \in Procs, procs[p].stage # "IDLE", EntriesMove,
         procs' \in [Procs -> Proc], entries' \in [Procs -> Entry],
         \A q \in Procs \ {p} : procs'[q] = procs[q],
         procs'[p].nonce = procs[p].nonce, procs'[p].sem = procs[p].sem,
         procs'[p].claimed = procs[p].claimed,
         procs'[p].stage \notin {"IDLE", "FILL_CLAIM"}, procs'[p].stage \notin Completing,
         UNCHANGED <<clock, claims, results, cleaner>>,
         \A q \in Procs \ {p} : entries[q].file = "NONE" => entries'[q] = entries[q],
         EntryInv(p)', TrimInv(p)', SourceInv(p)'
  PROVE  IInv'
<1>1. TypeOK'
  BY DEF IInv, TypeOK
<1>2. clock \in Int
  BY NonceHistoryAssumption DEF IInv, TypeOK, NonceHistoryAssumption
<1>3. Steady
  BY <1>2 DEF Steady, EntriesMove
<1>4. ClaimInv(p)'
  <2>1. procs[p].claimed => Released(Nonce(p))' \/ claims'[Nonce(p)'].by = p
    BY <1>3, ClaimStays
  <2>2. Nonce(p)' \in Nonces
    BY DEF IInv, ProcInv, ClaimInv, Nonce
  <2> QED
    BY <2>1, <2>2 DEF ClaimInv
<1>5. ProcInv(p)'
  BY <1>4 DEF ProcInv
<1>6. \A n \in Nonces : ClaimFileInv(n)'
  BY DEF IInv, ClaimFileInv
<1> QED
  BY <1>1, <1>3, <1>5, <1>6, StepKeeps

\* An entry of p that changes one field.
LEMMA EntryBecomes ==
  ASSUME TypeOK, NEW p \in Procs, NEW e \in Entry, entries' = [entries EXCEPT ![p] = e],
         \/ entries[p].file = "NONE"
         \/ entries[p].file = "EMPTY" /\ e.file # "NONE" /\ e.at = entries[p].at
              /\ e.expires = entries[p].expires /\ e.failure = entries[p].failure
         \/ entries[p].file # "NONE" /\ e.file = "GONE" /\ e.at = entries[p].at
              /\ e.expires = entries[p].expires /\ e.failure = entries[p].failure
         \/ e = entries[p]
  PROVE  /\ entries' \in [Procs -> Entry] /\ EntriesMove
         /\ entries'[p] = e
         /\ \A q \in Procs \ {p} : entries'[q] = entries[q]
<1>1. /\ entries' \in [Procs -> Entry] /\ entries'[p] = e
      /\ \A q \in Procs \ {p} : entries'[q] = entries[q]
  BY DEF TypeOK
<1>2. e.file \in {"NONE", "EMPTY", "WRITTEN", "GONE"}
  BY DEF Entry
<1>3. EntriesMove
  BY <1>1, <1>2 DEF EntriesMove
<1> QED
  BY <1>1, <1>3

\* The end of a run, or a failure before the claim, stamps the entry of p.
LEMMA Stamps ==
  ASSUME TypeOK, NEW p \in Procs,
         RunEnds(p) \/ \E n \in Nonces, s \in Semantics : RequestFails(p, n, s)
  PROVE  \E e \in Entry : /\ entries' = [entries EXCEPT ![p] = e]
                          /\ e.file = entries[p].file /\ e.at = clock
<1>1. clock \in Nat /\ entries[p] \in Entry
  BY NonceHistoryAssumption DEF TypeOK, NonceHistoryAssumption
<1>2. CASE RunEnds(p)
  <2>1. PICK outcome \in RunOutcomes :
          entries' = [entries EXCEPT ![p] = Stamped(entries[p], outcome)]
    BY <1>1, <1>2 DEF RunEnds, TypeOK
  <2>2. clock + outcome.life \in Nat /\ outcome.failure \in Failures \cup {"NONE"}
    BY <1>1, NonceHistoryAssumption DEF RunOutcomes, NonceHistoryAssumption
  <2>3. /\ Stamped(entries[p], outcome) \in Entry
        /\ Stamped(entries[p], outcome).file = entries[p].file
        /\ Stamped(entries[p], outcome).at = clock
    BY <1>1, <2>2 DEF Stamped, Entry
  <2> QED
    BY <2>1, <2>3
<1>3. CASE \E n \in Nonces, s \in Semantics : RequestFails(p, n, s)
  <2>1. PICK code \in Failures :
          entries' = [entries EXCEPT ![p].at = clock, ![p].expires = clock, ![p].failure = code]
    BY <1>3 DEF RequestFails
  <2> DEFINE e == [entries[p] EXCEPT !.at = clock, !.expires = clock, !.failure = code]
  <2>2. entries' = [entries EXCEPT ![p] = e]
    BY <2>1
  <2>3. e \in Entry /\ e.file = entries[p].file /\ e.at = clock
    BY <1>1 DEF Entry
  <2> QED
    BY <2>2, <2>3
<1> QED
  BY <1>2, <1>3

LEMMA RunEndsStep ==
  ASSUME IInv, NEW p \in Procs, RunEnds(p)
  PROVE  IInv'
<1>1. /\ TypeOK /\ ProcInv(p) /\ procs[p].stage = "RUN" /\ entries[p] \in Entry
      /\ entries[p].file = "NONE" /\ clock \in Nat
  BY NonceHistoryAssumption DEF IInv, TypeOK, RunEnds, At, ProcInv, EntryInv, BeforeEntry,
    NonceHistoryAssumption
<1>2. /\ procs' \in [Procs -> Proc]
      /\ \A q \in Procs \ {p} : procs'[q] = procs[q]
      /\ procs'[p].stage = "WRITE" /\ procs'[p].answer = procs[p].answer
      /\ procs'[p].nonce = procs[p].nonce /\ procs'[p].sem = procs[p].sem
      /\ procs'[p].claimed = procs[p].claimed
  <2>1. "WRITE" \in Stages
    BY DEF Stages
  <2> QED
    BY <1>1, <2>1, GoToMoves DEF RunEnds
<1>3. PICK e \in Entry : /\ entries' = [entries EXCEPT ![p] = e]
                         /\ e.file = entries[p].file /\ e.at = clock
  BY <1>1, Stamps
<1>4. e \in Entry /\ e.file = "NONE" /\ e.at = clock
  BY <1>1, <1>3
<1>5. entries' = [entries EXCEPT ![p] = e]
  BY <1>3
<1>6. /\ entries' \in [Procs -> Entry] /\ EntriesMove
      /\ entries'[p] = e
      /\ \A q \in Procs \ {p} : entries'[q] = entries[q]
  BY <1>1, <1>4, <1>5, EntryBecomes
<1>7. EntryInv(p)' /\ TrimInv(p)' /\ SourceInv(p)'
  BY <1>1, <1>2, <1>4, <1>6 DEF ProcInv, EntryInv, TrimInv, SourceInv, RunEnds, BeforeEntry,
    Trimming, Completing
<1> QED
  BY <1>1, <1>2, <1>6, <1>7, EntryStep DEF RunEnds, Completing

LEMMA WriteReadStep ==
  ASSUME IInv, NEW p \in Procs, WriteRead(p)
  PROVE  IInv'
<1>1. /\ TypeOK /\ ProcInv(p) /\ procs[p].stage = "WRITE_READ" /\ procs[p] \in Proc
      /\ entries[p] \in Entry /\ entries[p].file = "NONE"
  BY DEF IInv, TypeOK, WriteRead, At, ProcInv, EntryInv, BeforeEntry
<1>2. CASE Throws(p) /\ UNCHANGED entries
  <2>1. "REJECTED" \in Answers \ {"REPLAYED"}
    BY DEF Answers
  <2> QED
    BY <1>1, <1>2, <2>1, EndStep DEF Throws, WriteRead
<1>3. ASSUME procs' = [procs EXCEPT ![p].stage = "CREATE_ENTRY", ![p].listed = {}],
             NEW s \in Procs \cup {Nobody}, entries' = [entries EXCEPT ![p].supersedes = s]
      PROVE  IInv'
  <2> DEFINE proc == [procs[p] EXCEPT !.stage = "CREATE_ENTRY", !.listed = {}]
             e == [entries[p] EXCEPT !.supersedes = s]
  <2>1. procs' = [procs EXCEPT ![p] = proc] /\ entries' = [entries EXCEPT ![p] = e]
    BY <1>3
  <2>2. proc \in Proc
    BY <1>1 DEF Proc, Stages
  <2>3. /\ proc.stage = "CREATE_ENTRY" /\ proc.answer = procs[p].answer
        /\ proc.nonce = procs[p].nonce /\ proc.sem = procs[p].sem
        /\ proc.claimed = procs[p].claimed
    BY <1>1 DEF Proc
  <2>4. e \in Entry /\ e.file = "NONE" /\ e.at = entries[p].at
    BY <1>1 DEF Entry
  <2> HIDE DEF proc, e
  <2>5. /\ procs' \in [Procs -> Proc]
        /\ \A q \in Procs \ {p} : procs'[q] = procs[q]
        /\ procs'[p] = proc
    BY <1>1, <2>1, <2>2, Becomes
  <2>6. /\ entries' \in [Procs -> Entry] /\ EntriesMove
        /\ entries'[p] = e
        /\ \A q \in Procs \ {p} : entries'[q] = entries[q]
    BY <1>1, <2>1, <2>4, EntryBecomes
  <2>7. EntryInv(p)' /\ TrimInv(p)' /\ SourceInv(p)'
    BY <1>1, <2>3, <2>4, <2>5, <2>6 DEF ProcInv, EntryInv, TrimInv, SourceInv, WriteRead,
      BeforeEntry, Trimming, Completing
  <2> QED
    BY <1>1, <2>3, <2>5, <2>6, <2>7, EntryStep DEF WriteRead, Completing
<1> QED
  BY <1>2, <1>3 DEF WriteRead

LEMMA CreateEntryStep ==
  ASSUME IInv, NEW p \in Procs, CreateEntry(p)
  PROVE  IInv'
<1>1. /\ TypeOK /\ ProcInv(p) /\ procs[p].stage = "CREATE_ENTRY"
      /\ entries[p] \in Entry /\ entries[p].file = "NONE"
  BY DEF IInv, TypeOK, CreateEntry, At, ProcInv, EntryInv, BeforeEntry
<1>2. /\ procs' \in [Procs -> Proc]
      /\ \A q \in Procs \ {p} : procs'[q] = procs[q]
      /\ procs'[p].stage = "FILL_ENTRY" /\ procs'[p].answer = procs[p].answer
      /\ procs'[p].nonce = procs[p].nonce /\ procs'[p].sem = procs[p].sem
      /\ procs'[p].claimed = procs[p].claimed
  <2>1. "FILL_ENTRY" \in Stages
    BY DEF Stages
  <2> QED
    BY <1>1, <2>1, GoToMoves DEF CreateEntry
<1> DEFINE e == [entries[p] EXCEPT !.file = "EMPTY"]
<1>3. e \in Entry /\ e.file = "EMPTY" /\ e.at = entries[p].at
  BY <1>1 DEF Entry
<1>4. entries' = [entries EXCEPT ![p] = e]
  BY DEF CreateEntry
<1> HIDE DEF e
<1>5. /\ entries' \in [Procs -> Entry] /\ EntriesMove
      /\ entries'[p] = e
      /\ \A q \in Procs \ {p} : entries'[q] = entries[q]
  BY <1>1, <1>3, <1>4, EntryBecomes
<1>6. EntryInv(p)' /\ TrimInv(p)' /\ SourceInv(p)'
  BY <1>1, <1>2, <1>3, <1>5 DEF ProcInv, EntryInv, TrimInv, SourceInv, CreateEntry,
    BeforeEntry, Trimming, Completing
<1> QED
  BY <1>1, <1>2, <1>5, <1>6, EntryStep DEF CreateEntry, Completing

LEMMA FillEntryStep ==
  ASSUME IInv, NEW p \in Procs, FillEntry(p)
  PROVE  IInv'
<1>1. /\ TypeOK /\ ProcInv(p) /\ procs[p].stage = "FILL_ENTRY"
      /\ entries[p] \in Entry /\ entries[p].file # "NONE"
  BY DEF IInv, TypeOK, FillEntry, At, ProcInv, EntryInv
<1>2. /\ procs' \in [Procs -> Proc]
      /\ \A q \in Procs \ {p} : procs'[q] = procs[q]
      /\ procs'[p].stage = "TRIM" /\ procs'[p].answer = procs[p].answer
      /\ procs'[p].nonce = procs[p].nonce /\ procs'[p].sem = procs[p].sem
      /\ procs'[p].claimed = procs[p].claimed
  <2>1. "TRIM" \in Stages
    BY DEF Stages
  <2> QED
    BY <1>1, <2>1, GoToMoves DEF FillEntry
<1> DEFINE e == IF entries[p].file = "EMPTY" THEN [entries[p] EXCEPT !.file = "WRITTEN"]
                ELSE entries[p]
<1>3. /\ e \in Entry /\ e.file \in {"WRITTEN", "GONE"} /\ e.at = entries[p].at
      /\ e.expires = entries[p].expires /\ e.failure = entries[p].failure
      /\ entries[p].file # "EMPTY" => e = entries[p]
  BY <1>1 DEF Entry
<1>4. entries' = [entries EXCEPT ![p] = e]
  <2>1. entries[p].file # "EMPTY" => [entries[p] EXCEPT !.file = entries[p].file] = entries[p]
    BY <1>1 DEF Entry
  <2>2. entries' = [entries EXCEPT ![p] = [entries[p] EXCEPT !.file =
                      IF entries[p].file = "EMPTY" THEN "WRITTEN" ELSE entries[p].file]]
    BY DEF FillEntry
  <2> QED
    BY <2>1, <2>2
<1> HIDE DEF e
<1>5. /\ entries' \in [Procs -> Entry] /\ EntriesMove
      /\ entries'[p] = e
      /\ \A q \in Procs \ {p} : entries'[q] = entries[q]
  BY <1>1, <1>3, <1>4, EntryBecomes
<1>6. EntryInv(p)' /\ TrimInv(p)' /\ SourceInv(p)'
  BY <1>1, <1>2, <1>3, <1>5 DEF ProcInv, EntryInv, TrimInv, SourceInv, FillEntry,
    BeforeEntry, Trimming, Completing, OnRecord
<1> QED
  BY <1>1, <1>2, <1>5, <1>6, EntryStep DEF FillEntry, Completing

LEMMA TrimEntryStep ==
  ASSUME IInv, NEW p \in Procs, TrimEntry(p)
  PROVE  IInv'
<1>1. TypeOK /\ ProcInv(p) /\ procs[p] \in Proc /\ procs[p].stage = "TRIM_ENTRY"
  BY DEF IInv, TypeOK, TrimEntry, At
<1>2. CASE Throws(p) /\ UNCHANGED entries
  <2>1. "REJECTED" \in Answers \ {"REPLAYED"}
    BY DEF Answers
  <2> QED
    BY <1>1, <1>2, <2>1, EndStep DEF Throws, TrimEntry
<1>3. CASE /\ entries[procs[p].target].file = "WRITTEN"
           /\ entries' = [entries EXCEPT ![procs[p].target].file = "GONE"]
           /\ GoTo(p, "TRIM_CLAIM")
           /\ procs[p].target \in Procs
  <2>1. PICK q \in Procs : q = procs[p].target
    BY <1>3
  <2>2. /\ procs' \in [Procs -> Proc]
        /\ \A r \in Procs \ {p} : procs'[r] = procs[r]
        /\ procs'[p].stage = "TRIM_CLAIM" /\ procs'[p].answer = procs[p].answer
        /\ procs'[p].nonce = procs[p].nonce /\ procs'[p].sem = procs[p].sem
        /\ procs'[p].claimed = procs[p].claimed /\ procs'[p].target = q
    <3>1. "TRIM_CLAIM" \in Stages
      BY DEF Stages
    <3> QED
      BY <1>1, <1>3, <2>1, <3>1, GoToMoves
  <2> DEFINE e == [entries[q] EXCEPT !.file = "GONE"]
  <2>3. entries[q] \in Entry
    BY <1>1 DEF TypeOK
  <2>4. /\ e \in Entry /\ e.file = "GONE"
        /\ e.at = entries[q].at /\ e.expires = entries[q].expires
        /\ e.failure = entries[q].failure
    BY <2>3 DEF Entry
  <2>5. entries' = [entries EXCEPT ![q] = e]
    BY <1>3, <2>1
  <2> HIDE DEF e
  <2>6. /\ entries' \in [Procs -> Entry] /\ EntriesMove
        /\ entries'[q] = e
        /\ \A r \in Procs \ {q} : entries'[r] = entries[r]
    BY <1>1, <1>3, <2>1, <2>4, <2>5, EntryBecomes
  <2>7. EntryInv(p)' /\ TrimInv(p)' /\ SourceInv(p)'
    <3>1. OnRecord(p)' /\ entries'[p].at <= clock'
      BY <1>1, <2>4, <2>6 DEF ProcInv, EntryInv, OnRecord, Trimming, TrimEntry
    <3>2. EntryInv(p)'
      BY <2>2, <3>1 DEF EntryInv, BeforeEntry
    <3>3. TrimInv(p)'
      BY <2>2, <2>4, <2>6 DEF TrimInv
    <3>4. SourceInv(p)'
      BY <1>1, <2>2 DEF ProcInv, SourceInv
    <3> QED
      BY <3>2, <3>3, <3>4
  <2>8. \A r \in Procs \ {p} : entries[r].file = "NONE" => entries'[r] = entries[r]
    BY <1>3, <2>1, <2>6
  <2> QED
    BY <1>1, <2>2, <2>6, <2>7, <2>8, EntryStep DEF TrimEntry, Completing
<1>4. procs[p].target \in Procs
  BY <1>1 DEF ProcInv, TrimInv
<1> QED
  BY <1>2, <1>3, <1>4 DEF TrimEntry

-----------------------------------------------------------------------------
(* The steps that begin a preflight, and those of nobody.                  *)

LEMMA BeginSteady ==
  ASSUME IInv, NEW p \in Procs, procs[p].stage = "IDLE", EntriesMove,
         \A q \in Procs \ {p} : procs'[q] = procs[q],
         UNCHANGED <<clock, claims, cleaner>>
  PROVE  Steady
<1>1. clock \in Int
  BY NonceHistoryAssumption DEF IInv, TypeOK, NonceHistoryAssumption
<1>2. ~procs[p].claimed
  BY DEF IInv, ProcInv, ClaimInv
<1> QED
  BY <1>1, <1>2 DEF Steady, EntriesMove

LEMMA RequestStep ==
  ASSUME IInv, NEW p \in Procs, NEW n \in Nonces, NEW s \in Semantics, Request(p, n, s)
  PROVE  IInv'
<1> DEFINE earlier == {q \in Procs : At(q, "DONE")}
           proc == [procs[p] EXCEPT !.stage = "CLAIM", !.nonce = n, !.sem = s,
                                    !.earlier = earlier]
<1>1. /\ TypeOK /\ ProcInv(p) /\ procs[p] \in Proc /\ procs[p].stage = "IDLE"
      /\ procs[p].answer = "NONE" /\ ~procs[p].claimed /\ entries[p].file = "NONE"
  BY DEF IInv, TypeOK, Request, At, ProcInv, SourceInv, ClaimInv, EntryInv, BeforeEntry
<1>2. procs' = [procs EXCEPT ![p] = proc]
  BY DEF Request
<1>3. earlier \in SUBSET Procs
  OBVIOUS
<1> HIDE DEF earlier
<1>4. proc \in Proc
  BY <1>1, <1>3 DEF Proc, Stages
<1>5. /\ proc.stage = "CLAIM" /\ proc.answer = "NONE" /\ proc.nonce = n /\ ~proc.claimed
  BY <1>1 DEF Proc
<1> HIDE DEF proc
<1>6. /\ procs' \in [Procs -> Proc]
      /\ \A q \in Procs \ {p} : procs'[q] = procs[q]
      /\ procs'[p] = proc
  BY <1>1, <1>2, <1>4, Becomes
<1>7. Steady
  BY <1>1, <1>6, BeginSteady DEF Request, EntriesMove
<1>8. TypeOK'
  BY <1>1, <1>6 DEF TypeOK, Request
<1>9. ProcInv(p)'
  BY <1>1, <1>5, <1>6 DEF ProcInv, EntryInv, ClaimInv, TrimInv, SourceInv, Request, Nonce,
    BeforeEntry, Trimming, Completing
<1>10. \A m \in Nonces : ClaimFileInv(m)'
  BY DEF IInv, ClaimFileInv, Request
<1> QED
  BY <1>6, <1>7, <1>8, <1>9, <1>10, StepKeeps DEF Request

LEMMA RequestFailsStep ==
  ASSUME IInv, NEW p \in Procs, NEW n \in Nonces, NEW s \in Semantics, RequestFails(p, n, s)
  PROVE  IInv'
<1> DEFINE proc == [procs[p] EXCEPT !.stage = "WRITE", !.nonce = n, !.sem = s]
<1>1. /\ TypeOK /\ ProcInv(p) /\ procs[p] \in Proc /\ procs[p].stage = "IDLE"
      /\ procs[p].answer = "NONE" /\ ~procs[p].claimed
      /\ entries[p] \in Entry /\ entries[p].file = "NONE" /\ clock \in Nat
  BY NonceHistoryAssumption DEF IInv, TypeOK, RequestFails, At, ProcInv, SourceInv, ClaimInv,
    EntryInv, BeforeEntry, NonceHistoryAssumption
<1>e. PICK e \in Entry : /\ entries' = [entries EXCEPT ![p] = e]
                         /\ e.file = entries[p].file /\ e.at = clock
  BY <1>1, Stamps
<1>2. procs' = [procs EXCEPT ![p] = proc] /\ entries' = [entries EXCEPT ![p] = e]
  BY <1>e DEF RequestFails
<1>3. proc \in Proc
  BY <1>1 DEF Proc, Stages
<1>4. /\ proc.stage = "WRITE" /\ proc.answer = "NONE" /\ proc.nonce = n /\ ~proc.claimed
  BY <1>1 DEF Proc
<1>5. e \in Entry /\ e.file = "NONE" /\ e.at = clock
  BY <1>1, <1>e
<1> HIDE DEF proc
<1>6. /\ procs' \in [Procs -> Proc]
      /\ \A q \in Procs \ {p} : procs'[q] = procs[q]
      /\ procs'[p] = proc
  BY <1>1, <1>2, <1>3, Becomes
<1>7. /\ entries' \in [Procs -> Entry] /\ EntriesMove
      /\ entries'[p] = e
      /\ \A q \in Procs \ {p} : entries'[q] = entries[q]
  BY <1>1, <1>2, <1>5, EntryBecomes
<1>8. Steady
  BY <1>1, <1>6, <1>7, BeginSteady DEF RequestFails
<1>9. TypeOK'
  BY <1>1, <1>6, <1>7 DEF TypeOK, RequestFails
<1>10. ProcInv(p)'
  BY <1>1, <1>4, <1>5, <1>6, <1>7 DEF ProcInv, EntryInv, ClaimInv, TrimInv, SourceInv,
    RequestFails, Nonce, BeforeEntry, Trimming, Completing
<1>11. \A m \in Nonces : ClaimFileInv(m)'
  BY DEF IInv, ClaimFileInv, RequestFails
<1> QED
  BY <1>6, <1>7, <1>8, <1>9, <1>10, <1>11, StepKeeps DEF RequestFails

\* A step of the clock or of the cleaner.
LEMMA NobodysStep ==
  ASSUME IInv, Steady, TypeOK', procs' = procs,
         \A q \in Procs : entries[q].file = "NONE" => entries'[q] = entries[q],
         \A n \in Nonces : ClaimFileInv(n)',
         \A n \in Nonces : results'[n].file = "NONE" \/ results'[n] = results[n]
  PROVE  IInv'
<1>1. ASSUME NEW q \in Procs PROVE ProcInv(q)'
  BY OtherKeeps
<1>2. ASSUME NEW n \in Nonces PROVE ResultInv(n)'
  BY ResultKeeps
<1> QED
  BY <1>1, <1>2 DEF IInv

LEMMA TickStep == IInv /\ Tick => IInv'
<1> SUFFICES ASSUME IInv, Tick PROVE IInv'
  OBVIOUS
<1>1. clock \in Int /\ clock' \in 0..MaxClock /\ clock <= clock'
  BY NonceHistoryAssumption DEF IInv, TypeOK, Tick, NonceHistoryAssumption
<1>2. TypeOK'
  BY <1>1 DEF IInv, TypeOK, Tick
<1>3. Steady
  BY <1>1 DEF Steady, Tick
<1>4. \A n \in Nonces : ClaimFileInv(n)'
  BY DEF IInv, ClaimFileInv, Tick
<1> QED
  BY <1>2, <1>3, <1>4, NobodysStep DEF Tick

LEMMA ClearStepInv == IInv /\ ClearStep => IInv'
<1> SUFFICES ASSUME IInv, ClearStep PROVE IInv'
  OBVIOUS
<1>1. TypeOK /\ cleaner \in Cleaner /\ clock \in Int
  BY NonceHistoryAssumption DEF IInv, TypeOK, NonceHistoryAssumption
<1>2. CASE ClearList \/ ClearEnds
  <2>1. /\ cleaner' \in Cleaner /\ cleaner'.stage # "IDLE"
        /\ UNCHANGED <<clock, claims, results, entries, procs>>
    BY <1>2 DEF ClearList, ClearEnds, Cleaner
  <2>2. TypeOK'
    BY <1>1, <2>1 DEF TypeOK
  <2>3. Steady
    BY <1>1, <2>1 DEF Steady
  <2>4. \A n \in Nonces : ClaimFileInv(n)'
    BY <2>1 DEF IInv, ClaimFileInv
  <2> QED
    BY <2>1, <2>2, <2>3, <2>4, NobodysStep
<1>3. ASSUME NEW name, Unlinks(name)
      PROVE  cleaner' \in Cleaner /\ cleaner'.stage # "IDLE"
  <2>1. cleaner.stage = "UNLINK" /\ cleaner' = [cleaner EXCEPT !.todo = cleaner.todo \ {name}]
    BY <1>3 DEF Unlinks
  <2> QED
    BY <1>1, <2>1 DEF Cleaner
<1>4. ASSUME NEW p \in Procs, ClearEntry(p) PROVE IInv'
  <2>1. /\ cleaner' \in Cleaner /\ cleaner'.stage # "IDLE" /\ UNCHANGED <<clock, claims, results, procs>>
        /\ entries[p].file # "NONE" /\ entries[p] \in Entry
    BY <1>1, <1>3, <1>4 DEF ClearEntry, Unlinks, Exists, TypeOK
  <2> DEFINE e == [entries[p] EXCEPT !.file = "GONE"]
  <2>2. /\ e \in Entry /\ e.file = "GONE"
        /\ e.at = entries[p].at /\ e.expires = entries[p].expires
        /\ e.failure = entries[p].failure
    BY <2>1 DEF Entry
  <2>3. entries' = [entries EXCEPT ![p] = e]
    BY <1>4 DEF ClearEntry
  <2> HIDE DEF e
  <2>4. /\ entries' \in [Procs -> Entry] /\ EntriesMove
        /\ entries'[p] = e
        /\ \A q \in Procs \ {p} : entries'[q] = entries[q]
    BY <1>1, <2>1, <2>2, <2>3, EntryBecomes
  <2>5. TypeOK'
    BY <1>1, <2>1, <2>4 DEF TypeOK
  <2>6. Steady
    BY <1>1, <2>1, <2>4 DEF Steady, EntriesMove
  <2>7. \A n \in Nonces : ClaimFileInv(n)'
    BY <2>1 DEF IInv, ClaimFileInv
  <2> QED
    BY <2>1, <2>4, <2>5, <2>6, <2>7, NobodysStep
<1>5. ASSUME NEW n \in Nonces, ClearClaim(n) PROVE IInv'
  <2>1. /\ cleaner' \in Cleaner /\ cleaner'.stage # "IDLE" /\ UNCHANGED <<clock, results, entries, procs>>
        /\ claims' = [claims EXCEPT ![n] = NoFile]
    BY <1>3, <1>5 DEF ClearClaim, Unlinks
  <2>2. TypeOK'
    BY <1>1, <2>1, FileTypes DEF TypeOK
  <2>3. Steady
    BY <1>1, <2>1 DEF Steady, Released
  <2>4. \A m \in Nonces : ClaimFileInv(m)'
    BY <1>1, <2>1 DEF IInv, ClaimFileInv, TypeOK, NoFile
  <2> QED
    BY <2>1, <2>2, <2>3, <2>4, NobodysStep
<1>6. ASSUME NEW n \in Nonces, ClearResult(n) PROVE IInv'
  <2>1. /\ cleaner' \in Cleaner /\ cleaner'.stage # "IDLE" /\ UNCHANGED <<clock, claims, entries, procs>>
        /\ results' = [results EXCEPT ![n] = NoFile]
    BY <1>3, <1>6 DEF ClearResult, Unlinks
  <2>2. TypeOK'
    BY <1>1, <2>1, FileTypes DEF TypeOK
  <2>3. Steady
    BY <1>1, <2>1 DEF Steady
  <2>4. \A m \in Nonces : ClaimFileInv(m)'
    BY <2>1 DEF IInv, ClaimFileInv
  <2>5. \A m \in Nonces : results'[m].file = "NONE" \/ results'[m] = results[m]
    BY <1>1, <2>1 DEF TypeOK, NoFile
  <2> QED
    BY <2>1, <2>2, <2>3, <2>4, <2>5, NobodysStep
<1> QED
  BY <1>2, <1>4, <1>5, <1>6 DEF ClearStep

-----------------------------------------------------------------------------
(* The invariant, and what it says.                                        *)

LEMMA InitInv == Init => IInv
<1> SUFFICES ASSUME Init PROVE IInv
  OBVIOUS
<1>1. TypeOK
  <2>1. NoFile \in File /\ NoEntry \in Entry
    BY DEF NoFile, NoEntry, File, Entry
  <2>2. IdleProc \in Proc
    BY DEF IdleProc, Proc, Stages
  <2>3. clock \in 0..MaxClock
    BY NonceHistoryAssumption DEF Init, NonceHistoryAssumption
  <2> QED
    BY <2>1, <2>2, <2>3 DEF Init, TypeOK, Cleaner
<1>2. ASSUME NEW p \in Procs PROVE ProcInv(p)
  <2>1. procs[p].stage = "IDLE" /\ ~procs[p].claimed /\ procs[p].answer = "NONE"
    BY DEF Init, IdleProc
  <2>2. entries[p].file = "NONE" /\ entries[p].at <= clock
    BY DEF Init, NoEntry
  <2> QED
    BY <2>1, <2>2 DEF ProcInv, EntryInv, ClaimInv, TrimInv, SourceInv, BeforeEntry, Trimming,
      Completing
<1>3. ASSUME NEW n \in Nonces PROVE ClaimFileInv(n) /\ ResultInv(n)
  BY DEF Init, NoFile, ClaimFileInv, ResultInv
<1> QED
  BY <1>1, <1>2, <1>3 DEF IInv

LEMMA NextInv == IInv /\ [Next]_vars => IInv'
<1> SUFFICES ASSUME IInv, [Next]_vars PROVE IInv'
  OBVIOUS
<1>1. ASSUME NEW p \in Procs, ClaimStep(p) PROVE IInv'
  BY <1>1, ReadResultStep, CreateClaimStep, FillClaimStep, PollResultStep, ListStep,
    ReplayReadStep, OtherQuietSteps DEF ClaimStep
<1>2. ASSUME NEW p \in Procs, WriteStep(p) PROVE IInv'
  BY <1>2, OtherQuietSteps, RunEndsStep, ListStep, WriteReadStep, CreateEntryStep,
    FillEntryStep, TrimListStep, TrimEntryStep, TrimClaimStep, TrimResultStep DEF WriteStep
<1>3. ASSUME NEW p \in Procs, CompleteStep(p) PROVE IInv'
  BY <1>3, OtherQuietSteps, CreateResultStep, FillResultStep DEF CompleteStep
<1>4. CASE UNCHANGED vars
  <2>1. UNCHANGED <<clock, claims, results, entries, procs, cleaner>>
    BY <1>4 DEF vars
  <2> QED
    BY <2>1 DEF IInv, TypeOK, ProcInv, EntryInv, ClaimInv, TrimInv, SourceInv, SourceOK,
      OnRecord, Nonce, Released, Lasting, ClaimFileInv, ResultInv
<1> QED
  BY <1>1, <1>2, <1>3, <1>4, TickStep, RequestStep, RequestFailsStep, CrashStep, ClearStepInv
    DEF Next, Step

\* The strengthening: what holds of each process and of each nonce, together.
THEOREM Invariant == Spec => []IInv
<1> QED
  BY InitInv, NextInv, PTL DEF Spec

\* Every variable keeps its shape.
THEOREM TypeCorrect == Spec => []TypeOK
<1>1. IInv => TypeOK
  BY DEF IInv
<1> QED
  BY <1>1, Invariant, PTL

\* However many preflights bring one nonce at once, and wherever they die, one
\* of them runs until an entry of that nonce is removed (claimNonce).
THEOREM NonceRunsOnce == Spec => []OneRunPerNonce
<1>1. ASSUME IInv, NEW p \in Procs, NEW q \in Procs,
             procs[p].claimed, procs[q].claimed, Nonce(p) = Nonce(q), ~Released(Nonce(p))
      PROVE  p = q
  BY <1>1 DEF IInv, ProcInv, ClaimInv
<1>2. IInv => OneRunPerNonce
  BY <1>1 DEF OneRunPerNonce
<1> QED
  BY <1>2, Invariant, PTL

\* A result names a receipt that a run of its nonce has put on record first
\* (writeHistoryEntry before completeNonceClaim).
THEOREM ResultsAreRecorded == Spec => []ResultIsRecorded
<1>1. IInv => ResultIsRecorded
  BY DEF IInv, ResultInv, OnRecord, ResultIsRecorded
<1> QED
  BY <1>1, Invariant, PTL

\* A replayed receipt belongs to the nonce and the semantics that were asked
\* for, whoever wrote the result that led to it.
THEOREM ReplaysMatch == Spec => []ReplayMatches
<1>1. IInv => ReplayMatches
  BY DEF IInv, ProcInv, SourceInv, SourceOK, ReplayMatches
<1> QED
  BY <1>1, Invariant, PTL

-----------------------------------------------------------------------------
(* What a step does to the process that takes it, and to the history.      *)

\* A preflight that has not run, and will not begin any more once it is past them.
Early ==
  {"IDLE", "CLAIM", "OPEN", "FILL_CLAIM", "READ_CLAIM", "WAIT", "REPLAY", "REPLAY_READ"}

\* p goes on, or ends; the others stay.
Moved(p) ==
  /\ \A q \in Procs \ {p} : procs'[q] = procs[q]
  /\ procs[p].stage \notin {"IDLE", "DONE", "CRASHED"} /\ procs[p].answer = "NONE"
  /\ procs'[p].stage # "IDLE"
  /\ procs'[p].nonce = procs[p].nonce /\ procs'[p].sem = procs[p].sem
  /\ procs'[p].earlier = procs[p].earlier
  /\ procs[p].claimed => procs'[p].claimed
  /\ procs'[p].claimed => procs[p].claimed \/ (FillClaim(p) /\ procs'[p].stage = "RUN")
  /\ procs'[p].stage \in Early => procs[p].stage \in Early
  /\ procs'[p].stage = "REPLAY_READ" => ReplayList(p)
  /\ procs'[p].answer = "REPLAYED" => ReplayRead(p) /\ procs'[p].source = procs[p].source
  /\ procs'[p].answer = "RECORDED" => procs[p].stage \in Trimming \cup Completing

LEMMA StepMoves ==
  ASSUME IInv, NEW p \in Procs, Step(p) \/ Crash(p)
  PROVE  Moved(p)
<1>0. TypeOK /\ procs[p] \in Proc /\ SourceInv(p) /\ ClaimInv(p)
  BY DEF IInv, TypeOK, ProcInv
<1>1. procs[p].stage \notin {"IDLE", "DONE", "CRASHED"}
  BY DEF Step, ClaimStep, WriteStep, CompleteStep, Crash, At, ReadResult, CreateClaim, ClaimExists,
    FillClaim, ReadClaim, PollResult, WaitTimesOut, ReplayList, ReplayRead, RunEnds, RunThrows,
    WriteList, WriteRead, CreateEntry, FillEntry, TrimList, TrimEntry, TrimClaim, TrimResult,
    ReadOwnClaim, CreateResult, FillResult, ChmodResult
<1>2. procs[p].answer = "NONE"
  BY <1>0, <1>1 DEF SourceInv
<1>3. ASSUME NEW a \in Answers, Ends(p, a), a = "REPLAYED" => ReplayRead(p),
             a = "RECORDED" => procs[p].stage \in Trimming \cup Completing
      PROVE  Moved(p)
  BY <1>0, <1>1, <1>2, <1>3, EndsMoves DEF Moved, Early
<1>4. ASSUME NEW s \in Stages \ {"IDLE", "REPLAY_READ"}, GoTo(p, s),
             s \in Early => procs[p].stage \in Early
      PROVE  Moved(p)
  BY <1>0, <1>1, <1>2, <1>4, GoToMoves DEF Moved
<1>5. \A a \in {"RECORDED", "REPLAYED", "MISMATCH", "PENDING", "NOT_CURRENT", "REJECTED", "FAILED"} :
        a \in Answers
  BY DEF Answers
<1>6. \A s \in {"OPEN", "FILL_CLAIM", "READ_CLAIM", "WAIT", "WRITE", "FILL_ENTRY", "TRIM",
                "TRIM_CLAIM", "TRIM_RESULT", "CREATE_RESULT", "FILL_RESULT", "CHMOD_RESULT"} :
        s \in Stages \ {"IDLE", "REPLAY_READ"}
  BY DEF Stages
<1>15. \A s \in {"WRITE", "FILL_ENTRY", "TRIM", "TRIM_CLAIM", "TRIM_RESULT", "CREATE_RESULT",
                 "FILL_RESULT", "CHMOD_RESULT"} : s \notin Early
  BY DEF Early
<1>7. ASSUME NEW proc \in Proc, procs' = [procs EXCEPT ![p] = proc],
             proc.stage \notin Early,
             proc.claimed => procs[p].claimed \/ (FillClaim(p) /\ proc.stage = "RUN"),
             proc.answer = "NONE", proc.nonce = procs[p].nonce, proc.sem = procs[p].sem,
             proc.earlier = procs[p].earlier, procs[p].claimed => proc.claimed
      PROVE  Moved(p)
  <2>1. "IDLE" \in Early /\ "REPLAY_READ" \in Early
    BY DEF Early
  <2> QED
    BY <1>0, <1>1, <1>2, <1>7, <2>1, Becomes DEF Moved
<1>8. ASSUME NEW n \in Nonces, Answered(p, results[n]), procs[p].stage \in Early
      PROVE  Moved(p)
  <2>1. results[n] \in File
    BY <1>0 DEF TypeOK
  <2> QED
    BY <1>0, <1>1, <1>2, <1>8, <2>1, AnsweredMoves DEF Moved, Early
<1>9. Nonce(p) \in Nonces
  BY <1>0, <1>1 DEF ClaimInv
<1>10. ASSUME NEW todo \in SUBSET Procs, Retires(p, todo), procs[p].stage \in Trimming
       PROVE  Moved(p)
  BY <1>0, <1>1, <1>2, <1>10, RetiresMoves DEF Moved, Early
<1>11. ASSUME ClaimStep(p) PROVE Moved(p)
  <2>0. procs[p].stage \in Early
    BY <1>11 DEF ClaimStep, Early, At, ReadResult, CreateClaim, ClaimExists, FillClaim, ReadClaim,
      PollResult, WaitTimesOut, ReplayList, ReplayRead
  <2>1. CASE ReadResult(p)
    BY <1>4, <1>6, <1>8, <1>9, <2>0, <2>1 DEF ReadResult
  <2>2. CASE CreateClaim(p)
    BY <1>4, <1>6, <2>0, <2>2 DEF CreateClaim
  <2>3. CASE ClaimExists(p)
    BY <1>4, <1>6, <2>0, <2>3 DEF ClaimExists
  <2>4. CASE FillClaim(p)
    <3>1. CASE Throws(p)
      BY <1>3, <1>5, <3>1 DEF Throws
    <3>2. CASE procs' = [procs EXCEPT ![p].stage = "RUN", ![p].claimed = TRUE]
      <4> DEFINE proc == [procs[p] EXCEPT !.stage = "RUN", !.claimed = TRUE]
      <4>1. procs' = [procs EXCEPT ![p] = proc]
        BY <3>2
      <4>2. proc \in Proc
        BY <1>0 DEF Proc, Stages
      <4>3. /\ proc.stage = "RUN" /\ proc.answer = "NONE" /\ proc.nonce = procs[p].nonce
            /\ proc.sem = procs[p].sem /\ proc.earlier = procs[p].earlier /\ proc.claimed
        BY <1>0, <1>2 DEF Proc
      <4>4. proc.stage \notin Early
        BY <4>3 DEF Early
      <4> HIDE DEF proc
      <4> QED
        BY <1>7, <2>4, <4>1, <4>2, <4>3, <4>4
    <3> QED
      BY <2>4, <3>1, <3>2 DEF FillClaim
  <2>5. CASE ReadClaim(p)
    BY <1>3, <1>4, <1>5, <1>6, <2>0, <2>5 DEF ReadClaim, Throws
  <2>6. CASE PollResult(p)
    BY <1>8, <1>9, <2>0, <2>6 DEF PollResult
  <2>7. CASE WaitTimesOut(p)
    BY <1>3, <1>5, <2>7 DEF WaitTimesOut
  <2>8. CASE ReplayList(p)
    <3>1. "REPLAY_READ" \in Stages
      BY DEF Stages
    <3> QED
      BY <1>0, <1>1, <1>2, <2>0, <2>8, <3>1, ListMoves DEF Moved, ReplayList
  <2>9. CASE ReplayRead(p)
    BY <1>3, <1>5, <2>9 DEF ReplayRead, Throws
  <2> QED
    BY <1>11, <2>1, <2>2, <2>3, <2>4, <2>5, <2>6, <2>7, <2>8, <2>9 DEF ClaimStep
<1>12. ASSUME WriteStep(p) PROVE Moved(p)
  <2>1. CASE RunEnds(p)
    BY <1>4, <1>6, <1>15, <2>1 DEF RunEnds
  <2>2. CASE RunThrows(p)
    BY <1>3, <1>5, <2>2 DEF RunThrows
  <2>3. CASE WriteList(p)
    <3>1. "WRITE_READ" \in Stages
      BY DEF Stages
    <3> QED
      BY <1>0, <1>1, <1>2, <2>3, <3>1, ListMoves DEF Moved, WriteList, Early
  <2>4. CASE WriteRead(p)
    <3>1. CASE Throws(p)
      BY <1>3, <1>5, <3>1 DEF Throws
    <3>2. CASE procs' = [procs EXCEPT ![p].stage = "CREATE_ENTRY", ![p].listed = {}]
      <4> DEFINE proc == [procs[p] EXCEPT !.stage = "CREATE_ENTRY", !.listed = {}]
      <4>1. procs' = [procs EXCEPT ![p] = proc]
        BY <3>2
      <4>2. proc \in Proc
        BY <1>0 DEF Proc, Stages
      <4>3. /\ proc.stage = "CREATE_ENTRY" /\ proc.answer = "NONE" /\ proc.nonce = procs[p].nonce
            /\ proc.sem = procs[p].sem /\ proc.earlier = procs[p].earlier
            /\ proc.claimed = procs[p].claimed
        BY <1>0, <1>2 DEF Proc
      <4>4. proc.stage \notin Early
        BY <4>3 DEF Early
      <4> HIDE DEF proc
      <4> QED
        BY <1>7, <4>1, <4>2, <4>3, <4>4
    <3> QED
      BY <2>4, <3>1, <3>2 DEF WriteRead
  <2>5. CASE CreateEntry(p)
    BY <1>4, <1>6, <1>15, <2>5 DEF CreateEntry
  <2>6. CASE FillEntry(p)
    BY <1>4, <1>6, <1>15, <2>6 DEF FillEntry
  <2>7. CASE TrimList(p)
    <3>1. Overflow \in SUBSET Procs /\ "TRIM" \in Trimming
      BY DEF Overflow, Trimming
    <3> QED
      BY <1>3, <1>5, <1>10, <2>7, <3>1 DEF TrimList, Throws, At
  <2>8. CASE TrimEntry(p)
    BY <1>3, <1>4, <1>5, <1>6, <1>15, <2>8 DEF TrimEntry, Throws
  <2>9. CASE TrimClaim(p)
    BY <1>4, <1>6, <1>15, <2>9 DEF TrimClaim
  <2>10. CASE TrimResult(p)
    <3>1. procs[p].todo \in SUBSET Procs /\ "TRIM_RESULT" \in Trimming
      BY <1>0 DEF Proc, Trimming
    <3> QED
      BY <1>10, <2>10, <3>1 DEF TrimResult, At
  <2> QED
    BY <1>12, <2>1, <2>2, <2>3, <2>4, <2>5, <2>6, <2>7, <2>8, <2>9, <2>10 DEF WriteStep
<1>13. ASSUME CompleteStep(p) PROVE Moved(p)
  <2>1. CASE ReadOwnClaim(p)
    BY <1>3, <1>4, <1>5, <1>6, <1>15, <2>1 DEF ReadOwnClaim, Throws
  <2>2. CASE CreateResult(p)
    BY <1>3, <1>4, <1>5, <1>6, <1>15, <2>2 DEF CreateResult, Throws
  <2>3. CASE FillResult(p)
    BY <1>4, <1>6, <1>15, <2>3 DEF FillResult
  <2>4. CASE ChmodResult(p)
    BY <1>3, <1>5, <2>4 DEF ChmodResult, Throws, At, Completing
  <2> QED
    BY <1>13, <2>1, <2>2, <2>3, <2>4 DEF CompleteStep
<1>14. CASE Crash(p)
  <2> DEFINE proc == [procs[p] EXCEPT !.stage = "CRASHED", !.listed = {}, !.target = Nobody,
                                      !.todo = {}]
  <2>1. procs' = [procs EXCEPT ![p] = proc]
    BY <1>14 DEF Crash
  <2>2. proc \in Proc
    BY <1>0 DEF Proc, Stages
  <2>3. /\ proc.stage = "CRASHED" /\ proc.answer = "NONE" /\ proc.nonce = procs[p].nonce
        /\ proc.sem = procs[p].sem /\ proc.earlier = procs[p].earlier
        /\ proc.claimed = procs[p].claimed
    BY <1>0, <1>2 DEF Proc
  <2>4. proc.stage \notin Early
    BY <2>3 DEF Early
  <2> HIDE DEF proc
  <2> QED
    BY <1>7, <2>1, <2>2, <2>3, <2>4
<1> QED
  BY <1>11, <1>12, <1>13, <1>14 DEF Step

\* The entries that are in the history, and what may become of them.
Existing == {q \in Procs : Exists(q)}

EntriesOnward == EntriesMove /\ Existing' \subseteq Existing

LEMMA SameEntries ==
  ASSUME entries' = entries
  PROVE  EntriesOnward
BY DEF EntriesOnward, EntriesMove, Existing, Exists

\* One entry that is not created by the step changes.
LEMMA OneEntry ==
  ASSUME TypeOK, NEW p \in Procs, NEW e \in Entry, entries' = [entries EXCEPT ![p] = e],
         \/ entries[p].file = "NONE" /\ e.file = "NONE"
         \/ /\ entries[p].file # "NONE"
            /\ e.at = entries[p].at /\ e.expires = entries[p].expires /\ e.failure = entries[p].failure
            /\ \/ e.file = entries[p].file
               \/ e.file = "GONE"
               \/ entries[p].file = "EMPTY" /\ e.file = "WRITTEN"
  PROVE  EntriesOnward
<1>1. /\ entries'[p] = e
      /\ \A q \in Procs \ {p} : entries'[q] = entries[q]
  BY DEF TypeOK
<1>2. EntriesMove
  BY <1>1 DEF EntriesMove
<1>3. ASSUME NEW q \in Procs, Exists(q)' PROVE Exists(q)
  BY <1>1, <1>3 DEF Exists
<1> QED
  BY <1>2, <1>3 DEF EntriesOnward, Existing

LEMMA StepEntries ==
  ASSUME IInv, NEW p \in Procs, Step(p) \/ Crash(p), ~CreateEntry(p)
  PROVE  EntriesOnward
<1>1. TypeOK /\ entries[p] \in Entry /\ ProcInv(p)
  BY DEF IInv, TypeOK
<1>2. CASE RunEnds(p)
  <2>1. PICK e \in Entry : /\ entries' = [entries EXCEPT ![p] = e]
                           /\ e.file = entries[p].file /\ e.at = clock
    BY <1>1, <1>2, Stamps
  <2>2. e \in Entry /\ e.file = "NONE" /\ entries[p].file = "NONE"
    BY <1>1, <1>2, <2>1 DEF ProcInv, EntryInv, RunEnds, At, BeforeEntry
  <2> QED
    BY <1>1, <2>1, <2>2, OneEntry
<1>3. CASE WriteRead(p)
  <2>1. CASE UNCHANGED entries
    BY <2>1, SameEntries
  <2>2. ASSUME NEW q \in Procs \cup {Nobody}, entries' = [entries EXCEPT ![p].supersedes = q]
        PROVE  EntriesOnward
    <3> DEFINE e == [entries[p] EXCEPT !.supersedes = q]
    <3>1. e \in Entry /\ e.file = "NONE" /\ entries[p].file = "NONE"
      BY <1>1, <1>3 DEF Entry, ProcInv, EntryInv, WriteRead, At, BeforeEntry
    <3>2. entries' = [entries EXCEPT ![p] = e]
      BY <2>2
    <3> HIDE DEF e
    <3> QED
      BY <1>1, <3>1, <3>2, OneEntry
  <2> QED
    BY <1>3, <2>1, <2>2 DEF WriteRead
<1>4. CASE FillEntry(p)
  <2> DEFINE e == [entries[p] EXCEPT !.file =
                     IF entries[p].file = "EMPTY" THEN "WRITTEN" ELSE entries[p].file]
  <2>1. /\ e \in Entry /\ entries[p].file # "NONE"
        /\ e.at = entries[p].at /\ e.expires = entries[p].expires /\ e.failure = entries[p].failure
        /\ e.file = entries[p].file \/ (entries[p].file = "EMPTY" /\ e.file = "WRITTEN")
    BY <1>1, <1>4 DEF Entry, ProcInv, EntryInv, FillEntry, At
  <2>2. entries' = [entries EXCEPT ![p] = e]
    BY <1>4 DEF FillEntry
  <2> HIDE DEF e
  <2> QED
    BY <1>1, <2>1, <2>2, OneEntry
<1>5. CASE TrimEntry(p)
  <2>1. CASE UNCHANGED entries
    BY <2>1, SameEntries
  <2>2. CASE /\ entries[procs[p].target].file = "WRITTEN"
             /\ entries' = [entries EXCEPT ![procs[p].target].file = "GONE"]
    <3>1. PICK q \in Procs : q = procs[p].target
      BY <1>1, <1>5 DEF ProcInv, TrimInv, TrimEntry, At
    <3> DEFINE e == [entries[q] EXCEPT !.file = "GONE"]
    <3>2. /\ e \in Entry /\ e.file = "GONE"
          /\ e.at = entries[q].at /\ e.expires = entries[q].expires
          /\ e.failure = entries[q].failure
      BY <1>1 DEF TypeOK, Entry
    <3>3. entries' = [entries EXCEPT ![q] = e] /\ entries[q].file = "WRITTEN"
      BY <2>2, <3>1
    <3> HIDE DEF e
    <3> QED
      BY <1>1, <3>2, <3>3, OneEntry
  <2> QED
    BY <1>5, <2>1, <2>2 DEF TrimEntry
<1>6. CASE ~(RunEnds(p) \/ WriteRead(p) \/ FillEntry(p) \/ TrimEntry(p))
  <2>1. entries' = entries
    BY <1>6 DEF Step, ClaimStep, WriteStep, CompleteStep, Crash, ReadResult, CreateClaim,
      ClaimExists, FillClaim, ReadClaim, PollResult, WaitTimesOut, ReplayList, ReplayRead,
      RunThrows, WriteList, TrimList, TrimClaim, TrimResult, ListHistory,
      ReadOwnClaim, CreateResult, FillResult, ChmodResult
  <2> QED
    BY <2>1, SameEntries
<1> QED
  BY <1>2, <1>3, <1>4, <1>5, <1>6

\* The entry that p creates is there.
LEMMA CreateEntryEntries ==
  ASSUME IInv, NEW p \in Procs, CreateEntry(p)
  PROVE  EntriesMove /\ procs'[p].stage = "FILL_ENTRY"
<1>1. TypeOK /\ entries[p] \in Entry /\ entries[p].file = "NONE"
  BY DEF IInv, TypeOK, ProcInv, EntryInv, CreateEntry, At, BeforeEntry
<1> DEFINE e == [entries[p] EXCEPT !.file = "EMPTY"]
<1>2. e \in Entry
  BY <1>1 DEF Entry
<1>3. entries' = [entries EXCEPT ![p] = e]
  BY DEF CreateEntry
<1> HIDE DEF e
<1>4. "FILL_ENTRY" \in Stages
  BY DEF Stages
<1> QED
  BY <1>1, <1>2, <1>3, <1>4, EntryBecomes, GoToMoves DEF CreateEntry

LEMMA NobodysEntries ==
  ASSUME IInv, Tick \/ ClearStep
  PROVE  EntriesOnward /\ procs' = procs
<1>1. TypeOK
  BY DEF IInv
<1>2. CASE \E p \in Procs : ClearEntry(p)
  <2>1. PICK p \in Procs : ClearEntry(p)
    BY <1>2
  <2> DEFINE e == [entries[p] EXCEPT !.file = "GONE"]
  <2>2. /\ e \in Entry /\ e.file = "GONE"
        /\ e.at = entries[p].at /\ e.expires = entries[p].expires
        /\ e.failure = entries[p].failure
    BY <1>1 DEF TypeOK, Entry
  <2>3. entries' = [entries EXCEPT ![p] = e] /\ entries[p].file # "NONE" /\ procs' = procs
    BY <2>1 DEF ClearEntry, Exists, Unlinks
  <2> HIDE DEF e
  <2> QED
    BY <1>1, <2>2, <2>3, OneEntry
<1>3. CASE ~\E p \in Procs : ClearEntry(p)
  <2>1. entries' = entries /\ procs' = procs
    BY <1>3 DEF Tick, ClearStep, ClearList, ClearClaim, ClearResult, ClearEnds, Unlinks
  <2> QED
    BY <2>1, SameEntries
<1> QED
  BY <1>2, <1>3

\* Who begins has no entry yet.
LEMMA BeginEntries ==
  ASSUME IInv, NEW p \in Procs, NEW n \in Nonces, NEW s \in Semantics,
         Request(p, n, s) \/ RequestFails(p, n, s)
  PROVE  /\ EntriesOnward
         /\ \A q \in Procs \ {p} : procs'[q] = procs[q]
         /\ procs[p].stage = "IDLE" /\ procs'[p].stage \in {"CLAIM", "WRITE"}
         /\ procs'[p].answer = "NONE" /\ ~procs[p].claimed /\ ~procs'[p].claimed
         /\ procs'[p].nonce = n /\ procs'[p].sem = s
         /\ procs'[p].earlier = procs[p].earlier \/ procs'[p].earlier = {q \in Procs : At(q, "DONE")}
<1>1. /\ TypeOK /\ procs[p] \in Proc /\ entries[p] \in Entry /\ procs[p].stage = "IDLE"
      /\ entries[p].file = "NONE" /\ procs[p].answer = "NONE" /\ ~procs[p].claimed
  BY DEF IInv, TypeOK, ProcInv, EntryInv, SourceInv, ClaimInv, Request, RequestFails, At, BeforeEntry
<1>2. EntriesOnward
  <2>1. CASE Request(p, n, s)
    BY <2>1, SameEntries DEF Request
  <2>2. CASE RequestFails(p, n, s)
    <3>1. PICK e \in Entry : /\ entries' = [entries EXCEPT ![p] = e]
                             /\ e.file = entries[p].file /\ e.at = clock
      BY <1>1, <2>2, Stamps
    <3> QED
      BY <1>1, <3>1, OneEntry
  <2> QED
    BY <2>1, <2>2
<1>3. CASE Request(p, n, s)
  <2> DEFINE done == {q \in Procs : At(q, "DONE")}
             proc == [procs[p] EXCEPT !.stage = "CLAIM", !.nonce = n, !.sem = s, !.earlier = done]
  <2>1. procs' = [procs EXCEPT ![p] = proc]
    BY <1>3 DEF Request
  <2>2. done \in SUBSET Procs
    OBVIOUS
  <2> HIDE DEF done
  <2>3. /\ proc \in Proc /\ proc.stage = "CLAIM" /\ proc.answer = "NONE" /\ proc.earlier = done
        /\ proc.nonce = n /\ proc.sem = s /\ ~proc.claimed
    BY <1>1, <2>2 DEF Proc, Stages
  <2> HIDE DEF proc
  <2> QED
    BY <1>1, <1>2, <2>1, <2>3, Becomes DEF done
<1>4. CASE RequestFails(p, n, s)
  <2> DEFINE proc == [procs[p] EXCEPT !.stage = "WRITE", !.nonce = n, !.sem = s]
  <2>1. procs' = [procs EXCEPT ![p] = proc]
    BY <1>4 DEF RequestFails
  <2>2. /\ proc \in Proc /\ proc.stage = "WRITE" /\ proc.answer = "NONE"
        /\ proc.earlier = procs[p].earlier
        /\ proc.nonce = n /\ proc.sem = s /\ ~proc.claimed
    BY <1>1 DEF Proc, Stages
  <2> HIDE DEF proc
  <2> QED
    BY <1>1, <1>2, <2>1, <2>2, Becomes
<1> QED
  BY <1>3, <1>4

-----------------------------------------------------------------------------
(* Receipts that are not current.                                          *)

\* The entries a preflight lists are the newest: of the runs that had ended
\* before it began, none that is newer than a listed entry is missing.
KnowInv(p) ==
  /\ procs[p].answer = "RECORDED" => OnRecord(p)
  /\ \A q \in procs[p].earlier : procs[q].stage = "DONE"
  /\ procs[p].stage = "REPLAY_READ" =>
       /\ procs[p].listed \subseteq {e \in Procs : entries[e].file # "NONE"}
       /\ \A q \in procs[p].earlier, e \in procs[p].listed :
            Ran(q) /\ Newer(q, e) => q \in procs[p].listed \/ entries[q].file = "GONE"
  /\ procs[p].answer = "REPLAYED" =>
       \A q \in procs[p].earlier :
         Ran(q) /\ Newer(q, procs[p].source) /\ Competes(q, procs[p].source)
           => entries[q].file = "GONE"

\* With an entry, every newer one of the set is among the n newest.
LEMMA NewestClosed ==
  ASSUME TypeOK, NEW E \in SUBSET Procs, NEW n \in Nat,
         NEW e \in Newest(E, n), NEW q \in E, Newer(q, e)
  PROVE  q \in Newest(E, n)
<1> DEFINE above(r) == {o \in E : Newer(o, r)}
<1>1. \A o \in Procs : entries[o].at \in Int /\ o \in Int
  BY NonceHistoryAssumption DEF TypeOK, Entry, Procs, NonceHistoryAssumption
<1>2. e \in E /\ Cardinality(above(e)) < n
  BY DEF Newest
<1>3. above(q) \subseteq above(e)
  <2> SUFFICES ASSUME NEW o \in E, Newer(o, q) PROVE Newer(o, e)
    OBVIOUS
  <2>1. o \in Procs /\ q \in Procs /\ e \in Procs
    BY <1>2
  <2> QED
    BY <1>1, <2>1 DEF Newer
<1>4. IsFiniteSet(Procs)
  BY FS_Interval, NonceHistoryAssumption DEF Procs, NonceHistoryAssumption
<1>5. IsFiniteSet(above(e))
  BY <1>4, FS_Subset
<1>6. Cardinality(above(q)) <= Cardinality(above(e)) /\ IsFiniteSet(above(q))
  BY <1>3, <1>5, FS_Subset
<1>7. Cardinality(above(q)) \in Nat /\ Cardinality(above(e)) \in Nat
  BY <1>5, <1>6, FS_CardinalityType
<1>8. Cardinality(above(q)) < n
  BY <1>2, <1>6, <1>7
<1> QED
  BY <1>8 DEF Newest

\* What is true of two entries on record and of a run that has ended stays so.
LEMMA NewerStays ==
  ASSUME EntriesMove, NEW q \in Procs, NEW e \in Procs,
         entries[q].file # "NONE", entries[e].file # "NONE"
  PROVE  /\ Newer(q, e)' = Newer(q, e)
         /\ entries'[q].failure = entries[q].failure
         /\ entries'[e].failure = entries[e].failure
BY DEF EntriesMove, Newer

\* A step that moves nobody, or another process, keeps what p knows.
LEMMA KnowStays ==
  ASSUME IInv, NEW p \in Procs, \A q \in Procs : KnowInv(q), EntriesMove,
         procs'[p] = procs[p],
         \A q \in Procs : procs[q].stage = "DONE" => procs'[q] = procs[q],
         \A q \in Procs : procs[q].claimed =>
           /\ procs'[q].claimed /\ procs'[q].nonce = procs[q].nonce /\ procs'[q].sem = procs[q].sem
  PROVE  KnowInv(p)'
<1>1. TypeOK /\ procs[p].earlier \subseteq Procs
  BY DEF IInv, TypeOK, Proc
<1>2. ASSUME NEW q \in procs[p].earlier
      PROVE  /\ q \in Procs /\ procs[q].stage = "DONE" /\ procs'[q] = procs[q]
             /\ Ran(q)' = Ran(q) /\ (Ran(q) => OnRecord(q))
  <2>1. q \in Procs /\ procs[q].stage = "DONE" /\ procs'[q] = procs[q]
    BY <1>1, <1>2 DEF KnowInv
  <2> QED
    BY <2>1 DEF Ran, KnowInv
<1>3. ASSUME NEW q \in Procs, OnRecord(q) PROVE OnRecord(q)'
  BY <1>3 DEF EntriesMove, OnRecord
<1>4. ASSUME procs[p].stage = "REPLAY_READ", NEW q \in procs[p].earlier, NEW e \in procs[p].listed,
             Ran(q)', Newer(q, e)', q \notin procs[p].listed
      PROVE  entries'[q].file = "GONE"
  <2>1. q \in Procs /\ Ran(q) /\ OnRecord(q)
    BY <1>2, <1>4
  <2>2. e \in Procs /\ entries[e].file # "NONE"
    BY <1>4 DEF KnowInv
  <2>3. Newer(q, e)
    BY <1>4, <2>1, <2>2, NewerStays DEF OnRecord
  <2>4. entries[q].file = "GONE"
    BY <1>4, <2>1, <2>3 DEF KnowInv
  <2> QED
    BY <2>1, <2>4 DEF EntriesMove
<1>5. ASSUME procs[p].answer = "REPLAYED", NEW q \in procs[p].earlier,
             Ran(q)', Newer(q, procs[p].source)', Competes(q, procs[p].source)'
      PROVE  entries'[q].file = "GONE"
  <2>1. PICK e \in Procs : e = procs[p].source /\ procs[e].claimed /\ OnRecord(e)
    BY <1>5 DEF IInv, ProcInv, SourceInv, SourceOK
  <2>2. q \in Procs /\ Ran(q) /\ OnRecord(q) /\ procs'[q] = procs[q]
    BY <1>2, <1>5
  <2>3. /\ Newer(q, e)' = Newer(q, e)
        /\ entries'[q].failure = entries[q].failure
        /\ entries'[e].failure = entries[e].failure
    BY <2>1, <2>2, NewerStays DEF OnRecord
  <2>4. Newer(q, e)' /\ Competes(q, e)'
    BY <1>5, <2>1
  <2>5. procs'[e].claimed = procs[e].claimed /\ procs'[e].nonce = procs[e].nonce
        /\ procs'[e].sem = procs[e].sem
    BY <2>1
  <2>6. Competes(q, e)' = Competes(q, e)
    BY <2>2, <2>3, <2>5 DEF Competes, Scope, SameFingerprint, Nonce
  <2>7. entries[q].file = "GONE"
    BY <1>5, <2>1, <2>2, <2>3, <2>4, <2>6 DEF KnowInv
  <2> QED
    BY <2>2, <2>7 DEF EntriesMove
<1>6. procs[p].answer = "RECORDED" => OnRecord(p)'
  BY <1>3 DEF KnowInv
<1>7. procs[p].stage = "REPLAY_READ" =>
        procs[p].listed \subseteq {e \in Procs : entries'[e].file # "NONE"}
  BY DEF KnowInv, EntriesMove
<1> QED
  BY <1>2, <1>4, <1>5, <1>6, <1>7 DEF KnowInv

\* The process that takes the step.
LEMMA KnowStep ==
  ASSUME IInv, NEW p \in Procs, \A q \in Procs : KnowInv(q), EntriesMove, Moved(p)
  PROVE  KnowInv(p)'
<1>1. /\ TypeOK /\ ProcInv(p) /\ procs[p].earlier \subseteq Procs
      /\ procs[p].stage \notin {"IDLE", "DONE", "CRASHED"} /\ procs'[p].earlier = procs[p].earlier
  BY DEF IInv, TypeOK, Proc, Moved
<1>2. ASSUME NEW q \in procs[p].earlier
      PROVE  q \in Procs /\ q # p /\ procs[q].stage = "DONE" /\ procs'[q] = procs[q]
  BY <1>1, <1>2 DEF KnowInv, Moved
<1>3. procs'[p].answer = "RECORDED" => OnRecord(p)'
  BY <1>1 DEF Moved, ProcInv, EntryInv, OnRecord, EntriesMove
<1>4. ASSUME procs'[p].stage = "REPLAY_READ"
      PROVE  /\ procs'[p].listed \subseteq {e \in Procs : entries'[e].file # "NONE"}
             /\ \A q \in procs'[p].earlier, e \in procs'[p].listed :
                  Ran(q)' /\ Newer(q, e)' => q \in procs'[p].listed \/ entries'[q].file = "GONE"
  <2>1. ReplayList(p) /\ entries' = entries
    BY <1>4 DEF Moved, ReplayList, ListHistory
  <2>2. "REPLAY_READ" \in Stages
    BY DEF Stages
  <2>3. procs'[p].listed = Newest(Existing, Retention)
    BY <1>1, <2>1, <2>2, ListMoves DEF ReplayList, Existing
  <2>4. Newest(Existing, Retention) \subseteq Existing /\ Existing \subseteq Procs
    BY DEF Newest, Existing
  <2>5. ASSUME NEW q \in procs[p].earlier, NEW e \in Newest(Existing, Retention),
               Ran(q)', Newer(q, e)', entries[q].file # "GONE"
        PROVE  q \in Newest(Existing, Retention)
    <3>1. q \in Procs /\ Ran(q)
      BY <1>2, <2>5 DEF Ran
    <3>2. OnRecord(q)
      BY <3>1 DEF KnowInv, Ran
    <3>3. q \in Existing
      BY <2>5, <3>1, <3>2 DEF OnRecord, Existing, Exists
    <3>4. Newer(q, e)
      BY <2>1, <2>5 DEF Newer
    <3> QED
      BY <1>1, <2>4, <2>5, <3>3, <3>4, NewestClosed, NonceHistoryAssumption DEF NonceHistoryAssumption
  <2>6. \A e \in Existing : entries'[e].file # "NONE"
    BY <2>1 DEF Existing, Exists
  <2>7. procs'[p].listed \subseteq {e \in Procs : entries'[e].file # "NONE"}
    BY <2>3, <2>4, <2>6
  <2> QED
    BY <1>1, <2>1, <2>3, <2>5, <2>7
<1>5. ASSUME procs'[p].answer = "REPLAYED", NEW q \in procs[p].earlier,
             Ran(q)', Newer(q, procs[p].source)', Competes(q, procs[p].source)'
      PROVE  entries'[q].file = "GONE"
  <2>1. ReplayRead(p) /\ procs[p].stage = "REPLAY_READ" /\ entries' = entries
    BY <1>5 DEF Moved, ReplayRead, At
  <2>2. PICK e \in Procs : e = procs[p].source /\ procs[e].claimed /\ OnRecord(e)
    BY <1>1, <2>1 DEF ProcInv, SourceInv, SourceOK
  <2>3. /\ Active(e, procs[p].listed)
        /\ procs'[p].source = e /\ procs'[p].nonce = procs[p].nonce
        /\ procs'[p].sem = procs[p].sem /\ procs'[p].claimed = procs[p].claimed
    <3>1. "REJECTED" \in Answers /\ "NOT_CURRENT" \in Answers /\ "REPLAYED" \in Answers
      BY DEF Answers
    <3>2. /\ Ends(p, "REJECTED") => procs'[p].answer = "REJECTED"
          /\ Ends(p, "NOT_CURRENT") => procs'[p].answer = "NOT_CURRENT"
      BY <1>1, <3>1, EndsMoves
    <3>3. Active(e, procs[p].listed) /\ Ends(p, "REPLAYED")
      BY <1>5, <2>1, <2>2, <3>2 DEF ReplayRead, Throws
    <3> QED
      BY <1>1, <2>2, <3>1, <3>3, EndsMoves
  <2>4. e \in procs[p].listed /\ ~Superseded(e, procs[p].listed)
    BY <2>3 DEF Active
  <2>5. q \in Procs /\ Ran(q) /\ procs'[q] = procs[q]
    BY <1>2, <1>5 DEF Ran
  <2>6. \A r \in Procs : /\ procs'[r].nonce = procs[r].nonce /\ procs'[r].sem = procs[r].sem
                         /\ procs'[r].claimed = procs[r].claimed
    BY <2>3 DEF Moved
  <2>7. Newer(q, e)' /\ Competes(q, e)'
    BY <1>5, <2>3
  <2>8. Newer(q, e) /\ Competes(q, e)
    BY <2>1, <2>2, <2>5, <2>6, <2>7 DEF Newer, Competes, Scope, SameFingerprint, Nonce, Lasting
  <2>9. q \notin procs[p].listed
    BY <2>4, <2>8 DEF Superseded
  <2> QED
    BY <2>1, <2>4, <2>5, <2>8, <2>9 DEF KnowInv
<1> QED
  BY <1>1, <1>2, <1>3, <1>4, <1>5 DEF KnowInv

LEMMA KnowNext ==
  ASSUME IInv, \A q \in Procs : KnowInv(q), [Next]_vars
  PROVE  \A q \in Procs : KnowInv(q)'
<1>1. ASSUME NEW p \in Procs, Step(p) \/ Crash(p), NEW q \in Procs
      PROVE  KnowInv(q)'
  <2>1. Moved(p)
    BY <1>1, StepMoves
  <2>2. EntriesMove
    BY <1>1, StepEntries, CreateEntryEntries DEF EntriesOnward
  <2>3. CASE q = p
    BY <2>1, <2>2, <2>3, KnowStep
  <2>4. CASE q # p
    <3>1. /\ procs'[q] = procs[q]
          /\ \A r \in Procs : procs[r].stage = "DONE" => procs'[r] = procs[r]
          /\ \A r \in Procs : procs[r].claimed =>
               /\ procs'[r].claimed /\ procs'[r].nonce = procs[r].nonce
               /\ procs'[r].sem = procs[r].sem
      BY <2>1, <2>4 DEF Moved
    <3> QED
      BY <2>2, <3>1, KnowStays
  <2> QED
    BY <2>3, <2>4
<1>2. ASSUME NEW p \in Procs, NEW n \in Nonces, NEW s \in Semantics,
             Request(p, n, s) \/ RequestFails(p, n, s), NEW q \in Procs
      PROVE  KnowInv(q)'
  <2>1. /\ EntriesMove
        /\ \A r \in Procs \ {p} : procs'[r] = procs[r]
        /\ procs[p].stage = "IDLE" /\ procs'[p].stage \in {"CLAIM", "WRITE"}
        /\ procs'[p].answer = "NONE" /\ ~procs[p].claimed
        /\ procs'[p].earlier = procs[p].earlier \/ procs'[p].earlier = {r \in Procs : At(r, "DONE")}
    BY <1>2, BeginEntries DEF EntriesOnward
  <2>2. CASE q = p
    <3>1. \A r \in procs'[p].earlier : r \in Procs /\ procs[r].stage = "DONE"
      BY <2>1 DEF KnowInv, At, IInv, TypeOK, Proc
    <3>2. \A r \in procs'[p].earlier : procs'[r].stage = "DONE"
      BY <2>1, <3>1
    <3> QED
      BY <2>1, <2>2, <3>2 DEF KnowInv
  <2>3. CASE q # p
    BY <2>1, <2>3, KnowStays
  <2> QED
    BY <2>2, <2>3
<1>3. ASSUME Tick \/ ClearStep, NEW q \in Procs
      PROVE  KnowInv(q)'
  BY <1>3, NobodysEntries, KnowStays DEF EntriesOnward
<1>4. ASSUME UNCHANGED vars, NEW q \in Procs
      PROVE  KnowInv(q)'
  BY <1>4, SameEntries, KnowStays DEF vars, EntriesOnward
<1> QED
  BY <1>1, <1>2, <1>3, <1>4 DEF Next

LEMMA KnowInit == Init => \A q \in Procs : KnowInv(q)
BY DEF Init, IdleProc, KnowInv

\* A preflight that began after a fresh run of the same scope had ended does
\* not return an older receipt (assertReceiptActiveInHistory reads the newest
\* entries, so it misses the fresh one only when that was removed).
THEOREM StaleIsNotReplayed == Spec => []NoStaleReplay
<1> DEFINE All == \A q \in Procs : KnowInv(q)
<1>1. Init => All
  BY KnowInit
<1>2. IInv /\ All /\ [Next]_vars => All'
  BY KnowNext
<1>3. All => NoStaleReplay
  BY DEF KnowInv, NoStaleReplay
<1> HIDE DEF All
<1> QED
  BY <1>1, <1>2, <1>3, Invariant, PTL DEF Spec

-----------------------------------------------------------------------------
(* The limit of the history.                                               *)

\* Less-than on numbers as a relation, and that it has no infinite descent.
LessThan == {ss \in Nat \X Nat : ss[1] < ss[2]}
LEMMA LessThanWellFounded == IsWellFoundedOn(LessThan, Nat)
BY NatLessThanWellFounded DEF OpToRel, LessThan

LEMMA LeastNat ==
  ASSUME NEW S \in SUBSET Nat, S # {}
  PROVE  \E x \in S : \A y \in S : x <= y
<1>1. PICK x \in S : \A y \in S : ~(<<y, x>> \in LessThan)
  BY LessThanWellFounded, WFMin
<1>2. x \in Nat /\ \A y \in S : y \in Nat
  OBVIOUS
<1>3. \A y \in Nat : y < x => <<y, x>> \in LessThan
  BY <1>2 DEF LessThan
<1>4. \A y \in S : x <= y
  <2> SUFFICES ASSUME NEW y \in S, ~(x <= y) PROVE FALSE
    OBVIOUS
  <2>1. y < x
    BY <1>2
  <2> QED
    BY <1>1, <1>2, <1>3, <2>1
<1> QED
  BY <1>4

LEMMA ProcsFinite == IsFiniteSet(Procs)
BY FS_Interval, NonceHistoryAssumption DEF Procs, NonceHistoryAssumption

\* File names are totally ordered, so some entry of a set is older than the others.
LEMMA OldestExists ==
  ASSUME TypeOK, NEW S \in SUBSET Procs, S # {}
  PROVE  \E m \in S : \A o \in S \ {m} : Newer(o, m)
<1> DEFINE older(r) == {o \in S : Newer(r, o)}
           ranks == {Cardinality(older(r)) : r \in S}
<1>1. \A o \in Procs : entries[o].at \in Int /\ o \in Int
  BY NonceHistoryAssumption DEF TypeOK, Entry, Procs, NonceHistoryAssumption
<1>2. ASSUME NEW r \in S PROVE IsFiniteSet(older(r)) /\ Cardinality(older(r)) \in Nat
  BY ProcsFinite, FS_Subset, FS_CardinalityType
<1>3. ranks \in SUBSET Nat /\ ranks # {}
  BY <1>2
<1>4. PICK k \in ranks : \A l \in ranks : k <= l
  BY <1>3, LeastNat
<1>5. PICK m \in S : k = Cardinality(older(m))
  OBVIOUS
<1>6. ASSUME NEW o \in S, Newer(m, o) PROVE FALSE
  <2>1. older(o) \subseteq older(m) \ {o}
    <3> SUFFICES ASSUME NEW w \in older(o) PROVE w \in older(m) /\ w # o
      OBVIOUS
    <3>1. w \in Procs /\ o \in Procs /\ m \in Procs /\ w \in S /\ Newer(o, w)
      OBVIOUS
    <3> QED
      BY <1>1, <1>6, <3>1 DEF Newer
  <2>2. o \in older(m)
    BY <1>6
  <2>3. Cardinality(older(m) \ {o}) = Cardinality(older(m)) - 1 /\ IsFiniteSet(older(m) \ {o})
    BY <1>2, <2>2, FS_RemoveElement
  <2>4. Cardinality(older(o)) <= Cardinality(older(m) \ {o})
    BY <2>1, <2>3, FS_Subset
  <2>5. k <= Cardinality(older(o))
    BY <1>4
  <2>6. Cardinality(older(o)) \in Nat /\ Cardinality(older(m)) \in Nat
    BY <1>2
  <2> HIDE DEF older
  <2> QED
    BY <1>5, <2>3, <2>4, <2>5, <2>6
<1>7. ASSUME NEW o \in S \ {m} PROVE Newer(o, m)
  <2>1. o \in Procs /\ m \in Procs /\ ~Newer(m, o) /\ o # m
    BY <1>6
  <2> QED
    BY <1>1, <2>1 DEF Newer
<1> QED
  BY <1>7

\* There are at most n newest.
LEMMA NewestCount ==
  ASSUME TypeOK, NEW E \in SUBSET Procs, NEW n \in Nat
  PROVE  IsFiniteSet(Newest(E, n)) /\ Cardinality(Newest(E, n)) <= n
<1> DEFINE S == Newest(E, n)
<1>1. S \in SUBSET Procs /\ S \subseteq E
  BY DEF Newest
<1>2. IsFiniteSet(S) /\ Cardinality(S) \in Nat
  BY <1>1, ProcsFinite, FS_Subset, FS_CardinalityType
<1>3. CASE S = {}
  BY <1>2, <1>3, FS_EmptySet
<1>4. CASE S # {}
  <2>1. PICK m \in S : \A o \in S \ {m} : Newer(o, m)
    BY <1>1, <1>4, OldestExists
  <2> DEFINE above == {o \in E : Newer(o, m)}
  <2>2. S \ {m} \subseteq above
    BY <1>1, <2>1
  <2>3. IsFiniteSet(above) /\ Cardinality(above) \in Nat
    BY ProcsFinite, FS_Subset, FS_CardinalityType
  <2>4. Cardinality(above) < n
    BY <2>1 DEF Newest
  <2>5. Cardinality(S \ {m}) = Cardinality(S) - 1
    BY <1>2, <2>1, FS_RemoveElement
  <2>6. Cardinality(S \ {m}) <= Cardinality(above)
    BY <2>2, <2>3, FS_Subset
  <2> HIDE DEF S, above
  <2>7. Cardinality(S) <= n
    BY <1>2, <2>3, <2>4, <2>5, <2>6
  <2> QED
    BY <1>2, <2>7 DEF S
<1> QED
  BY <1>3, <1>4

\* The history is within its limit, or somebody will yet see to it: who has
\* created an entry and has not listed the history, or who still has the names
\* to remove that are too many. Who fails leaves them.
Fits(S) == Cardinality(S) <= Retention

Failed(p) == procs[p].stage = "CRASHED" \/ procs[p].answer = "REJECTED"

WillList(p) == procs[p].stage \in {"FILL_ENTRY", "TRIM"}

WillRemove(p) ==
  /\ procs[p].stage \in {"TRIM_ENTRY", "TRIM_CLAIM", "TRIM_RESULT"}
  /\ Fits(Existing \ (procs[p].todo \cup {procs[p].target}))

LimitInv ==
  \/ \E p \in Procs : Failed(p) \/ WillList(p) \/ WillRemove(p)
  \/ Fits(Existing)

LEMMA FitsLess ==
  ASSUME NEW S, NEW T \in SUBSET Procs, Fits(T), S \subseteq T
  PROVE  Fits(S)
<1>1. IsFiniteSet(T)
  BY ProcsFinite, FS_Subset
<1>2. IsFiniteSet(S) /\ Cardinality(S) <= Cardinality(T)
  BY <1>1, FS_Subset
<1>3. Cardinality(S) \in Nat /\ Cardinality(T) \in Nat
  BY <1>1, <1>2, FS_CardinalityType
<1> QED
  BY <1>2, <1>3, NonceHistoryAssumption DEF Fits, NonceHistoryAssumption

\* What another process has promised stays promised.
LEMMA LimitOther ==
  ASSUME Existing' \subseteq Existing, NEW q \in Procs, procs'[q] = procs[q],
         Failed(q) \/ WillList(q) \/ WillRemove(q)
  PROVE  Failed(q)' \/ WillList(q)' \/ WillRemove(q)'
<1>1. CASE Failed(q) \/ WillList(q)
  BY <1>1 DEF Failed, WillList
<1>2. CASE WillRemove(q)
  <2> DEFINE gone == procs[q].todo \cup {procs[q].target}
  <2>1. Existing' \ gone \subseteq Existing \ gone /\ Existing \ gone \in SUBSET Procs
    BY DEF Existing
  <2>2. Fits(Existing' \ gone)
    BY <1>2, <2>1, FitsLess DEF WillRemove
  <2> QED
    BY <1>2, <2>2 DEF WillRemove, Fits
<1> QED
  BY <1>1, <1>2

\* Retirement begins or goes on with names whose removal is enough.
LEMMA LimitRetires ==
  ASSUME IInv, NEW p \in Procs, NEW todo \in SUBSET Procs, Retires(p, todo),
         entries' = entries, Fits(Existing \ todo)
  PROVE  LimitInv'
<1>1. Existing' = Existing
  BY DEF Existing, Exists
<1>2. TypeOK
  BY DEF IInv
<1>3. \/ /\ procs'[p].stage = "TRIM_ENTRY"
         /\ todo = procs'[p].todo \cup {procs'[p].target}
      \/ todo = {}
  BY <1>2, RetiresMoves
<1>4. CASE todo = {}
  <2>1. Existing \ todo = Existing
    BY <1>4
  <2> QED
    BY <1>1, <2>1 DEF LimitInv, Fits
<1>5. CASE /\ procs'[p].stage = "TRIM_ENTRY"
           /\ todo = procs'[p].todo \cup {procs'[p].target}
  BY <1>1, <1>5 DEF LimitInv, WillRemove, Fits
<1> QED
  BY <1>3, <1>4, <1>5

\* What p itself has promised, it does.
LEMMA LimitOwn ==
  ASSUME IInv, NEW p \in Procs, Step(p) \/ Crash(p), WillList(p) \/ WillRemove(p),
         EntriesOnward
  PROVE  LimitInv'
<1>0. TypeOK /\ procs[p] \in Proc /\ ProcInv(p)
  BY DEF IInv, TypeOK
<1>1. "REJECTED" \in Answers /\ {"TRIM", "TRIM_CLAIM", "TRIM_RESULT"} \subseteq Stages
  BY DEF Answers, Stages
<1>2. CASE Throws(p)
  <2>1. procs'[p].answer = "REJECTED"
    BY <1>0, <1>1, <1>2, EndsMoves DEF Throws
  <2> QED
    BY <2>1 DEF LimitInv, Failed
<1>3. CASE Crash(p)
  <2> DEFINE proc == [procs[p] EXCEPT !.stage = "CRASHED", !.listed = {}, !.target = Nobody,
                                      !.todo = {}]
  <2>1. procs' = [procs EXCEPT ![p] = proc]
    BY <1>3 DEF Crash
  <2>2. proc \in Proc /\ proc.stage = "CRASHED"
    BY <1>0 DEF Proc, Stages
  <2> HIDE DEF proc
  <2>3. procs'[p].stage = "CRASHED"
    BY <1>0, <2>1, <2>2, Becomes
  <2> QED
    BY <2>3 DEF LimitInv, Failed
<1>4. CASE FillEntry(p)
  <2>1. procs'[p].stage = "TRIM"
    BY <1>0, <1>1, <1>4, GoToMoves DEF FillEntry
  <2> QED
    BY <2>1 DEF LimitInv, WillList
<1>5. CASE TrimList(p) /\ ~Throws(p)
  <2>1. Overflow = Existing \ Newest(Existing, Retention) /\ Overflow \in SUBSET Procs
    BY DEF Overflow, Existing
  <2>2. Existing \ Overflow = Newest(Existing, Retention)
    BY <2>1 DEF Newest
  <2>3. Existing \in SUBSET Procs /\ Retention \in Nat
    BY NonceHistoryAssumption DEF Existing, NonceHistoryAssumption
  <2>4. Fits(Existing \ Overflow)
    BY <1>0, <2>2, <2>3, NewestCount DEF Fits
  <2>5. Retires(p, Overflow) /\ entries' = entries
    BY <1>5 DEF TrimList
  <2> QED
    BY <2>1, <2>4, <2>5, LimitRetires
<1>6. ASSUME WillRemove(p), GoTo(p, "TRIM_CLAIM") \/ GoTo(p, "TRIM_RESULT")
      PROVE  LimitInv'
  <2>1. /\ procs'[p].stage \in {"TRIM_CLAIM", "TRIM_RESULT"}
        /\ procs'[p].target = procs[p].target /\ procs'[p].todo = procs[p].todo
    BY <1>0, <1>1, <1>6, GoToMoves
  <2> DEFINE gone == procs[p].todo \cup {procs[p].target}
  <2>2. Existing' \ gone \subseteq Existing \ gone /\ Existing \ gone \in SUBSET Procs
    BY DEF Existing, EntriesOnward
  <2>3. Fits(Existing' \ gone)
    BY <1>6, <2>2, FitsLess DEF WillRemove
  <2> QED
    BY <2>1, <2>3 DEF LimitInv, WillRemove, Fits
<1>7. ASSUME WillRemove(p), TrimResult(p)
      PROVE  LimitInv'
  <2>1. entries[procs[p].target].file = "GONE"
    BY <1>0, <1>7 DEF ProcInv, TrimInv, TrimResult, At
  <2>2. Existing \ (procs[p].todo \cup {procs[p].target}) = Existing \ procs[p].todo
    BY <2>1 DEF Existing, Exists
  <2>3. Fits(Existing \ procs[p].todo)
    BY <1>7, <2>2 DEF WillRemove
  <2>4. PICK todo \in SUBSET Procs : todo = procs[p].todo
    BY <1>0 DEF Proc
  <2>5. Retires(p, todo) /\ entries' = entries /\ Fits(Existing \ todo)
    BY <1>7, <2>3, <2>4 DEF TrimResult
  <2> QED
    BY <2>5, LimitRetires
<1>8. /\ WillList(p) => Crash(p) \/ FillEntry(p) \/ TrimList(p)
      /\ WillRemove(p) => Crash(p) \/ TrimEntry(p) \/ TrimClaim(p) \/ TrimResult(p)
  BY DEF WillList, WillRemove, Step, ClaimStep, WriteStep, CompleteStep, At, ReadResult,
    CreateClaim, ClaimExists, FillClaim, ReadClaim, PollResult, WaitTimesOut, ReplayList,
    ReplayRead, RunEnds, RunThrows, WriteList, WriteRead, CreateEntry, FillEntry, TrimList,
    TrimEntry, TrimClaim, TrimResult, ReadOwnClaim, CreateResult, FillResult, ChmodResult
<1> QED
  BY <1>2, <1>3, <1>4, <1>5, <1>6, <1>7, <1>8 DEF TrimEntry, TrimClaim

\* A step that leaves the entries, or removes some, when the history fits.
LEMMA LimitLess ==
  ASSUME Fits(Existing), Existing' \subseteq Existing
  PROVE  LimitInv'
<1>1. Existing \in SUBSET Procs
  BY DEF Existing
<1>2. Fits(Existing')
  BY <1>1, FitsLess
<1> QED
  BY <1>2 DEF LimitInv, Fits

LEMMA LimitNext == IInv /\ LimitInv /\ [Next]_vars => LimitInv'
<1> SUFFICES ASSUME IInv, LimitInv, [Next]_vars PROVE LimitInv'
  OBVIOUS
<1>1. ASSUME NEW p \in Procs, \A q \in Procs \ {p} : procs'[q] = procs[q],
             ~Failed(p), ~WillList(p), ~WillRemove(p), EntriesOnward
      PROVE  LimitInv'
  <2>1. CASE Fits(Existing)
    BY <1>1, <2>1, LimitLess DEF EntriesOnward
  <2>2. CASE \E q \in Procs \ {p} : Failed(q) \/ WillList(q) \/ WillRemove(q)
    BY <1>1, <2>2, LimitOther DEF EntriesOnward, LimitInv
  <2> QED
    BY <1>1, <2>1, <2>2 DEF LimitInv
<1>2. ASSUME NEW p \in Procs, Step(p) \/ Crash(p), ~CreateEntry(p)
      PROVE  LimitInv'
  <2>1. Moved(p) /\ EntriesOnward
    BY <1>2, StepMoves, StepEntries
  <2>2. ~Failed(p)
    BY <2>1 DEF Moved, Failed
  <2>3. CASE WillList(p) \/ WillRemove(p)
    BY <1>2, <2>1, <2>3, LimitOwn
  <2>4. CASE ~(WillList(p) \/ WillRemove(p))
    BY <1>1, <2>1, <2>2, <2>4 DEF Moved
  <2> QED
    BY <2>3, <2>4
<1>3. ASSUME NEW p \in Procs, CreateEntry(p)
      PROVE  LimitInv'
  BY <1>3, CreateEntryEntries DEF LimitInv, WillList
<1>4. ASSUME NEW p \in Procs, NEW n \in Nonces, NEW s \in Semantics,
             Request(p, n, s) \/ RequestFails(p, n, s)
      PROVE  LimitInv'
  <2>1. /\ EntriesOnward /\ \A q \in Procs \ {p} : procs'[q] = procs[q]
        /\ procs[p].stage = "IDLE"
    BY <1>4, BeginEntries
  <2>2. ~Failed(p) /\ ~WillList(p) /\ ~WillRemove(p)
    BY <2>1 DEF Failed, WillList, WillRemove, IInv, ProcInv, SourceInv
  <2> QED
    BY <1>1, <2>1, <2>2
<1>5. ASSUME procs' = procs, EntriesOnward
      PROVE  LimitInv'
  BY <1>5, LimitOther, LimitLess DEF LimitInv, EntriesOnward
<1>6. CASE Tick \/ ClearStep
  BY <1>5, <1>6, NobodysEntries
<1>7. CASE UNCHANGED vars
  BY <1>5, <1>7, SameEntries DEF vars
<1> QED
  BY <1>2, <1>3, <1>4, <1>6, <1>7 DEF Next

LEMMA LimitInit == Init => LimitInv
<1> SUFFICES ASSUME Init PROVE LimitInv
  OBVIOUS
<1>1. Existing = {}
  BY DEF Init, NoEntry, Existing, Exists
<1> QED
  BY <1>1, FS_EmptySet, NonceHistoryAssumption DEF LimitInv, Fits, NonceHistoryAssumption

\* Once every preflight has ended without an error the history is within its
\* limit (retireHistoryEntries), in whatever order the writers listed it.
THEOREM HistoryIsBounded == Spec => []RetentionHolds
<1>1. ASSUME LimitInv,
             \A p \in Procs : At(p, "IDLE") \/ (At(p, "DONE") /\ procs[p].answer # "REJECTED"),
             \A p \in Procs : At(p, "IDLE") => procs[p].answer # "REJECTED"
      PROVE  Cardinality({p \in Procs : Exists(p)}) <= Retention
  <2>1. ASSUME NEW p \in Procs PROVE ~(Failed(p) \/ WillList(p) \/ WillRemove(p))
    BY <1>1 DEF Failed, WillList, WillRemove, At
  <2> QED
    BY <1>1, <2>1 DEF LimitInv, Fits, Existing
<1>2. IInv => \A p \in Procs : At(p, "IDLE") => procs[p].answer # "REJECTED"
  BY DEF IInv, ProcInv, SourceInv, At
<1>3. IInv /\ LimitInv => RetentionHolds
  BY <1>1, <1>2 DEF RetentionHolds
<1> QED
  BY <1>3, LimitInit, LimitNext, Invariant, PTL DEF Spec


-----------------------------------------------------------------------------
(* The refinement of RunOncePerNonce.  A step changes at most one of the   *)
(* abstract variables: the history is read off the entries and the         *)
(* results, and of a preflight only what it asked for, whether it holds a  *)
(* claim and what it was answered.                                         *)

\* Who has not asked brings nothing; who is not past the claim has not run.
FreshInv(p) ==
  /\ procs[p].stage = "IDLE" => procs[p].nonce = "NONE" /\ procs[p].sem = "NONE"
  /\ procs[p].stage \in Early => ~procs[p].claimed
  /\ procs[p].answer = "REPLAYED" => ~procs[p].claimed

LEMMA FreshInit == Init => \A p \in Procs : FreshInv(p)
BY DEF Init, IdleProc, FreshInv

LEMMA FreshNext ==
  ASSUME IInv, \A p \in Procs : FreshInv(p), [Next]_vars
  PROVE  \A p \in Procs : FreshInv(p)'
<1> SUFFICES ASSUME NEW q \in Procs PROVE FreshInv(q)'
  OBVIOUS
<1>1. CASE procs' = procs
  BY <1>1 DEF FreshInv
<1>2. ASSUME NEW p \in Procs, Step(p) \/ Crash(p)
      PROVE  FreshInv(q)'
  <2>1. Moved(p)
    BY <1>2, StepMoves
  <2>2. CASE q = p
    <3>1. procs'[p].stage \in Early => ~procs'[p].claimed
      BY <2>1 DEF FreshInv, Moved, Early
    <3>2. ASSUME procs'[p].answer = "REPLAYED" PROVE ~procs'[p].claimed
      <4>1. procs[p].stage = "REPLAY_READ"
        BY <2>1, <3>2 DEF Moved, ReplayRead, At
      <4> QED
        BY <2>1, <4>1 DEF Moved, FreshInv, Early, FillClaim, At
    <3> QED
      BY <2>1, <2>2, <3>1, <3>2 DEF FreshInv, Moved
  <2>3. CASE q # p
    BY <2>1, <2>3 DEF FreshInv, Moved
  <2> QED
    BY <2>2, <2>3
<1>3. ASSUME NEW p \in Procs, NEW n \in Nonces, NEW s \in Semantics,
             Request(p, n, s) \/ RequestFails(p, n, s)
      PROVE  FreshInv(q)'
  BY <1>3, BeginEntries DEF FreshInv
<1>4. Tick \/ ClearStep => procs' = procs
  BY NobodysEntries
<1> QED
  BY <1>1, <1>2, <1>3, <1>4 DEF Next, vars

\* A result that is not there has no creator.
BlankResults == \A n \in Nonces : results[n].file = "NONE" => results[n].by = Nobody

LEMMA BlankInit == Init => BlankResults
BY DEF Init, NoFile, BlankResults

LEMMA BlankNext ==
  ASSUME IInv, BlankResults, [Next]_vars
  PROVE  BlankResults'
<1>0. results \in [Nonces -> File]
  BY DEF IInv, TypeOK
<1>1. ASSUME NEW n, NEW f, f.file = "NONE" => f.by = Nobody, results' = [results EXCEPT ![n] = f]
      PROVE  BlankResults'
  BY <1>0, <1>1 DEF BlankResults
<1>2. NoFile.file = "NONE" => NoFile.by = Nobody
  BY DEF NoFile
<1>3. CASE results' = results
  BY <1>3 DEF BlankResults
<1>4. ASSUME NEW p \in Procs, CreateResult(p) PROVE BlankResults'
  <2>1. \A n : [file |-> "EMPTY", by |-> p].file # "NONE"
    OBVIOUS
  <2> QED
    BY <1>1, <1>3, <1>4, <2>1 DEF CreateResult
<1>5. ASSUME NEW p \in Procs, FillResult(p) PROVE BlankResults'
  <2>1. Nonce(p) \in Nonces
    BY <1>5 DEF IInv, ProcInv, ClaimInv, FillResult, At
  <2> DEFINE f == [results[Nonce(p)] EXCEPT !.file = "WRITTEN"]
  <2>2. f.file # "NONE"
    BY <1>0, <2>1 DEF File
  <2>3. results' = results \/ results' = [results EXCEPT ![Nonce(p)] = f]
    BY <1>5 DEF FillResult, Filled
  <2> HIDE DEF f
  <2> QED
    BY <1>1, <1>3, <2>2, <2>3
<1>6. ASSUME NEW p \in Procs, TrimResult(p) PROVE BlankResults'
  BY <1>1, <1>2, <1>6 DEF TrimResult
<1>7. ASSUME NEW n \in Nonces, ClearResult(n) PROVE BlankResults'
  BY <1>1, <1>2, <1>7 DEF ClearResult
<1>8. ASSUME NEW p \in Procs, Step(p) \/ Crash(p), ~CreateResult(p), ~FillResult(p), ~TrimResult(p)
      PROVE  results' = results
  BY <1>8 DEF Step, ClaimStep, WriteStep, CompleteStep, Crash, ReadResult, CreateClaim,
    ClaimExists, FillClaim, ReadClaim, PollResult, WaitTimesOut, ReplayList, ReplayRead,
    RunEnds, RunThrows, WriteList, WriteRead, CreateEntry, FillEntry, TrimList, TrimEntry,
    TrimClaim, ListHistory, ReadOwnClaim, ChmodResult
<1>9. ASSUME NEW p \in Procs, Step(p) \/ Crash(p) PROVE BlankResults'
  BY <1>3, <1>4, <1>5, <1>6, <1>8, <1>9
<1>10. ASSUME Tick \/ (ClearStep /\ ~\E n \in Nonces : ClearResult(n))
              \/ (\E p \in Procs, n \in Nonces, s \in Semantics : Request(p, n, s) \/ RequestFails(p, n, s))
       PROVE  results' = results
  BY <1>10 DEF Tick, ClearStep, ClearList, ClearEntry, ClearClaim, ClearEnds, Unlinks, Request,
    RequestFails
<1> QED
  BY <1>3, <1>7, <1>9, <1>10 DEF Next, vars

\* Entries that are in place, and entries that were removed.
SameRecords ==
  \A q \in Procs :
    /\ entries'[q].file \in {"WRITTEN", "GONE"} <=> entries[q].file \in {"WRITTEN", "GONE"}
    /\ entries'[q].file = "GONE" <=> entries[q].file = "GONE"

LEMMA StepRecords ==
  ASSUME IInv, NEW p \in Procs, Step(p) \/ Crash(p), ~FillEntry(p), ~TrimEntry(p)
  PROVE  SameRecords
<1>1. TypeOK /\ entries[p] \in Entry /\ EntryInv(p)
  BY DEF IInv, TypeOK, ProcInv
<1>2. ASSUME NEW e, entries' = [entries EXCEPT ![p] = e], entries[p].file = "NONE",
             e.file \in {"NONE", "EMPTY"}
      PROVE  SameRecords
  BY <1>1, <1>2 DEF SameRecords, TypeOK
<1>3. CASE RunEnds(p)
  <2>1. PICK e \in Entry : /\ entries' = [entries EXCEPT ![p] = e]
                           /\ e.file = entries[p].file /\ e.at = clock
    BY <1>1, <1>3, Stamps
  <2>2. entries[p].file = "NONE" /\ e.file = "NONE"
    BY <1>1, <1>3, <2>1 DEF EntryInv, RunEnds, At, BeforeEntry
  <2> QED
    BY <1>2, <2>1, <2>2
<1>4. CASE WriteRead(p)
  <2>1. ASSUME NEW q, entries' = [entries EXCEPT ![p].supersedes = q]
        PROVE  SameRecords
    <3> DEFINE e == [entries[p] EXCEPT !.supersedes = q]
    <3>1. entries[p].file = "NONE" /\ e.file = "NONE"
      BY <1>1, <1>4 DEF Entry, EntryInv, WriteRead, At, BeforeEntry
    <3>2. entries' = [entries EXCEPT ![p] = e]
      BY <2>1
    <3> HIDE DEF e
    <3> QED
      BY <1>2, <3>1, <3>2
  <2>2. CASE UNCHANGED entries
    BY <2>2 DEF SameRecords
  <2> QED
    BY <1>4, <2>1, <2>2 DEF WriteRead
<1>5. CASE CreateEntry(p)
  <2> DEFINE e == [entries[p] EXCEPT !.file = "EMPTY"]
  <2>1. entries[p].file = "NONE" /\ e.file = "EMPTY"
    BY <1>1, <1>5 DEF Entry, EntryInv, CreateEntry, At, BeforeEntry
  <2>2. entries' = [entries EXCEPT ![p] = e]
    BY <1>5 DEF CreateEntry
  <2> HIDE DEF e
  <2> QED
    BY <1>2, <2>1, <2>2
<1>6. CASE ~(RunEnds(p) \/ WriteRead(p) \/ CreateEntry(p))
  <2>1. entries' = entries
    BY <1>6 DEF Step, ClaimStep, WriteStep, CompleteStep, Crash, ReadResult, CreateClaim,
      ClaimExists, FillClaim, ReadClaim, PollResult, WaitTimesOut, ReplayList, ReplayRead,
      RunThrows, WriteList, TrimList, TrimClaim, TrimResult, ListHistory,
      ReadOwnClaim, CreateResult, FillResult, ChmodResult
  <2> QED
    BY <2>1 DEF SameRecords
<1> QED
  BY <1>3, <1>4, <1>5, <1>6

\* What the results name.
SamePublished == \A n \in Nonces : publishedOf(n)' = publishedOf(n)

LEMMA StepPublished ==
  ASSUME IInv, NEW p \in Procs, Step(p) \/ Crash(p), ~FillResult(p), ~TrimResult(p)
  PROVE  SamePublished
<1>1. CASE UNCHANGED results
  BY <1>1 DEF SamePublished, publishedOf
<1>2. ASSUME NEW n, results[n].file = "NONE",
             results' = [results EXCEPT ![n] = [file |-> "EMPTY", by |-> p]]
      PROVE  SamePublished
  BY <1>2 DEF SamePublished, publishedOf, IInv, TypeOK
<1>3. CASE ~CreateResult(p)
  <2>1. results' = results
    BY <1>3 DEF Step, ClaimStep, WriteStep, CompleteStep, Crash, ReadResult, CreateClaim,
      ClaimExists, FillClaim, ReadClaim, PollResult, WaitTimesOut, ReplayList, ReplayRead,
      RunEnds, RunThrows, WriteList, WriteRead, CreateEntry, FillEntry, TrimList, TrimEntry,
      TrimClaim, ListHistory, ReadOwnClaim, ChmodResult
  <2> QED
    BY <1>1, <2>1
<1> QED
  BY <1>1, <1>2, <1>3 DEF CreateResult

-----------------------------------------------------------------------------
(* Abstract steps, one variable each.                                      *)

SameAsked == \A q \in Procs : askedOf(q)' = askedOf(q)
SameRuns == runs' = runs
SameRecorded == recorded' = recorded
SameAnswered == \A q \in Procs : answeredOf(q)' = answeredOf(q)
SameReleased == \A n \in Nonces : Released(n)' <=> Released(n)

SamePreflights == SameAsked /\ SameRuns /\ SameAnswered
SameHistory == SameRecorded /\ SamePublished /\ SameReleased

RefinedNext == [RunOnce!Next]_(RunOnce!vars)

LEMMA AskRefined ==
  ASSUME NEW p \in Procs, NEW n \in Nonces, NEW s \in Semantics,
         askedOf(p) = [nonce |-> "NONE", sem |-> "NONE"], p \notin runs,
         askedOf(p)' = [nonce |-> n, sem |-> s],
         \A q \in Procs \ {p} : askedOf(q)' = askedOf(q),
         SameRuns, SameAnswered, SameHistory
  PROVE  RefinedNext
<1>1. RunOnce!Ask(p, n, s)
  BY DEF RunOnce!Ask, SameRuns, SameAnswered, SameHistory, SameRecorded, SamePublished, SameReleased
<1> QED
  BY <1>1 DEF RefinedNext, RunOnce!Next

LEMMA BeginRefined ==
  ASSUME NEW p \in Procs, askedOf(p).nonce \in Nonces, p \notin runs, answeredOf(p) = Nobody,
         \A q \in runs : askedOf(q).nonce = askedOf(p).nonce => Released(askedOf(p).nonce),
         runs' = runs \cup {p}, SameAsked, SameAnswered, SameHistory
  PROVE  RefinedNext
<1>1. runs \subseteq Procs
  BY DEF runs
<1>2. RunOnce!Begin(p)
  BY <1>1 DEF RunOnce!Begin, SameAsked, SameAnswered, SameHistory, SameRecorded, SamePublished,
    SameReleased
<1> QED
  BY <1>2 DEF RefinedNext, RunOnce!Next

LEMMA RecordRefined ==
  ASSUME NEW p \in Procs, p \in runs \ recorded, recorded' = recorded \cup {p},
         SamePreflights, SamePublished, SameReleased
  PROVE  RefinedNext
<1>1. RunOnce!Record(p)
  BY DEF RunOnce!Record, SamePreflights, SameAsked, SameRuns, SameAnswered, SamePublished,
    SameReleased
<1> QED
  BY <1>1 DEF RefinedNext, RunOnce!Next

LEMMA PublishRefined ==
  ASSUME NEW p \in Procs, NEW n \in Nonces, askedOf(p).nonce = n, p \in recorded,
         publishedOf(n) = Nobody, publishedOf(n)' = p,
         \A m \in Nonces \ {n} : publishedOf(m)' = publishedOf(m),
         SamePreflights, SameRecorded, SameReleased
  PROVE  RefinedNext
<1>1. RunOnce!Publish(p)
  BY DEF RunOnce!Publish, SamePreflights, SameAsked, SameRuns, SameAnswered, SameRecorded,
    SameReleased
<1> QED
  BY <1>1 DEF RefinedNext, RunOnce!Next

LEMMA WithdrawRefined ==
  ASSUME NEW n \in Nonces, Released(n), publishedOf(n)' = Nobody,
         \A m \in Nonces \ {n} : publishedOf(m)' = publishedOf(m),
         SamePreflights, SameRecorded, SameReleased
  PROVE  RefinedNext
<1>1. RunOnce!Withdraw(n)
  BY DEF RunOnce!Withdraw, SamePreflights, SameAsked, SameRuns, SameAnswered, SameRecorded,
    SameReleased
<1> QED
  BY <1>1 DEF RefinedNext, RunOnce!Next

LEMMA AnswerRefined ==
  ASSUME NEW p \in Procs, NEW r \in Procs, p \notin runs, answeredOf(p) = Nobody, r \in recorded,
         askedOf(r) = askedOf(p), answeredOf(p)' = r,
         \A q \in Procs \ {p} : answeredOf(q)' = answeredOf(q),
         SameAsked, SameRuns, SameHistory
  PROVE  RefinedNext
<1>1. RunOnce!Answer(p, r)
  BY DEF RunOnce!Answer, SameAsked, SameRuns, SameHistory, SameRecorded, SamePublished,
    SameReleased
<1> QED
  BY <1>1 DEF RefinedNext, RunOnce!Next

\* A step may forget nonces; one that forgets none is a stutter.
LEMMA ForgetRefined ==
  ASSUME \A n \in Nonces : Released(n) => Released(n)',
         SamePreflights, SameRecorded, SamePublished
  PROVE  RefinedNext
<1> DEFINE S == {n \in Nonces : Released(n)'}
<1>1. S \in SUBSET Nonces
  OBVIOUS
<1>2. {n \in Nonces : Released(n)}' = {n \in Nonces : Released(n)} \cup S
  OBVIOUS
<1>3. RunOnce!Forget(S)
  BY <1>2 DEF RunOnce!Forget, SamePreflights, SameAsked, SameRuns, SameAnswered, SameRecorded,
    SamePublished
<1> QED
  BY <1>1, <1>3 DEF RefinedNext, RunOnce!Next

-----------------------------------------------------------------------------
(* The steps.                                                              *)

\* Entries that stay make records that stay, for runs that stay.
LEMMA RecordsStay ==
  ASSUME SameRecords, SameRuns
  PROVE  SameRecorded
BY DEF SameRecords, SameRuns, SameRecorded, recorded, runs

\* Nonces stay released, and unless an entry is removed no more are.
LEMMA ReleasedSame ==
  ASSUME SameRecords, SameAsked, (cleaner'.stage = "IDLE") <=> (cleaner.stage = "IDLE")
  PROVE  SameReleased
BY DEF SameRecords, SameAsked, SameReleased, Released, askedOf, Nonce

\* Of a preflight, all but the claim and the answer stays when it moves.
LEMMA MovedAsked ==
  ASSUME NEW p \in Procs, Moved(p)
  PROVE  SameAsked
BY DEF Moved, SameAsked, askedOf

LEMMA MovedRuns ==
  ASSUME NEW p \in Procs, Moved(p), ~FillClaim(p) \/ ~procs'[p].claimed
  PROVE  SameRuns
BY DEF Moved, SameRuns, runs

LEMMA MovedAnswered ==
  ASSUME NEW p \in Procs, Moved(p), procs'[p].answer # "REPLAYED"
  PROVE  SameAnswered
BY DEF Moved, SameAnswered, answeredOf

LEMMA FillClaimRefined ==
  ASSUME IInv, \A q \in Procs : FreshInv(q), NEW p \in Procs, FillClaim(p)
  PROVE  RefinedNext
<1>1. Moved(p) /\ ProcInv(p) /\ procs[p].stage = "FILL_CLAIM" /\ procs[p].answer = "NONE"
  BY StepMoves DEF Step, ClaimStep, IInv, FillClaim, At, Moved
<1>2. SameRecords /\ SamePublished
  BY DEF FillClaim, SameRecords, SamePublished, publishedOf
<1>3. procs'[p].answer # "REPLAYED"
  BY <1>1 DEF Moved, ReplayRead, At
<1>4. SameAsked /\ SameAnswered
  BY <1>1, <1>3, MovedAsked, MovedAnswered
<1>5. SameReleased
  BY <1>2, <1>4, ReleasedSame DEF FillClaim
<1>6. CASE ~procs'[p].claimed
  <2>1. SameRuns /\ SameRecorded
    BY <1>1, <1>2, <1>6, MovedRuns, RecordsStay
  <2> QED
    BY <1>2, <1>4, <1>5, <2>1, ForgetRefined DEF SamePreflights, SameReleased
<1>7. CASE procs'[p].claimed
  <2>1. p \notin runs /\ answeredOf(p) = Nobody
    BY <1>1 DEF runs, FreshInv, Early, answeredOf
  <2>2. askedOf(p).nonce \in Nonces
    BY <1>1 DEF askedOf, ProcInv, ClaimInv, Nonce
  <2>3. runs' = runs \cup {p}
    BY <1>1, <1>7 DEF Moved, runs
  <2>4. ASSUME NEW q \in runs, askedOf(q).nonce = askedOf(p).nonce
        PROVE  Released(askedOf(p).nonce)
    <3>1. q \in Procs /\ procs[q].claimed /\ ClaimInv(q) /\ ClaimInv(p) /\ p # q
      BY <2>1, <2>4 DEF runs, IInv, ProcInv
    <3>2. Nonce(q) = Nonce(p) /\ askedOf(p).nonce = Nonce(p)
      BY <2>4 DEF askedOf, Nonce
    <3> QED
      BY <1>1, <3>1, <3>2 DEF ClaimInv
  <2>5. entries[p].file = "NONE"
    BY <1>1 DEF ProcInv, EntryInv, BeforeEntry
  <2>6. SameRecorded
    BY <1>2, <2>3, <2>5 DEF SameRecords, SameRecorded, recorded, runs
  <2> QED
    BY <1>2, <1>4, <1>5, <2>1, <2>2, <2>3, <2>4, <2>6, BeginRefined DEF SameHistory
<1> QED
  BY <1>6, <1>7

LEMMA ReplayReadRefined ==
  ASSUME IInv, \A q \in Procs : FreshInv(q), NEW p \in Procs, ReplayRead(p)
  PROVE  RefinedNext
<1>1. /\ Moved(p) /\ ProcInv(p) /\ procs[p].stage = "REPLAY_READ" /\ procs[p].answer = "NONE"
      /\ FreshInv(p)
  BY StepMoves DEF Step, ClaimStep, IInv, ReplayRead, At, Moved
<1>2. SameRecords /\ SamePublished
  BY DEF ReplayRead, SameRecords, SamePublished, publishedOf
<1>3. SameAsked /\ SameRuns
  BY <1>1, MovedAsked, MovedRuns DEF FillClaim, At
<1>4. SameReleased /\ SameRecorded
  BY <1>2, <1>3, ReleasedSame, RecordsStay DEF ReplayRead
<1>5. CASE procs'[p].answer # "REPLAYED"
  <2>1. SameAnswered
    BY <1>1, <1>5, MovedAnswered
  <2> QED
    BY <1>2, <1>3, <1>4, <2>1, ForgetRefined DEF SamePreflights, SameReleased
<1>6. CASE procs'[p].answer = "REPLAYED"
  <2>1. PICK r \in Procs : r = procs[p].source /\ procs[r].claimed /\ OnRecord(r)
                           /\ askedOf(r) = askedOf(p)
    BY <1>1 DEF ProcInv, SourceInv, SourceOK, askedOf, Nonce
  <2>2. r \in recorded /\ p \notin runs /\ answeredOf(p) = Nobody
    BY <1>1, <2>1 DEF recorded, runs, OnRecord, FreshInv, Early, answeredOf
  <2>3. answeredOf(p)' = r
    BY <1>1, <1>6, <2>1 DEF answeredOf, Moved
  <2>4. \A q \in Procs \ {p} : answeredOf(q)' = answeredOf(q)
    BY <1>1 DEF answeredOf, Moved
  <2> QED
    BY <1>2, <1>3, <1>4, <2>1, <2>2, <2>3, <2>4, AnswerRefined DEF SameHistory
<1> QED
  BY <1>5, <1>6

\* All other steps leave of the preflights what the abstraction sees.
LEMMA OtherPreflights ==
  ASSUME IInv, NEW p \in Procs, Step(p) \/ Crash(p), ~FillClaim(p), ~ReplayRead(p)
  PROVE  SamePreflights
<1>1. Moved(p)
  BY StepMoves
<1>2. procs'[p].answer # "REPLAYED"
  BY <1>1 DEF Moved
<1> QED
  BY <1>1, <1>2, MovedAsked, MovedRuns, MovedAnswered DEF SamePreflights

LEMMA FillEntryRefined ==
  ASSUME IInv, NEW p \in Procs, FillEntry(p)
  PROVE  RefinedNext
<1>1. SamePreflights
  BY OtherPreflights DEF Step, WriteStep, FillEntry, FillClaim, ReplayRead, At
<1>2. TypeOK /\ entries[p].file # "NONE" /\ entries[p] \in Entry
  BY DEF IInv, TypeOK, ProcInv, EntryInv, FillEntry, At
<1>3. /\ \A q \in Procs \ {p} : entries'[q] = entries[q]
      /\ entries'[p].file = IF entries[p].file = "EMPTY" THEN "WRITTEN" ELSE entries[p].file
  BY <1>2 DEF FillEntry, TypeOK, Entry
<1>4. SamePublished
  BY DEF FillEntry, SamePublished, publishedOf
<1>5. \A q \in Procs : entries'[q].file = "GONE" <=> entries[q].file = "GONE"
  BY <1>3
<1>6. SameReleased
  BY <1>1, <1>5 DEF FillEntry, SameReleased, Released, SamePreflights, SameAsked, askedOf, Nonce
<1>7. CASE entries[p].file = "EMPTY" /\ p \in runs
  <2>1. p \in runs \ recorded
    BY <1>7 DEF recorded
  <2>2. recorded' = recorded \cup {p}
    BY <1>1, <1>3, <1>7 DEF recorded, runs, SamePreflights, SameRuns
  <2> QED
    BY <1>1, <1>4, <1>6, <2>1, <2>2, RecordRefined
<1>8. CASE ~(entries[p].file = "EMPTY" /\ p \in runs)
  <2>1. SameRecorded
    BY <1>1, <1>3, <1>8 DEF SameRecorded, recorded, runs, SamePreflights, SameRuns
  <2> QED
    BY <1>1, <1>4, <1>6, <2>1, ForgetRefined DEF SameReleased
<1> QED
  BY <1>7, <1>8

LEMMA TrimEntryRefined ==
  ASSUME IInv, NEW p \in Procs, TrimEntry(p)
  PROVE  RefinedNext
<1>1. SamePreflights
  BY OtherPreflights DEF Step, WriteStep, TrimEntry, FillClaim, ReplayRead, At
<1>2. SamePublished
  BY DEF TrimEntry, SamePublished, publishedOf
<1>3. /\ \A q \in Procs : entries'[q].file \in {"WRITTEN", "GONE"}
                            <=> entries[q].file \in {"WRITTEN", "GONE"}
      /\ \A q \in Procs : entries[q].file = "GONE" => entries'[q].file = "GONE"
  BY DEF TrimEntry, IInv, TypeOK, Entry
<1>4. SameRecorded
  BY <1>1, <1>3 DEF SameRecorded, recorded, runs, SamePreflights, SameRuns
<1>5. \A n \in Nonces : Released(n) => Released(n)'
  BY <1>1, <1>3 DEF TrimEntry, Released, SamePreflights, SameAsked, askedOf, Nonce
<1> QED
  BY <1>1, <1>2, <1>4, <1>5, ForgetRefined

LEMMA FillResultRefined ==
  ASSUME IInv, BlankResults, NEW p \in Procs, FillResult(p)
  PROVE  RefinedNext
<1>1. SamePreflights
  BY OtherPreflights DEF Step, CompleteStep, FillResult, FillClaim, ReplayRead, At
<1>2. SameRecords
  BY DEF FillResult, SameRecords
<1>3. SameRecorded /\ SameReleased
  BY <1>1, <1>2, RecordsStay, ReleasedSame DEF SamePreflights, FillResult
<1>4. PICK n \in Nonces : n = Nonce(p)
  BY DEF IInv, ProcInv, ClaimInv, FillResult, At
<1>5. TypeOK /\ results[n] \in File
  BY DEF IInv, TypeOK
<1>6. CASE results[n].by = p /\ results[n].file = "EMPTY"
  <2>1. results' = [results EXCEPT ![n] = [results[n] EXCEPT !.file = "WRITTEN"]]
    BY <1>4, <1>6 DEF FillResult, Filled
  <2>2. publishedOf(n) = Nobody /\ publishedOf(n)' = p
    BY <1>5, <1>6, <2>1 DEF publishedOf, TypeOK, File
  <2>3. \A m \in Nonces \ {n} : publishedOf(m)' = publishedOf(m)
    BY <1>5, <2>1 DEF publishedOf, TypeOK
  <2>4. p \in recorded
    BY <1>6 DEF IInv, ResultInv, recorded, runs, OnRecord
  <2>5. askedOf(p).nonce = n
    BY <1>4 DEF askedOf, Nonce
  <2> QED
    BY <1>1, <1>3, <2>2, <2>3, <2>4, <2>5, PublishRefined
<1>7. CASE ~(results[n].by = p /\ results[n].file = "EMPTY")
  <2>1. \A m \in Nonces : publishedOf(m)' = publishedOf(m)
    <3>1. CASE results[n].by = p
      <4>1. results' = [results EXCEPT ![n] = [results[n] EXCEPT !.file = "WRITTEN"]]
        BY <1>4, <3>1 DEF FillResult, Filled
      <4>2. results[n].file = "WRITTEN"
        BY <1>5, <1>7, <3>1, NobodyIsNone DEF BlankResults, File
      <4> QED
        BY <1>5, <4>1, <4>2 DEF publishedOf, TypeOK, File
    <3>2. CASE results[n].by # p
      BY <1>4, <3>2 DEF FillResult, Filled, publishedOf
    <3> QED
      BY <3>1, <3>2
  <2> QED
    BY <1>1, <1>3, <2>1, ForgetRefined DEF SameReleased, SamePublished
<1> QED
  BY <1>6, <1>7

\* A result is removed, once its nonce is released.
LEMMA RemoveRefined ==
  ASSUME IInv, NEW n \in Nonces, Released(n), results' = [results EXCEPT ![n] = NoFile],
         SamePreflights, SameRecorded, SameReleased
  PROVE  RefinedNext
<1>1. /\ publishedOf(n)' = Nobody
      /\ \A m \in Nonces \ {n} : publishedOf(m)' = publishedOf(m)
  BY DEF publishedOf, IInv, TypeOK, NoFile
<1> QED
  BY <1>1, WithdrawRefined

LEMMA TrimResultRefined ==
  ASSUME IInv, NEW p \in Procs, TrimResult(p)
  PROVE  RefinedNext
<1>1. SamePreflights
  BY OtherPreflights DEF Step, WriteStep, TrimResult, FillClaim, ReplayRead, At
<1>2. SameRecords
  BY DEF TrimResult, SameRecords
<1>3. SameRecorded /\ SameReleased
  BY <1>1, <1>2, RecordsStay, ReleasedSame DEF SamePreflights, TrimResult
<1>4. PICK n \in Nonces : n = Nonce(procs[p].target) /\ Released(n)
  BY TargetReleased DEF TrimResult, At
<1> QED
  BY <1>1, <1>3, <1>4, RemoveRefined DEF TrimResult

LEMMA StepRefined ==
  ASSUME IInv, BlankResults, \A q \in Procs : FreshInv(q), NEW p \in Procs, Step(p) \/ Crash(p)
  PROVE  RefinedNext
<1>1. CASE /\ ~FillClaim(p) /\ ~ReplayRead(p) /\ ~FillEntry(p) /\ ~TrimEntry(p)
           /\ ~FillResult(p) /\ ~TrimResult(p)
  <2>1. SamePreflights /\ SameRecords /\ SamePublished
    BY <1>1, OtherPreflights, StepRecords, StepPublished
  <2>2. cleaner' = cleaner
    BY DEF Step, ClaimStep, WriteStep, CompleteStep, Crash, ReadResult, CreateClaim,
      ClaimExists, FillClaim, ReadClaim, PollResult, WaitTimesOut, ReplayList, ReplayRead,
      RunEnds, RunThrows, WriteList, WriteRead, CreateEntry, FillEntry, TrimList, TrimEntry,
      TrimClaim, TrimResult, ListHistory, ReadOwnClaim, CreateResult, FillResult, ChmodResult
  <2>3. SameRecorded /\ SameReleased
    BY <2>1, <2>2, RecordsStay, ReleasedSame DEF SamePreflights
  <2> QED
    BY <2>1, <2>3, ForgetRefined DEF SameReleased
<1> QED
  BY <1>1, FillClaimRefined, ReplayReadRefined, FillEntryRefined, TrimEntryRefined,
    FillResultRefined, TrimResultRefined

LEMMA RequestRefined ==
  ASSUME IInv, \A q \in Procs : FreshInv(q), NEW p \in Procs, NEW n \in Nonces,
         NEW s \in Semantics, Request(p, n, s) \/ RequestFails(p, n, s)
  PROVE  RefinedNext
<1>1. /\ \A q \in Procs \ {p} : procs'[q] = procs[q]
      /\ procs[p].stage = "IDLE" /\ procs'[p].answer = "NONE"
      /\ ~procs[p].claimed /\ ~procs'[p].claimed
      /\ procs'[p].nonce = n /\ procs'[p].sem = s
  BY BeginEntries
<1>2. procs[p].answer = "NONE" /\ entries[p].file = "NONE"
  BY <1>1 DEF IInv, ProcInv, SourceInv, EntryInv, BeforeEntry
<1>3. SameRecords /\ SamePublished /\ cleaner' = cleaner
  BY DEF Request, RequestFails, IInv, TypeOK, Entry, SameRecords, SamePublished, publishedOf
<1>4. SameRuns /\ SameAnswered
  BY <1>1, <1>2 DEF SameRuns, SameAnswered, runs, answeredOf
<1>5. SameRecorded
  BY <1>3, <1>4, RecordsStay
<1>6. SameReleased
  BY <1>1, <1>2, <1>3 DEF SameReleased, SameRecords, Released, Nonce
<1>7. askedOf(p) = [nonce |-> "NONE", sem |-> "NONE"] /\ askedOf(p)' = [nonce |-> n, sem |-> s]
  BY <1>1 DEF FreshInv, askedOf
<1>8. \A q \in Procs \ {p} : askedOf(q)' = askedOf(q)
  BY <1>1 DEF askedOf
<1>9. p \notin runs
  BY <1>1 DEF runs
<1> QED
  BY <1>3, <1>4, <1>5, <1>6, <1>7, <1>8, <1>9, AskRefined DEF SameHistory

LEMMA SamePreflightsStay ==
  ASSUME procs' = procs
  PROVE  SamePreflights
BY DEF SamePreflights, SameAsked, SameRuns, SameAnswered, askedOf, runs, answeredOf

LEMMA ClearRefined ==
  ASSUME IInv, ClearStep
  PROVE  RefinedNext
<1>1. procs' = procs /\ SamePreflights
  BY NobodysEntries, SamePreflightsStay
<1>2. ASSUME cleaner.stage = "UNLINK", cleaner'.stage # "IDLE"
      PROVE  (\A n \in Nonces : Released(n)) /\ SameReleased
  BY <1>2 DEF Released, SameReleased
<1>3. ASSUME NEW name, Unlinks(name)
      PROVE  cleaner.stage = "UNLINK" /\ cleaner'.stage # "IDLE"
  BY <1>3 DEF Unlinks, IInv, TypeOK, Cleaner
<1>4. CASE ClearList
  <2>1. SameRecorded /\ SamePublished
    BY <1>1, <1>4 DEF ClearList, SameRecorded, SamePublished, recorded, runs, publishedOf
  <2>2. \A n \in Nonces : Released(n)'
    BY <1>4 DEF ClearList, Released
  <2> QED
    BY <1>1, <2>1, <2>2, ForgetRefined
<1>5. ASSUME NEW p \in Procs, ClearEntry(p) PROVE RefinedNext
  <2>1. SameReleased /\ SamePublished
    BY <1>2, <1>3, <1>5 DEF ClearEntry, SamePublished, publishedOf
  <2>2. /\ \A q \in Procs \ {p} : entries'[q] = entries[q]
        /\ entries'[p].file = "GONE"
    BY <1>5 DEF ClearEntry, IInv, TypeOK, Entry
  <2>3. CASE p \in runs \ recorded
    <3>1. recorded' = recorded \cup {p}
      BY <1>1, <2>2, <2>3 DEF recorded, runs
    <3> QED
      BY <1>1, <2>1, <2>3, <3>1, RecordRefined
  <2>4. CASE p \notin runs \ recorded
    <3>1. SameRecorded
      BY <1>1, <2>2, <2>4 DEF SameRecorded, recorded, runs
    <3> QED
      BY <1>1, <2>1, <3>1, ForgetRefined DEF SameReleased
  <2> QED
    BY <2>3, <2>4
<1>6. ASSUME NEW n \in Nonces, ClearClaim(n) PROVE RefinedNext
  <2>1. SameReleased
    BY <1>2, <1>3, <1>6 DEF ClearClaim
  <2>2. SameRecorded /\ SamePublished
    BY <1>1, <1>6 DEF ClearClaim, SameRecorded, SamePublished, recorded, runs, publishedOf
  <2> QED
    BY <1>1, <2>1, <2>2, ForgetRefined DEF SameReleased
<1>7. ASSUME NEW n \in Nonces, ClearResult(n) PROVE RefinedNext
  <2>1. Released(n) /\ SameReleased
    BY <1>2, <1>3, <1>7 DEF ClearResult
  <2>2. SameRecorded
    BY <1>1, <1>7 DEF ClearResult, SameRecorded, recorded, runs
  <2> QED
    BY <1>1, <1>7, <2>1, <2>2, RemoveRefined DEF ClearResult
<1>8. CASE ClearEnds
  <2>1. SameReleased
    BY <1>2, <1>8 DEF ClearEnds
  <2>2. SameRecorded /\ SamePublished
    BY <1>1, <1>8 DEF ClearEnds, SameRecorded, SamePublished, recorded, runs, publishedOf
  <2> QED
    BY <1>1, <2>1, <2>2, ForgetRefined DEF SameReleased
<1> QED
  BY <1>4, <1>5, <1>6, <1>7, <1>8 DEF ClearStep

LEMMA IdleRefined ==
  ASSUME Tick \/ UNCHANGED vars
  PROVE  RefinedNext
<1>1. UNCHANGED <<results, entries, procs, cleaner>>
  BY DEF Tick, vars
<1>2. SamePreflights /\ SameRecorded /\ SamePublished
  BY <1>1, SamePreflightsStay DEF SameRecorded, SamePublished, recorded, runs, publishedOf
<1>3. \A n \in Nonces : Released(n) => Released(n)'
  BY <1>1 DEF Released, Nonce
<1> QED
  BY <1>2, <1>3, ForgetRefined

\* Concurrent preflights, whose files are created, filled and removed one by
\* one, keep the abstract promise of a retry nonce (claimNonce,
\* writeHistoryEntry, completeNonceClaim, clearHistory).
THEOREM Refinement == Spec => ImplementsRunOncePerNonce
<1> DEFINE Fresh == BlankResults /\ \A p \in Procs : FreshInv(p)
<1>1. Init => RunOnce!Init
  BY DEF Init, IdleProc, NoFile, NoEntry, RunOnce!Init, askedOf, answeredOf, runs, recorded,
    publishedOf, Released
<1>2. Init => Fresh
  BY FreshInit, BlankInit
<1>3. IInv /\ Fresh /\ [Next]_vars => Fresh'
  BY FreshNext, BlankNext
<1>4. IInv /\ Fresh /\ [Next]_vars => [RunOnce!Next]_(RunOnce!vars)
  BY StepRefined, RequestRefined, ClearRefined, IdleRefined DEF Next, RefinedNext
<1> HIDE DEF Fresh
<1> QED
  BY <1>1, <1>2, <1>3, <1>4, Invariant, PTL DEF Spec, ImplementsRunOncePerNonce, RunOnce!Spec
=============================================================================
