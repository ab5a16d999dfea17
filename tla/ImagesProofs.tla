------------------------------ MODULE ImagesProofs ------------------------------
(***************************************************************************)
(* Proofs about images for any workers, users and images.  The invariant:  *)
(* a worker that is alone shares its image with nobody, so what it read of *)
(* the row and did to the file still holds; a file stands open only while  *)
(* somebody writes it; and nobody handles an image that something was      *)
(* promised of.                                                            *)
(***************************************************************************)
EXTENDS Images, TLAPS

\* A request in shape, whose row was not read yet where it cannot have been.
Fits(r) ==
    /\ r \in Request /\ Entitled(r)
    /\ r.op \in {"delete", "drop"} /\ r.pc \in {"load", "check"} => r.row = None

\* What a worker that is alone knows of the row and of the file of its image;
\* mine: the file it writes is the one in the directory.
Known(r, rows, stored, mine) ==
    /\ r.op = "upload" /\ r.pc \in {"file", "write", "merge", "commit"} =>
         rows[r.image] = r.row /\ r.row \in {None, r.user}
    /\ r.op = "upload" /\ r.pc = "write" => stored[r.image] = "open" /\ mine
    /\ r.op = "upload" /\ r.pc \in {"merge", "commit"} => stored[r.image] = "whole"
    /\ r.op \in {"delete", "drop"} /\ r.pc \in {"file", "commit"} /\ r.row = r.user =>
         rows[r.image] = r.user
    /\ r.op \in {"delete", "drop"} /\ r.pc = "commit" /\ r.row = r.user =>
         stored[r.image] = None

Kept(i, what, rows, stored) ==
    /\ what \in Users => stored[i] \in {"torn", "whole"} /\ rows[i] = what
    /\ what = "gone" => stored[i] = None /\ rows[i] = None

\* Workers that are alone share their image with nobody.
Apart ==
    \A w \in alone, v \in Workers, i \in Images :
        w # v /\ Handles(req[w], i) => ~Handles(req[v], i)

\* A file that is open and empty has a worker that is writing to it.
Opened == \A i \in Images : files[i] = "open" => \E v \in linked : req[v].image = i

\* Nobody handles an image that something was promised of.
Unhandled == \A i \in Images, v \in Workers : promise[i] # None => ~Handles(req[v], i)

Inv ==
    /\ TypeOK
    /\ \A w \in Workers : req[w] # NoRequest => Fits(req[w])
    /\ Apart
    /\ Opened
    /\ Unhandled
    /\ \A w \in alone : req[w] # NoRequest => Known(req[w], owner, files, w \in linked)
    /\ \A i \in Images : Kept(i, promise[i], owner, files)

USE BoundAssumption, NoneAssumption, NoRequestAssumption

-----------------------------------------------------------------------------
LEMMA InitInv == Init => Inv
BY DEF Init, Inv, TypeOK, Apart, Opened, Unhandled, Handles, Kept

\* The request of a busy worker.
LEMMA BusyRequest ==
    ASSUME Inv, NEW w \in Workers, req[w] # NoRequest
    PROVE  /\ Fits(req[w]) /\ req[w] \in Request
           /\ req[w].op \in Ops /\ req[w].pc \in Phases
           /\ req[w].user \in Users /\ req[w].image \in Images
BY DEF Inv, Fits, Request

\* A request that begins on one image.
Begins(w, r) == \E i \in Images : Touch(w, i) /\ \A j \in Images : Handles(r, j) => j = i

\* A request that goes on with the image it is at, or ends.
Continues(w, r) ==
    /\ alone' \subseteq alone
    /\ \A j \in Images : Handles(r, j) => Handles(req[w], j)

\* The variables keep their shape in a step of one worker.
StepTypes ==
    /\ files' \in [Images -> FileStates \cup {None}]
    /\ owner' \in [Images -> Users \cup {None}]
    /\ fragments' \subseteq Users \X Images
    /\ avatar' \in [Users -> Images \cup {None}]
    /\ sent' \in Nat
    /\ promise' \in [Images -> Users \cup {None, "gone"}]

\* A worker changes the row and the file of the image it handles, and no other.
OnlyHandled(w) ==
    \A i \in Images : ~Handles(req[w], i) =>
        /\ owner'[i] = owner[i] /\ files'[i] = files[i]
        /\ \A v \in Workers \ {w} : req[v].image = i => (v \in linked' <=> v \in linked)

\* A worker is linked after a step when it was before, or when it opened its file.
Linking(w, r) ==
    /\ \A v \in linked' :
          \/ v \in linked \ {w}
          \/ v = w /\ r # NoRequest /\ r.op = "upload" /\ r.pc = "write"
    /\ Opened'

NoWrite(w) == UNCHANGED disk /\ ~At(w, "upload", "write")

\* A worker voids promises, and makes one about its image when it ends alone.
PromisesStep(w, r) ==
    \A i \in Images :
        \/ promise'[i] \in {promise[i], None}
        \/ /\ w \in alone /\ Handles(req[w], i) /\ r = NoRequest
           /\ Kept(i, promise'[i], owner', files')

LEMMA NoWriteLinking ==
    ASSUME Inv, NEW w \in Workers, NEW r, req' = [req EXCEPT ![w] = r], NoWrite(w)
    PROVE  Linking(w, r)
<1>1. w \notin linked /\ linked' = linked /\ files' = files
  BY DEF NoWrite, disk, Inv, TypeOK
<1>2. linked \subseteq Workers /\ \A x \in Workers \ {w} : req'[x] = req[x]
  BY DEF Inv, TypeOK
<1>3. Opened' BY <1>1, <1>2 DEF Inv, Opened
<1> QED BY <1>1, <1>3 DEF Linking

LEMMA StillApart ==
    ASSUME Inv, NEW w \in Workers, NEW r, req' = [req EXCEPT ![w] = r],
           Begins(w, r) \/ Continues(w, r)
    PROVE  Apart'
<1> SUFFICES ASSUME NEW a \in alone', NEW v \in Workers, NEW i \in Images,
                    a # v, Handles(req'[a], i), Handles(req'[v], i)
             PROVE  FALSE
  BY DEF Apart, Handles
<1>1. req'[w] = r /\ \A x \in Workers \ {w} : req'[x] = req[x]
  BY DEF Inv, TypeOK
<1>2. alone \subseteq Workers BY DEF Inv, TypeOK
<1>3. CASE Continues(w, r)
  <2>1. a \in alone /\ a \in Workers BY <1>2, <1>3 DEF Continues
  <2>2. \A x \in Workers : Handles(req'[x], i) => Handles(req[x], i)
    BY <1>1, <1>3 DEF Continues
  <2> QED BY <2>1, <2>2 DEF Inv, Apart
<1>4. CASE Begins(w, r)
  <2>1. PICK k \in Images : Touch(w, k) /\ \A j \in Images : Handles(r, j) => j = k
    BY <1>4 DEF Begins
  <2> DEFINE others == {x \in Workers \ {w} : Handles(req[x], k)}
  <2>2. alone' = IF others = {} THEN alone \cup {w} ELSE alone \ (others \cup {w})
    BY <2>1 DEF Touch
  <2>3. CASE a = w
    <3>1. others = {} /\ i = k /\ v \in Workers \ {w} BY <1>1, <2>1, <2>2, <2>3
    <3> QED BY <1>1, <3>1
  <2>4. CASE a # w
    <3>1. a \in alone /\ a \in Workers /\ a \notin others /\ req'[a] = req[a]
      BY <1>1, <1>2, <2>2, <2>4
    <3>2. CASE v = w
      <4>1. i = k BY <1>1, <2>1, <3>2
      <4> QED BY <2>4, <3>1, <4>1
    <3>3. CASE v # w BY <1>1, <3>1, <3>3 DEF Inv, Apart
    <3> QED BY <3>2, <3>3
  <2> QED BY <2>3, <2>4
<1> QED BY <1>3, <1>4

LEMMA StillUnhandled ==
    ASSUME Inv, NEW w \in Workers, NEW r, req' = [req EXCEPT ![w] = r],
           Begins(w, r) \/ Continues(w, r), PromisesStep(w, r)
    PROVE  Unhandled'
<1> SUFFICES ASSUME NEW i \in Images, NEW v \in Workers, promise'[i] # None,
                    Handles(req'[v], i)
             PROVE  FALSE
  BY DEF Unhandled, Handles
<1>1. req'[w] = r /\ \A x \in Workers \ {w} : req'[x] = req[x]
  BY DEF Inv, TypeOK
<1>2. CASE promise'[i] = promise[i]
  <2>1. \A x \in Workers : ~Handles(req[x], i) BY <1>2 DEF Inv, Unhandled
  <2>2. v = w /\ ~Continues(w, r) BY <1>1, <2>1 DEF Continues
  <2>3. PICK k \in Images : Touch(w, k) /\ \A j \in Images : Handles(r, j) => j = k
    BY <2>2 DEF Begins
  <2>4. i = k /\ promise'[k] = None BY <1>1, <2>2, <2>3 DEF Touch, Inv, TypeOK
  <2> QED BY <2>4
<1>3. CASE w \in alone /\ Handles(req[w], i) /\ r = NoRequest
  <2>1. v # w /\ Handles(req[v], i) BY <1>1, <1>3 DEF Handles
  <2> QED BY <1>3, <2>1 DEF Inv, Apart
<1> QED BY <1>2, <1>3 DEF PromisesStep

\* A step of one worker that keeps its own request and its promise right keeps all
\* of the invariant.
LEMMA WorkerStep ==
    ASSUME Inv, NEW w \in Workers, NEW r, r = NoRequest \/ Fits(r),
           req' = [req EXCEPT ![w] = r],
           Begins(w, r) \/ Continues(w, r), PromisesStep(w, r),
           StepTypes, OnlyHandled(w), NoWrite(w) \/ Linking(w, r),
           w \in alone' /\ r # NoRequest => Known(r, owner', files', w \in linked')
    PROVE  Inv'
<1>1. req'[w] = r /\ \A x \in Workers \ {w} : req'[x] = req[x]
  BY DEF Inv, TypeOK
<1>2. alone' \subseteq alone \cup {w} /\ alone \subseteq Workers
  BY DEF Begins, Continues, Touch, Inv, TypeOK
<1>3. ASSUME NEW v \in Workers, req'[v] # NoRequest PROVE Fits(req'[v])
  BY <1>1, <1>3 DEF Inv
<1>7. Linking(w, r) BY NoWriteLinking
<1>4. TypeOK'
  <2>3. linked' \subseteq {v \in Workers : At(v, "upload", "write")}'
    BY <1>1, <1>7 DEF Linking, At, Inv, TypeOK
  <2>1. req' \in [Workers -> Request \cup {NoRequest}] BY DEF Fits, Inv, TypeOK
  <2>2. \A v \in Workers : req'[v] # NoRequest => Entitled(req'[v])
    BY <1>3 DEF Fits
  <2> QED BY <1>2, <2>1, <2>2, <2>3 DEF StepTypes, TypeOK, Entitled
<1>5. ASSUME NEW v \in alone', req'[v] # NoRequest
      PROVE  Known(req'[v], owner', files', v \in linked')
  <2>1. CASE v = w BY <1>1, <1>5, <2>1
  <2>2. CASE v # w
    <3>1. v \in alone /\ v \in Workers /\ req'[v] = req[v] BY <1>1, <1>2, <2>2
    <3>2. Known(req[v], owner, files, v \in linked) /\ req[v].image \in Images
      BY <1>5, <3>1, BusyRequest DEF Inv
    <3> DEFINE i == req[v].image
    <3>3. CASE Handles(req[v], i)
      <4>1. ~Handles(req[w], i) BY <2>2, <3>1, <3>2, <3>3 DEF Inv, Apart
      <4>2. owner'[i] = owner[i] /\ files'[i] = files[i] /\ (v \in linked' <=> v \in linked)
        BY <2>2, <3>1, <3>2, <4>1 DEF OnlyHandled
      <4> QED BY <3>1, <3>2, <4>2 DEF Known
    <3>4. CASE ~Handles(req[v], i)
      <4>1. req[v].op \notin {"upload", "delete", "drop"} BY <1>5, <3>1, <3>4 DEF Handles
      <4> QED BY <3>1, <4>1 DEF Known
    <3> QED BY <3>3, <3>4
  <2> QED BY <2>1, <2>2
<1>6. ASSUME NEW i \in Images PROVE Kept(i, promise'[i], owner', files')
  <2>1. CASE promise'[i] = None BY <2>1 DEF Kept
  <2>2. CASE promise'[i] = promise[i] /\ promise[i] # None
    <3>1. ~Handles(req[w], i) BY <2>2 DEF Inv, Unhandled
    <3>2. Kept(i, promise[i], owner, files) BY DEF Inv
    <3> QED BY <2>2, <3>1, <3>2 DEF OnlyHandled, Kept
  <2> QED BY <2>1, <2>2 DEF PromisesStep
<1>8. Opened' BY <1>7 DEF Linking
<1> QED BY <1>3, <1>4, <1>5, <1>6, <1>8, StillApart, StillUnhandled
  DEF Inv, Fits, Entitled, Known, Kept

\* A worker that answers and leaves rows and files as they are.
LEMMA AnswerStep ==
    ASSUME Inv, NEW w \in Workers, Answer(w), StepTypes, NoWrite(w), UNCHANGED owner
    PROVE  Inv'
<1>1. req' = [req EXCEPT ![w] = NoRequest] /\ alone' = alone \ {w} /\ promise' = promise
  BY DEF Answer, Ends
<1>2. Continues(w, NoRequest) BY <1>1 DEF Continues, Handles
<1>3. PromisesStep(w, NoRequest) BY <1>1 DEF PromisesStep
<1>4. OnlyHandled(w) BY DEF OnlyHandled, NoWrite, disk
<1> QED BY <1>1, <1>2, <1>3, <1>4, WorkerStep

\* A worker that goes on, at most with another phase and another row read.
LEMMA GoOnStep ==
    ASSUME Inv, NEW w \in Workers, req[w] # NoRequest, NEW r, Fits(r),
           req' = [req EXCEPT ![w] = r],
           r.op = req[w].op, r.image = req[w].image, r.op = "avatar" => r.row = req[w].row,
           UNCHANGED <<promise, alone>>, StepTypes, OnlyHandled(w),
           NoWrite(w) \/ Linking(w, r),
           w \in alone => Known(r, owner', files', w \in linked')
    PROVE  Inv'
<1>1. Continues(w, r) BY DEF Continues, Handles
<1>2. PromisesStep(w, r) BY DEF PromisesStep
<1> QED BY <1>1, <1>2, WorkerStep

-----------------------------------------------------------------------------
(* One lemma for each step *)

\* A request as it is sent.
LEMMA SentFits ==
    ASSUME NEW op \in Ops, NEW u \in Users, NEW i \in Images, NEW pc \in {"load", "check"},
           op = "upload" => pc = "check", NEW r,
           r = [op |-> op, user |-> u, image |-> i, row |-> None, pc |-> pc], NEW w
    PROVE  /\ Fits(r) /\ r.op = op /\ r.image = i
           /\ \A j \in Images : Handles(r, j) => j = i /\ op \in {"upload", "delete", "drop"}
           /\ Known(r, owner', files', w \in linked')
<1>1. r \in Request BY DEF Request, Phases, Ops
<1>2. r.op = op /\ r.image = i /\ r.user = u /\ r.row = None /\ r.pc = pc OBVIOUS
<1>3. Fits(r) BY <1>1, <1>2 DEF Fits, Entitled, Ops
<1>4. \A j \in Images : Handles(r, j) => j = i /\ op \in {"upload", "delete", "drop"}
  BY <1>2 DEF Handles
<1>5. Known(r, owner', files', w \in linked') BY <1>2 DEF Known
<1> QED BY <1>2, <1>3, <1>4, <1>5

LEMMA TouchPromises ==
    ASSUME Inv, NEW w \in Workers, NEW i \in Images, Touch(w, i), NEW r
    PROVE  PromisesStep(w, r) /\ promise' \in [Images -> Users \cup {None, "gone"}]
BY DEF Touch, PromisesStep, Inv, TypeOK

LEMMA SendInv == ASSUME Inv, NEW w \in Workers, Send(w) PROVE Inv'
<1>1. PICK op \in Ops, u \in Users, i \in Images :
         /\ req' = [req EXCEPT ![w] =
               [op |-> op, user |-> u, image |-> i, row |-> None,
                pc |-> IF op \in {"upload", "delete"} THEN "check" ELSE "load"]]
         /\ IF op \in {"upload", "delete", "drop"} THEN Touch(w, i)
                                                    ELSE UNCHANGED <<promise, alone>>
  BY DEF Send
<1> DEFINE pc == IF op \in {"upload", "delete"} THEN "check" ELSE "load"
           r == [op |-> op, user |-> u, image |-> i, row |-> None, pc |-> pc]
<1>2. pc \in {"load", "check"} /\ (op = "upload" => pc = "check") OBVIOUS
<1>3. req' = [req EXCEPT ![w] = r] BY <1>1
<1> HIDE DEF pc
<1>4. /\ Fits(r) /\ Known(r, owner', files', w \in linked')
      /\ \A j \in Images : Handles(r, j) => j = i /\ op \in {"upload", "delete", "drop"}
  BY <1>2, SentFits
<1> HIDE DEF r
<1>8. UNCHANGED <<files, linked, owner, fragments, avatar>> /\ sent' \in Nat
  BY DEF Send, disk, Inv, TypeOK
<1>5. OnlyHandled(w) /\ NoWrite(w) BY <1>8 DEF Send, OnlyHandled, NoWrite, disk, At
<1>6. CASE op \in {"upload", "delete", "drop"}
  <2>1. Touch(w, i) BY <1>1, <1>6
  <2>2. Begins(w, r) BY <1>4, <2>1 DEF Begins
  <2>3. PromisesStep(w, r) /\ StepTypes
    BY <1>8, <2>1, TouchPromises DEF StepTypes, Inv, TypeOK
  <2> QED BY <1>3, <1>4, <1>5, <2>2, <2>3, WorkerStep
<1>7. CASE op \notin {"upload", "delete", "drop"}
  <2>1. UNCHANGED <<promise, alone>> BY <1>1, <1>7
  <2>2. Continues(w, r) BY <1>4, <1>7, <2>1 DEF Continues
  <2>3. PromisesStep(w, r) /\ StepTypes
    BY <1>8, <2>1 DEF PromisesStep, StepTypes, Inv, TypeOK
  <2> QED BY <1>3, <1>4, <1>5, <2>2, <2>3, WorkerStep
<1> QED BY <1>6, <1>7

\* A request of which a new row is read, in the next phase.
LEMMA ReadRequest ==
    ASSUME Inv, NEW w \in Workers, req[w] # NoRequest,
           NEW row \in Users \cup Images \cup {None}, NEW pc \in Phases, Read(w, row, pc)
    PROVE  \E r \in Request :
             /\ req' = [req EXCEPT ![w] = r]
             /\ r.op = req[w].op /\ r.image = req[w].image /\ r.user = req[w].user
             /\ r.row = row /\ r.pc = pc
<1> DEFINE r == [req[w] EXCEPT !.row = row, !.pc = pc]
<1>1. req' = [req EXCEPT ![w] = r] BY DEF Read, Inv, TypeOK
<1>2. /\ r \in Request /\ r.op = req[w].op /\ r.image = req[w].image
      /\ r.user = req[w].user /\ r.row = row /\ r.pc = pc
  BY BusyRequest DEF Request
<1> HIDE DEF r
<1> QED BY <1>1, <1>2

\* A request in the next phase.
LEMMA GoToRequest ==
    ASSUME Inv, NEW w \in Workers, req[w] # NoRequest, NEW pc \in Phases, GoTo(w, pc)
    PROVE  \E r \in Request :
             /\ req' = [req EXCEPT ![w] = r]
             /\ r.op = req[w].op /\ r.image = req[w].image /\ r.user = req[w].user
             /\ r.row = req[w].row /\ r.pc = pc
<1> DEFINE r == [req[w] EXCEPT !.pc = pc]
<1>1. req' = [req EXCEPT ![w] = r] BY DEF GoTo, Inv, TypeOK
<1>2. /\ r \in Request /\ r.op = req[w].op /\ r.image = req[w].image
      /\ r.user = req[w].user /\ r.row = req[w].row /\ r.pc = pc
  BY BusyRequest DEF Request
<1> HIDE DEF r
<1> QED BY <1>1, <1>2

\* Who owns an image, and what is sent of it, are users.
LEMMA OwnerType ==
    ASSUME Inv, NEW i \in Images PROVE owner[i] \in Users \cup {None}
BY DEF Inv, TypeOK

LEMMA CheckUploadInv == ASSUME Inv, NEW w \in Workers, CheckUpload(w) PROVE Inv'
<1>1. req[w] # NoRequest /\ req[w].op = "upload" /\ req[w].pc = "check"
  BY DEF CheckUpload, At
<1>2. UNCHANGED <<disk, owner, fragments, avatar, sent>> BY DEF CheckUpload
<1>3. CASE Answer(w)
  BY <1>1, <1>2, <1>3, AnswerStep DEF StepTypes, NoWrite, At, disk, Inv, TypeOK, Answer
<1>4. CASE MayUse(req[w]) /\ UNCHANGED <<promise, alone>>
           /\ Read(w, owner[req[w].image], "file")
  <2>1. owner[req[w].image] \in Users \cup {None} /\ "file" \in Phases
    BY <1>1, BusyRequest, OwnerType DEF Phases
  <2>2. PICK r \in Request :
           /\ req' = [req EXCEPT ![w] = r]
           /\ r.op = req[w].op /\ r.image = req[w].image /\ r.user = req[w].user
           /\ r.row = owner[req[w].image] /\ r.pc = "file"
    BY <1>1, <1>4, <2>1, ReadRequest
  <2>3. r.row \in {None, r.user} BY <1>4, <2>2 DEF MayUse
  <2>4. Fits(r) BY <1>1, <2>1, <2>2, <2>3 DEF Fits, Entitled
  <2>5. Known(r, owner', files', w \in linked') BY <1>1, <1>2, <2>2, <2>3 DEF Known
  <2>6. StepTypes /\ OnlyHandled(w) /\ NoWrite(w)
    BY <1>1, <1>2, <1>4 DEF StepTypes, OnlyHandled, NoWrite, At, disk, Inv, TypeOK
  <2> QED BY <1>1, <1>4, <2>2, <2>4, <2>5, <2>6, GoOnStep
<1> QED BY <1>3, <1>4 DEF CheckUpload

\* A worker that ends with a promise, made when it was alone.
LEMMA PromiseStepInv ==
    ASSUME Inv, NEW w \in Workers, req[w] # NoRequest,
           req[w].op \in {"upload", "delete", "drop"}, NEW what \in Users \cup {"gone"},
           Promise(w, what), OnlyHandled(w), NoWrite(w),
           w \in alone => Kept(req[w].image, what, owner', files'),
           files' \in [Images -> FileStates \cup {None}], owner' \in [Images -> Users \cup {None}],
           fragments' \subseteq Users \X Images, UNCHANGED <<avatar, sent>>
    PROVE  Inv'
<1> DEFINE i == req[w].image
<1>1. req' = [req EXCEPT ![w] = NoRequest] /\ alone' = alone \ {w}
      /\ promise' = IF w \in alone THEN [promise EXCEPT ![i] = what] ELSE promise
  BY DEF Promise, Ends
<1>2. i \in Images /\ Handles(req[w], i) BY BusyRequest DEF Handles
<1>3. Continues(w, NoRequest) BY <1>1 DEF Continues, Handles
<1>4. PromisesStep(w, NoRequest) BY <1>1, <1>2 DEF PromisesStep, Inv, TypeOK
<1>5. StepTypes BY <1>1, <1>2 DEF StepTypes, Inv, TypeOK
<1> QED BY <1>1, <1>3, <1>4, <1>5, WorkerStep

LEMMA SaveUploadInv == ASSUME Inv, NEW w \in Workers, SaveUpload(w) PROVE Inv'
<1> DEFINE i == req[w].image
<1>1. /\ req[w] # NoRequest /\ req[w].op = "upload" /\ req[w].pc = "file"
      /\ Fits(req[w]) /\ req[w].user \in Users /\ i \in Images /\ Handles(req[w], i)
  BY BusyRequest DEF SaveUpload, At, Handles
<1>2. UNCHANGED <<owner, fragments, avatar, sent>> BY DEF SaveUpload
<1>3. w \in alone => owner[i] = req[w].row BY <1>1 DEF Inv, Known
<1>4. CASE AlreadyStored(req[w])
  <2>1. Promise(w, req[w].user) /\ UNCHANGED disk BY <1>4 DEF SaveUpload
  <2>2. ASSUME w \in alone PROVE files[i] # "open"
    <3>1. SUFFICES ASSUME NEW v \in linked, req[v].image = i PROVE FALSE
      BY <1>1 DEF Inv, Opened
    <3>2. v \in Workers /\ At(v, "upload", "write") BY DEF Inv, TypeOK
    <3>3. v # w /\ Handles(req[v], i) BY <1>1, <3>1, <3>2 DEF At, Handles
    <3> QED BY <1>1, <2>2, <3>2, <3>3 DEF Inv, Apart
  <2>3. files[i] \in FileStates \cup {None} BY <1>1 DEF Inv, TypeOK
  <2>4. w \in alone => Kept(i, req[w].user, owner', files')
    BY <1>1, <1>2, <1>3, <1>4, <2>1, <2>2, <2>3, NoneAssumption
    DEF AlreadyStored, Kept, FileStates, disk
  <2>5. OnlyHandled(w) /\ NoWrite(w) BY <1>1, <1>2, <2>1 DEF OnlyHandled, NoWrite, At, disk
  <2>6. /\ files' \in [Images -> FileStates \cup {None}] /\ owner' \in [Images -> Users \cup {None}]
        /\ fragments' \subseteq Users \X Images /\ UNCHANGED <<avatar, sent>>
    BY <1>2, <2>1 DEF disk, Inv, TypeOK
  <2> QED BY <1>1, <2>1, <2>4, <2>5, <2>6, PromiseStepInv
<1>5. CASE ~AlreadyStored(req[w])
  <2>1. /\ files' = [files EXCEPT ![i] = "open"] /\ linked' = linked \cup {w}
        /\ GoTo(w, "write")
    BY <1>5 DEF SaveUpload
  <2>2. PICK r \in Request :
           /\ req' = [req EXCEPT ![w] = r]
           /\ r.op = req[w].op /\ r.image = i /\ r.user = req[w].user
           /\ r.row = req[w].row /\ r.pc = "write"
    BY <1>1, <2>1, GoToRequest DEF Phases
  <2>3. Fits(r) /\ r.row \in {None, r.user} BY <1>1, <2>2 DEF Fits, Entitled
  <2>4. files'[i] = "open" /\ \A j \in Images \ {i} : files'[j] = files[j]
    BY <1>1, <2>1 DEF Inv, TypeOK
  <2>5. w \in alone => Known(r, owner', files', w \in linked')
    BY <1>1, <1>2, <1>3, <2>1, <2>2, <2>3, <2>4 DEF Known
  <2>6. OnlyHandled(w) BY <1>1, <1>2, <2>1, <2>4 DEF OnlyHandled
  <2>7. StepTypes BY <1>1, <1>2, <2>1 DEF StepTypes, FileStates, Inv, TypeOK, GoTo
  <2>8. UNCHANGED <<promise, alone>> BY <2>1 DEF GoTo
  <2>9. Linking(w, r)
    <3>1. w \notin linked /\ linked \subseteq Workers BY <1>1 DEF Inv, TypeOK, At
    <3>2. req'[w] = r /\ \A x \in Workers \ {w} : req'[x] = req[x]
      BY <2>2 DEF Inv, TypeOK
    <3>3. Opened' BY <2>1, <2>2, <2>4, <3>1, <3>2 DEF Inv, Opened
    <3>4. r # NoRequest BY <2>2, NoRequestAssumption
    <3> QED BY <1>1, <2>1, <2>2, <3>1, <3>3, <3>4 DEF Linking
  <2> QED BY <1>1, <2>2, <2>3, <2>5, <2>6, <2>7, <2>8, <2>9, GoOnStep
<1> QED BY <1>4, <1>5

\* A step after which w is linked no more, and no file stands open that did not.
LEMMA UnlinkedStep ==
    ASSUME Inv, NEW w \in Workers, NEW r, req' = [req EXCEPT ![w] = r],
           linked' \subseteq linked \ {w},
           \A i \in Images : files'[i] = "open" =>
              /\ files[i] = "open" /\ ~(w \in linked /\ req[w].image = i)
              /\ \A v \in linked \ {w} : req[v].image = i => v \in linked'
    PROVE  Linking(w, r)
<1>1. linked \subseteq Workers /\ \A x \in Workers \ {w} : req'[x] = req[x]
  BY DEF Inv, TypeOK
<1>2. Opened' BY <1>1 DEF Inv, Opened
<1> QED BY <1>2 DEF Linking

LEMMA WriteFileInv == ASSUME Inv, NEW w \in Workers, WriteFile(w) PROVE Inv'
<1> DEFINE i == req[w].image
<1>1. /\ req[w] # NoRequest /\ req[w].op = "upload" /\ req[w].pc = "write"
      /\ Fits(req[w]) /\ i \in Images /\ Handles(req[w], i)
  BY BusyRequest DEF WriteFile, At, Handles
<1>2. UNCHANGED <<owner, fragments, avatar, sent>> /\ linked' = linked \ {w}
      /\ GoTo(w, "merge")
  BY DEF WriteFile
<1>3. PICK r \in Request :
         /\ req' = [req EXCEPT ![w] = r]
         /\ r.op = req[w].op /\ r.image = i /\ r.user = req[w].user
         /\ r.row = req[w].row /\ r.pc = "merge"
  BY <1>1, <1>2, GoToRequest DEF Phases
<1>4. Fits(r) BY <1>1, <1>3 DEF Fits, Entitled
<1>5. /\ files' \in [Images -> FileStates \cup {None}]
      /\ \A j \in Images \ {i} : files'[j] = files[j]
      /\ w \in linked => files'[i] # "open" /\ (files[i] = "open" => files'[i] = "whole")
      /\ w \notin linked => files' = files
  <2>1. CASE w \in linked
    <3>1. PICK bytes \in IF files[i] = "open" THEN {"whole"} ELSE {"whole", "torn"} :
             files' = [files EXCEPT ![i] = bytes]
      BY <2>1 DEF WriteFile
    <3>2. bytes \in FileStates /\ bytes # "open" BY DEF FileStates
    <3> QED BY <1>1, <2>1, <3>1, <3>2 DEF Inv, TypeOK
  <2>2. CASE w \notin linked BY <2>2 DEF WriteFile, Inv, TypeOK
  <2> QED BY <2>1, <2>2
<1>6. w \in alone => Known(r, owner', files', w \in linked')
  BY <1>1, <1>2, <1>3, <1>5 DEF Inv, Known
<1>7. OnlyHandled(w) BY <1>1, <1>2, <1>5 DEF OnlyHandled
<1>8. Linking(w, r) BY <1>1, <1>2, <1>3, <1>5, UnlinkedStep
<1>9. UNCHANGED <<promise, alone>> /\ StepTypes
  BY <1>2, <1>5 DEF GoTo, StepTypes, Inv, TypeOK
<1> QED BY <1>1, <1>3, <1>4, <1>6, <1>7, <1>8, <1>9, GoOnStep

LEMMA MergeUploadInv == ASSUME Inv, NEW w \in Workers, MergeUpload(w) PROVE Inv'
<1> DEFINE i == req[w].image
<1>1. /\ req[w] # NoRequest /\ req[w].op = "upload" /\ req[w].pc = "merge" /\ i \in Images
  BY BusyRequest DEF MergeUpload, At
<1>2. UNCHANGED <<disk, owner, fragments, avatar, sent, promise, alone>> BY DEF MergeUpload
<1>3. w \in alone =>
        owner[i] = req[w].row /\ req[w].row \in {None, req[w].user} /\ files[i] = "whole"
  BY <1>1 DEF Inv, Known
<1>4. owner[i] \in Users \cup {None} /\ "commit" \in Phases BY <1>1, OwnerType DEF Phases
<1>5. PICK r \in Request :
         /\ req' = [req EXCEPT ![w] = r]
         /\ r.op = req[w].op /\ r.image = i /\ r.user = req[w].user
         /\ r.row = owner[i] /\ r.pc = "commit"
  BY <1>1, <1>4, ReadRequest DEF MergeUpload, MergeRow
<1>6. Fits(r) BY <1>1, <1>4, <1>5 DEF Fits, Entitled
<1>7. w \in alone => Known(r, owner', files', w \in linked')
  BY <1>1, <1>2, <1>3, <1>5 DEF Known, disk
<1>8. StepTypes /\ OnlyHandled(w) /\ NoWrite(w)
  BY <1>1, <1>2 DEF StepTypes, OnlyHandled, NoWrite, At, disk, Inv, TypeOK
<1> QED BY <1>1, <1>2, <1>5, <1>6, <1>7, <1>8, GoOnStep

\* An upload that is alone at its commit is not refused.
LEMMA AloneNotRefused ==
    ASSUME Inv, NEW w \in alone, At(w, "upload", "commit")
    PROVE  ~Refused(req[w])
BY DEF Inv, At, Known, Refused

LEMMA CommitUploadInv == ASSUME Inv, NEW w \in Workers, CommitUpload(w) PROVE Inv'
<1> DEFINE i == req[w].image
<1>1. /\ req[w] # NoRequest /\ req[w].op = "upload" /\ req[w].pc = "commit"
      /\ req[w].user \in Users /\ i \in Images
  BY BusyRequest DEF CommitUpload, At
<1>2. UNCHANGED <<disk, fragments, avatar, sent>> BY DEF CommitUpload
<1>3. CASE Refused(req[w])
  BY <1>1, <1>2, <1>3, AnswerStep
  DEF CommitUpload, StepTypes, NoWrite, At, disk, Inv, TypeOK, Answer
<1>4. CASE ~Refused(req[w])
  <2>1. /\ owner' = IF req[w].row = req[w].user THEN owner
                    ELSE [owner EXCEPT ![i] = req[w].user]
        /\ Promise(w, req[w].user)
    BY <1>4 DEF CommitUpload
  <2>2. w \in alone => owner[i] = req[w].row /\ files[i] = "whole" BY <1>1 DEF Inv, Known
  <2>3. w \in alone => Kept(i, req[w].user, owner', files')
    BY <1>1, <1>2, <2>1, <2>2, NoneAssumption DEF Kept, disk, Inv, TypeOK
  <2>4. Handles(req[w], i) BY <1>1 DEF Handles
  <2>5. OnlyHandled(w) /\ NoWrite(w)
    BY <1>1, <1>2, <2>1, <2>4 DEF OnlyHandled, NoWrite, At, disk, Inv, TypeOK
  <2>6. /\ files' \in [Images -> FileStates \cup {None}] /\ owner' \in [Images -> Users \cup {None}]
        /\ fragments' \subseteq Users \X Images /\ UNCHANGED <<avatar, sent>>
    BY <1>1, <1>2, <2>1 DEF disk, Inv, TypeOK
  <2> QED BY <1>1, <2>1, <2>3, <2>5, <2>6, PromiseStepInv
<1> QED BY <1>3, <1>4

LEMMA LoadFragmentInv == ASSUME Inv, NEW w \in Workers, LoadFragment(w) PROVE Inv'
<1>1. /\ req[w] # NoRequest /\ req[w].op = "drop" /\ req[w].pc = "load" /\ Fits(req[w])
  BY BusyRequest DEF LoadFragment, At
<1>2. UNCHANGED <<disk, owner, fragments, avatar, sent>> BY DEF LoadFragment
<1>3. CASE Answer(w)
  BY <1>1, <1>2, <1>3, AnswerStep DEF StepTypes, NoWrite, At, disk, Inv, TypeOK, Answer
<1>4. CASE GoTo(w, "check")
  <2>1. PICK r \in Request :
           /\ req' = [req EXCEPT ![w] = r]
           /\ r.op = req[w].op /\ r.image = req[w].image /\ r.user = req[w].user
           /\ r.row = req[w].row /\ r.pc = "check"
    BY <1>1, <1>4, GoToRequest DEF Phases
  <2>2. Fits(r) BY <1>1, <2>1 DEF Fits, Entitled
  <2>3. Known(r, owner', files', w \in linked') BY <1>1, <2>1 DEF Known
  <2>4. UNCHANGED <<promise, alone>> /\ StepTypes /\ OnlyHandled(w) /\ NoWrite(w)
    BY <1>1, <1>2, <1>4 DEF GoTo, StepTypes, OnlyHandled, NoWrite, At, disk, Inv, TypeOK
  <2> QED BY <1>1, <2>1, <2>2, <2>3, <2>4, GoOnStep
<1> QED BY <1>3, <1>4 DEF LoadFragment

LEMMA CheckDeleteInv == ASSUME Inv, NEW w \in Workers, CheckDelete(w) PROVE Inv'
<1> DEFINE i == req[w].image
<1>1. /\ req[w] # NoRequest /\ req[w].op \in {"delete", "drop"} /\ req[w].pc = "check"
      /\ Fits(req[w]) /\ req[w].user \in Users /\ i \in Images
  BY BusyRequest DEF CheckDelete, At
<1>2. UNCHANGED <<disk, owner, fragments, avatar, sent>> BY DEF CheckDelete
<1>3. CASE Answer(w)
  BY <1>1, <1>2, <1>3, AnswerStep DEF StepTypes, NoWrite, At, disk, Inv, TypeOK, Answer
<1>4. CASE owner[i] = req[w].user /\ Read(w, req[w].user, "file") /\ UNCHANGED <<promise, alone>>
  <2>1. PICK r \in Request :
           /\ req' = [req EXCEPT ![w] = r]
           /\ r.op = req[w].op /\ r.image = i /\ r.user = req[w].user
           /\ r.row = req[w].user /\ r.pc = "file"
    BY <1>1, <1>4, ReadRequest DEF Phases
  <2>2. Fits(r) BY <1>1, <2>1 DEF Fits, Entitled
  <2>3. Known(r, owner', files', w \in linked') BY <1>1, <1>2, <1>4, <2>1 DEF Known
  <2>4. StepTypes /\ OnlyHandled(w) /\ NoWrite(w)
    BY <1>1, <1>2, <1>4 DEF StepTypes, OnlyHandled, NoWrite, At, disk, Inv, TypeOK
  <2> QED BY <1>1, <1>4, <2>1, <2>2, <2>3, <2>4, GoOnStep
<1>5. CASE GoTo(w, "commit")
  <2>1. PICK r \in Request :
           /\ req' = [req EXCEPT ![w] = r]
           /\ r.op = req[w].op /\ r.image = i /\ r.user = req[w].user
           /\ r.row = req[w].row /\ r.pc = "commit"
    BY <1>1, <1>5, GoToRequest DEF Phases
  <2>2. r.row = None BY <1>1, <2>1 DEF Fits
  <2>3. Fits(r) BY <1>1, <2>1, <2>2 DEF Fits, Entitled
  <2>4. Known(r, owner', files', w \in linked') BY <1>1, <2>1, <2>2 DEF Known
  <2>5. UNCHANGED <<promise, alone>> /\ StepTypes /\ OnlyHandled(w) /\ NoWrite(w)
    BY <1>1, <1>2, <1>5 DEF GoTo, StepTypes, OnlyHandled, NoWrite, At, disk, Inv, TypeOK
  <2> QED BY <1>1, <2>1, <2>3, <2>4, <2>5, GoOnStep
<1> QED BY <1>3, <1>4, <1>5 DEF CheckDelete

\* What a removed file leaves.
LEMMA RemovedFile ==
    ASSUME Inv, NEW w \in Workers, NEW r, req' = [req EXCEPT ![w] = r],
           req[w] # NoRequest, ~At(w, "upload", "write"), NEW i \in Images, Removed(i)
    PROVE  /\ files' \in [Images -> FileStates \cup {None}] /\ files'[i] = None
           /\ Linking(w, r)
           /\ UNCHANGED owner /\ Handles(req[w], i) => OnlyHandled(w)
<1>1. files' = [files EXCEPT ![i] = None] /\ linked' = {v \in linked : req[v].image # i}
  BY DEF Removed
<1>2. /\ files' \in [Images -> FileStates \cup {None}] /\ files'[i] = None
      /\ \A j \in Images \ {i} : files'[j] = files[j]
  BY <1>1 DEF Inv, TypeOK
<1>3. w \notin linked BY DEF Inv, TypeOK
<1>4. ASSUME NEW j \in Images, files'[j] = "open"
      PROVE  files[j] = "open" /\ \A v \in linked : req[v].image = j => v \in linked'
  BY <1>1, <1>2, <1>4, NoneAssumption
<1>5. Linking(w, r) BY <1>1, <1>3, <1>4, UnlinkedStep
<1>6. UNCHANGED owner /\ Handles(req[w], i) => OnlyHandled(w) BY <1>1, <1>2 DEF OnlyHandled
<1> QED BY <1>2, <1>5, <1>6

LEMMA UnlinkInv == ASSUME Inv, NEW w \in Workers, Unlink(w) PROVE Inv'
<1> DEFINE i == req[w].image
<1>1. /\ req[w] # NoRequest /\ req[w].op \in {"delete", "drop"} /\ req[w].pc = "file"
      /\ Fits(req[w]) /\ req[w].user \in Users /\ i \in Images
  BY BusyRequest DEF Unlink
<1>2. Removed(i) /\ GoTo(w, "commit") /\ UNCHANGED <<owner, fragments, avatar, sent>>
  BY DEF Unlink
<1>3. PICK r \in Request :
         /\ req' = [req EXCEPT ![w] = r]
         /\ r.op = req[w].op /\ r.image = i /\ r.user = req[w].user
         /\ r.row = req[w].row /\ r.pc = "commit"
  BY <1>1, <1>2, GoToRequest DEF Phases
<1>4. Fits(r) BY <1>1, <1>3 DEF Fits, Entitled
<1>5. w \in alone /\ req[w].row = req[w].user => owner[i] = req[w].user
  BY <1>1 DEF Inv, Known
<1>6. Handles(req[w], i) /\ ~At(w, "upload", "write") BY <1>1 DEF Handles, At
<1>7. /\ files' \in [Images -> FileStates \cup {None}] /\ files'[i] = None
      /\ Linking(w, r) /\ OnlyHandled(w)
  BY <1>1, <1>2, <1>3, <1>6, RemovedFile
<1>8. w \in alone => Known(r, owner', files', w \in linked')
  BY <1>1, <1>2, <1>3, <1>5, <1>7 DEF Known
<1>9. UNCHANGED <<promise, alone>> /\ StepTypes BY <1>2, <1>7 DEF GoTo, StepTypes, Inv, TypeOK
<1> QED BY <1>1, <1>3, <1>4, <1>7, <1>8, <1>9, GoOnStep

LEMMA CommitDeleteInv == ASSUME Inv, NEW w \in Workers, CommitDelete(w) PROVE Inv'
<1> DEFINE i == req[w].image
<1>1. /\ req[w] # NoRequest /\ req[w].op \in {"delete", "drop"} /\ req[w].pc = "commit"
      /\ req[w].user \in Users /\ i \in Images
  BY BusyRequest DEF CommitDelete
<1>2. /\ owner' = IF req[w].row = req[w].user THEN [owner EXCEPT ![i] = None] ELSE owner
      /\ IF req[w].row = req[w].user THEN Promise(w, "gone") ELSE Answer(w)
      /\ UNCHANGED <<disk, avatar, sent>>
  BY DEF CommitDelete, RowsLeft
<1>3. /\ files' \in [Images -> FileStates \cup {None}] /\ owner' \in [Images -> Users \cup {None}]
      /\ fragments' \subseteq Users \X Images
  BY <1>1, <1>2 DEF CommitDelete, disk, Inv, TypeOK
<1>4. CASE req[w].row = req[w].user
  <2>1. w \in alone => files[i] = None BY <1>1, <1>4 DEF Inv, Known
  <2>2. w \in alone => Kept(i, "gone", owner', files')
    BY <1>1, <1>2, <1>4, <2>1, NoneAssumption DEF Kept, disk, Inv, TypeOK
  <2>3. Handles(req[w], i) BY <1>1 DEF Handles
  <2>4. OnlyHandled(w) /\ NoWrite(w)
    BY <1>1, <1>2, <2>3 DEF OnlyHandled, NoWrite, At, disk, Inv, TypeOK
  <2> QED BY <1>1, <1>2, <1>3, <1>4, <2>2, <2>4, PromiseStepInv
<1>5. CASE req[w].row # req[w].user
  <2>1. StepTypes /\ Answer(w) /\ NoWrite(w) /\ UNCHANGED owner
    BY <1>1, <1>2, <1>3, <1>5 DEF StepTypes, Answer, NoWrite, At, disk, Inv, TypeOK
  <2> QED BY <2>1, AnswerStep
<1> QED BY <1>4, <1>5

LEMMA LoadAvatarInv == ASSUME Inv, NEW w \in Workers, LoadAvatar(w) PROVE Inv'
<1> DEFINE old == avatar[req[w].user]
<1>1. /\ req[w] # NoRequest /\ req[w].op \in {"avatar", "unset"} /\ old \in Images \cup {None}
  BY BusyRequest DEF LoadAvatar, At, Inv, TypeOK
<1>2. UNCHANGED <<disk, owner, fragments, avatar, sent>> BY DEF LoadAvatar
<1> HIDE DEF old
<1>3. CASE Answer(w)
  BY <1>1, <1>2, <1>3, AnswerStep DEF StepTypes, NoWrite, At, disk, Inv, TypeOK, Answer
<1>4. CASE /\ Read(w, old, "commit")
           /\ IF req[w].op = "avatar" /\ old # None THEN Touch(w, old)
                                                    ELSE UNCHANGED <<promise, alone>>
  <2>1. PICK r \in Request :
           /\ req' = [req EXCEPT ![w] = r]
           /\ r.op = req[w].op /\ r.image = req[w].image /\ r.user = req[w].user
           /\ r.row = old /\ r.pc = "commit"
    BY <1>1, <1>4, ReadRequest DEF Phases
  <2>2. Fits(r) BY <1>1, <2>1 DEF Fits, Entitled
  <2>3. Known(r, owner', files', w \in linked') BY <1>1, <2>1 DEF Known
  <2>4. OnlyHandled(w) /\ NoWrite(w) BY <1>1, <1>2 DEF OnlyHandled, NoWrite, At, disk
  <2>5. CASE req[w].op = "avatar" /\ old # None
    <3>1. Touch(w, old) /\ old \in Images BY <1>1, <1>4, <2>5
    <3>2. \A j \in Images : Handles(r, j) => j = old BY <2>1, <2>5 DEF Handles
    <3>3. Begins(w, r) BY <3>1, <3>2 DEF Begins
    <3>4. PromisesStep(w, r) /\ StepTypes
      BY <1>2, <3>1, TouchPromises DEF StepTypes, disk, Inv, TypeOK
    <3> QED BY <2>1, <2>2, <2>3, <2>4, <3>3, <3>4, WorkerStep
  <2>6. CASE ~(req[w].op = "avatar" /\ old # None)
    <3>1. UNCHANGED <<promise, alone>> BY <1>4, <2>6
    <3>2. \A j \in Images : ~Handles(r, j) BY <1>1, <2>1, <2>6 DEF Handles
    <3>3. Continues(w, r) BY <3>1, <3>2 DEF Continues
    <3>4. PromisesStep(w, r) /\ StepTypes
      BY <1>2, <3>1 DEF PromisesStep, StepTypes, disk, Inv, TypeOK
    <3> QED BY <2>1, <2>2, <2>3, <2>4, <3>3, <3>4, WorkerStep
  <2> QED BY <2>5, <2>6
<1> QED BY <1>3, <1>4 DEF LoadAvatar, old

LEMMA CommitAvatarInv == ASSUME Inv, NEW w \in Workers, CommitAvatar(w) PROVE Inv'
<1>1. /\ req[w] # NoRequest /\ req[w].op = "avatar" /\ Fits(req[w])
      /\ req[w].image \in Images
  BY BusyRequest DEF CommitAvatar, At
<1>2. UNCHANGED <<disk, owner, fragments, sent>> /\ avatar' \in [Users -> Images \cup {None}]
  BY <1>1 DEF CommitAvatar, Inv, TypeOK
<1>3. CASE Answer(w)
  BY <1>1, <1>2, <1>3, AnswerStep DEF StepTypes, NoWrite, At, disk, Inv, TypeOK, Answer
<1>4. CASE GoTo(w, "hook")
  <2>1. PICK r \in Request :
           /\ req' = [req EXCEPT ![w] = r]
           /\ r.op = req[w].op /\ r.image = req[w].image /\ r.user = req[w].user
           /\ r.row = req[w].row /\ r.pc = "hook"
    BY <1>1, <1>4, GoToRequest DEF Phases
  <2>2. Fits(r) BY <1>1, <2>1 DEF Fits, Entitled
  <2>3. Known(r, owner', files', w \in linked') BY <1>1, <2>1 DEF Known
  <2>4. UNCHANGED <<promise, alone>> /\ StepTypes /\ OnlyHandled(w) /\ NoWrite(w)
    BY <1>1, <1>2, <1>4 DEF GoTo, StepTypes, OnlyHandled, NoWrite, At, disk, Inv, TypeOK
  <2> QED BY <1>1, <2>1, <2>2, <2>3, <2>4, GoOnStep
<1> QED BY <1>3, <1>4 DEF CommitAvatar

LEMMA RunHookInv == ASSUME Inv, NEW w \in Workers, RunHook(w) PROVE Inv'
<1>1. /\ req[w] # NoRequest /\ req[w].op = "avatar" /\ ~At(w, "upload", "write")
      /\ req[w].row \in Images \cup {None}
  BY BusyRequest DEF RunHook, At, Fits, Entitled
<1>2. /\ UNCHANGED <<owner, fragments, avatar, sent>> /\ Answer(w)
      /\ req' = [req EXCEPT ![w] = NoRequest] /\ alone' = alone \ {w} /\ promise' = promise
  BY DEF RunHook, Answer, Ends
<1>3. CASE req[w].row = None
  <2>1. UNCHANGED disk BY <1>3 DEF RunHook
  <2>2. StepTypes /\ NoWrite(w) BY <1>1, <1>2, <2>1 DEF StepTypes, NoWrite, disk, Inv, TypeOK
  <2> QED BY <1>2, <2>2, AnswerStep
<1>4. CASE req[w].row # None
  <2>1. Removed(req[w].row) /\ req[w].row \in Images BY <1>1, <1>4 DEF RunHook
  <2>2. Handles(req[w], req[w].row) BY <1>1 DEF Handles
  <2>3. /\ files' \in [Images -> FileStates \cup {None}]
        /\ Linking(w, NoRequest) /\ OnlyHandled(w)
    BY <1>1, <1>2, <2>1, <2>2, RemovedFile
  <2>4. Continues(w, NoRequest) /\ PromisesStep(w, NoRequest)
    BY <1>2 DEF Continues, PromisesStep, Handles
  <2>5. StepTypes BY <1>2, <2>3 DEF StepTypes, Inv, TypeOK
  <2> QED BY <1>2, <2>3, <2>4, <2>5, WorkerStep
<1> QED BY <1>3, <1>4

LEMMA CommitUnsetInv == ASSUME Inv, NEW w \in Workers, CommitUnset(w) PROVE Inv'
<1>1. req[w] # NoRequest /\ req[w].user \in Users BY BusyRequest DEF CommitUnset, At
<1>2. StepTypes /\ NoWrite(w)
  BY <1>1 DEF CommitUnset, StepTypes, NoWrite, At, disk, Inv, TypeOK, Answer
<1> QED BY <1>2, AnswerStep DEF CommitUnset

LEMMA CrashInv == ASSUME Inv, NEW w \in Workers, Crash(w) PROVE Inv'
<1> DEFINE i == req[w].image
<1>1. req[w] # NoRequest /\ i \in Images BY BusyRequest DEF Crash
<1>2. /\ UNCHANGED <<owner, fragments, avatar, sent>> /\ linked' = linked \ {w}
      /\ req' = [req EXCEPT ![w] = NoRequest] /\ alone' = alone \ {w} /\ promise' = promise
  BY DEF Crash, Answer, Ends
<1>3. /\ files' \in [Images -> FileStates \cup {None}]
      /\ \A j \in Images \ {i} : files'[j] = files[j]
      /\ w \in linked => files'[i] # "open"
      /\ w \notin linked => files' = files
  <2>1. CASE w \in linked
    <3>1. PICK bytes \in {"torn", files[i]} \ {"open"} : files' = [files EXCEPT ![i] = bytes]
      BY <2>1 DEF Crash
    <3>2. bytes \in FileStates \cup {None} BY <1>1, <3>1 DEF FileStates, Inv, TypeOK
    <3> QED BY <1>1, <2>1, <3>1, <3>2 DEF Inv, TypeOK
  <2>2. CASE w \notin linked BY <2>2 DEF Crash, Inv, TypeOK
  <2> QED BY <2>1, <2>2
<1>4. Continues(w, NoRequest) /\ PromisesStep(w, NoRequest)
  BY <1>2 DEF Continues, PromisesStep, Handles
<1>5. w \in linked => Handles(req[w], i) BY <1>1 DEF Handles, At, Inv, TypeOK
<1>6. OnlyHandled(w) BY <1>1, <1>2, <1>3, <1>5 DEF OnlyHandled
<1>7. Linking(w, NoRequest) BY <1>1, <1>2, <1>3, UnlinkedStep
<1>8. StepTypes BY <1>2, <1>3 DEF StepTypes, Inv, TypeOK
<1> QED BY <1>2, <1>4, <1>6, <1>7, <1>8, WorkerStep

\* Fragments come and go by themselves.
LEMMA FragmentsInv == ASSUME Inv, AddFragment \/ RemoveEntry PROVE Inv'
<1>1. UNCHANGED <<disk, owner, avatar, req, sent, promise, alone>>
  BY DEF AddFragment, RemoveEntry
<1>2. fragments' \subseteq Users \X Images
  BY DEF AddFragment, RemoveEntry, Inv, TypeOK
<1> QED BY <1>1, <1>2
  DEF disk, At, Inv, TypeOK, Apart, Opened, Unhandled, Fits, Entitled, Known, Kept, Handles

LEMMA StepInv == Inv /\ [Next]_vars => Inv'
<1> SUFFICES ASSUME Inv, [Next]_vars PROVE Inv'
  OBVIOUS
<1>1. CASE UNCHANGED vars
  BY <1>1 DEF vars, disk, At, Inv, TypeOK, Apart, Opened, Unhandled, Fits, Entitled,
             Known, Kept, Handles
<1>2. CASE AddFragment \/ RemoveEntry BY <1>2, FragmentsInv
<1>3. ASSUME NEW w \in Workers, Send(w) \/ Handle(w) \/ Crash(w) PROVE Inv'
  BY <1>3, SendInv, CheckUploadInv, SaveUploadInv, WriteFileInv, MergeUploadInv,
     CommitUploadInv,
     LoadFragmentInv, CheckDeleteInv, UnlinkInv, CommitDeleteInv, LoadAvatarInv,
     CommitAvatarInv, RunHookInv, CommitUnsetInv, CrashInv DEF Handle
<1> QED BY <1>1, <1>2, <1>3 DEF Next

LEMMA AlwaysInv == Spec => []Inv
BY InitInv, StepInv, PTL DEF Spec

-----------------------------------------------------------------------------
\* Files, rows and requests keep their shape, and no upload or delete writes or
\* unlinks a file that the owner row it read does not entitle it to.
THEOREM TypeCorrect == Spec => []TypeOK
<1>1. Inv => TypeOK BY DEF Inv
<1> QED BY <1>1, AlwaysInv, PTL

\* What a client was told of an image stays true until the next request on it,
\* whatever crashes and whatever runs on other images; a file that a 201 answer
\* promised is there, and cut off or mixed only if the answer wrote nothing.
THEOREM PromisesHold == Spec => []PromiseKept
<1>1. Inv => PromiseKept
  <2> SUFFICES ASSUME Inv PROVE PromiseKept
    OBVIOUS
  <2>1. \A i \in Images : Kept(i, promise[i], owner, files) BY DEF Inv
  <2>2. ASSUME NEW w \in alone, At(w, "upload", "commit")
        PROVE  files[req[w].image] = "whole"
    BY <2>2 DEF Inv, Known, At
  <2> QED BY <2>1, <2>2 DEF Kept, PromiseKept
<1> QED BY <1>1, AlwaysInv, PTL

\* A retry that nothing overlaps gets through, whatever its first try left behind.
THEOREM RetriesSucceed == Spec => []RetryNeverRefused
<1>1. Inv => RetryNeverRefused BY AloneNotRefused DEF RetryNeverRefused
<1> QED BY <1>1, AlwaysInv, PTL

\* An image changes hands only in the commit of an upload that another request on
\* it overlapped.
THEOREM TakeoverNeedsOverlap == Spec => NoTakeover
<1>1. ASSUME Inv, [Next]_vars
      PROVE  [\A i \in Images :
                owner[i] # None /\ owner'[i] \notin {owner[i], None} =>
                  \E w \in Workers \ alone : At(w, "upload", "commit") /\ req[w].image = i]_vars
  <2> SUFFICES ASSUME Next, NEW i \in Images, owner[i] # None,
                      owner'[i] \notin {owner[i], None}
               PROVE  \E w \in Workers \ alone :
                        At(w, "upload", "commit") /\ req[w].image = i
    BY <1>1
  <2>1. PICK w \in Workers : CommitUpload(w) \/ CommitDelete(w)
    BY DEF Next, Handle, AddFragment, RemoveEntry, Send, CheckUpload, SaveUpload, WriteFile,
           MergeUpload,
           LoadFragment, CheckDelete, Unlink, LoadAvatar, CommitAvatar, RunHook, CommitUnset,
           Crash
  <2>2. ~CommitDelete(w)
    BY <1>1 DEF CommitDelete, RowsLeft, Inv, TypeOK
  <2>3. At(w, "upload", "commit") /\ req[w] # NoRequest BY <2>1, <2>2 DEF CommitUpload, At
  <2>4. /\ ~Refused(req[w]) /\ req[w].row # req[w].user
        /\ owner' = [owner EXCEPT ![req[w].image] = req[w].user]
    BY <2>1, <2>2 DEF CommitUpload
  <2>5. req[w].image = i BY <1>1, <2>4 DEF Inv, TypeOK
  <2>6. ASSUME w \in alone PROVE FALSE
    <3>1. owner[i] = req[w].row /\ req[w].row \in {None, req[w].user}
      BY <1>1, <2>3, <2>5, <2>6 DEF Inv, Known, At
    <3> QED BY <2>4, <3>1
  <2> QED BY <2>3, <2>5, <2>6
<1> QED BY <1>1, AlwaysInv, PTL DEF Spec, NoTakeover
=============================================================================
