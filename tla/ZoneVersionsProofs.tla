------------------------ MODULE ZoneVersionsProofs ------------------------
(***************************************************************************)
(* Proofs about ZoneVersions, for any spaces, shapes and editors, and at   *)
(* the end about BucketAttribution on top of it.                           *)
(*                                                                         *)
(* That a space has one shape at every instant is inductive as it stands:  *)
(* the version that covers an instant after the stamp can only be the open *)
(* one, which is the one the save closes.  That a save replaces its base   *)
(* needs what an editor's save has found out so far (SeenIsBase).          *)
(***************************************************************************)
EXTENDS BucketAttribution, TLAPS

\* From the comparison on, a save is for the version it was drawn on.
SeenIsBase ==
    \A e \in Editors : editor[e].pc \in {"read", "cleared", "stamped"} =>
        /\ editor[e].base \in {None, editor[e].seen}
        /\ editor[e].seen \in Ids /\ versions[editor[e].seen].space = editor[e].space

BaseIsKnown == \A i \in Ids : versions[i].base # None => versions[i].base \in Ids

IInv == ZoneTypeOK /\ SeenIsBase /\ OneShape /\ BaseIsKnown /\ BaseReplaced

\* None is not a number, so an instant is told apart from "still open".
LEMMA NoneIsNoTime == None \notin Nat /\ None \notin Times
BY ZoneAssumption DEF Times

LEMMA InitInv == ZoneInit => IInv
<1> SUFFICES ASSUME ZoneInit PROVE IInv
  OBVIOUS
<1> USE ZoneAssumption DEF ZoneInit
<1>1. ZoneTypeOK
  BY DEF ZoneTypeOK, Times, Idle
<1>2. SeenIsBase
  BY DEF SeenIsBase, Idle
<1>3. OneShape
  <2> SUFFICES ASSUME NEW s \in Spaces, NEW t \in Times PROVE \E i \in Ids : ShapesAt(s, t) = {i}
    BY DEF OneShape
  <2>1. PICK i \in Ids : \A j \in Ids : versions[j].space = s /\ versions[j].primary <=> j = i
    BY DEF Ids
  <2>2. \A j \in Ids : Covers(versions[j], t)
    BY DEF Ids, Covers, Times
  <2> QED
    BY <2>1, <2>2 DEF ShapesAt
<1>4. BaseIsKnown /\ BaseReplaced
  BY DEF BaseIsKnown, BaseReplaced, Ids
<1> QED
  BY <1>1, <1>2, <1>3, <1>4 DEF IInv

\* A request keeps its type when it gets on.
LEMMA RequestFields ==
    ASSUME ZoneTypeOK, NEW e \in Editors,
           editor[e].pc \in {"sent", "read", "cleared", "stamped"}
    PROVE  editor[e] \in Request
BY DEF ZoneTypeOK, Idle, Outcome

LEMMA TypeStep == ZoneTypeOK /\ SeenIsBase /\ [ZoneNext]_zvars => ZoneTypeOK'
<1> SUFFICES ASSUME ZoneTypeOK, SeenIsBase, [ZoneNext]_zvars PROVE ZoneTypeOK'
  OBVIOUS
<1> USE ZoneAssumption DEF ZoneTypeOK
<1>1. CASE UNCHANGED zvars
  BY <1>1 DEF zvars
<1>2. CASE Tick
  BY <1>2 DEF Tick, Times
<1>3. ASSUME NEW e \in Editors, Saving(e) PROVE ZoneTypeOK'
  <2>1. ASSUME NEW s \in Spaces, NEW p \in Polygons, NEW ack \in Acks, Draw(e, s, p, ack)
        PROVE  ZoneTypeOK'
    <3>0. PICK i \in OpenPrimaries(s) : \E base \in {i, None} :
             editor' = [editor EXCEPT ![e] = [pc |-> "sent", space |-> s, polygon |-> p,
                                              base |-> base, ack |-> ack, seen |-> 0, met |-> {},
                                              at |-> 0]]
      BY <2>1 DEF Draw
    <3>1. PICK base \in {i, None} :
             editor' = [editor EXCEPT ![e] = [pc |-> "sent", space |-> s, polygon |-> p,
                                              base |-> base, ack |-> ack, seen |-> 0, met |-> {},
                                              at |-> 0]]
      BY <3>0
    <3>2. base \in Nat \cup {None}
      BY DEF OpenPrimaries, Ids
    <3>3. editor'[e] \in Request
      BY <3>1, <3>2 DEF Request, Times
    <3> QED
      BY <2>1, <3>1, <3>3 DEF Draw
  <2>2. CASE Read(e)
    <3> DEFINE r == editor[e]
    <3>1. r \in Request
      BY <2>2, RequestFields DEF Read
    <3>2. PICK i \in OpenPrimaries(r.space) :
            \/ editor' = [editor EXCEPT ![e].pc = "read", ![e].seen = i]
            \/ Answer(e, "reload")
      BY <2>2 DEF Read
    <3>3. i \in Nat
      BY DEF OpenPrimaries, Ids
    <3>4. editor'[e] \in Request \cup Outcome
      <4>1. [[r EXCEPT !.pc = "read"] EXCEPT !.seen = i] \in Request
        BY <3>1, <3>3 DEF Request
      <4>2. [pc |-> "reload"] \in Outcome
        BY DEF Outcome
      <4>3. CASE editor' = [editor EXCEPT ![e].pc = "read", ![e].seen = i]
        BY <3>1, <4>1, <4>3 DEF r, ZoneTypeOK
      <4>4. CASE Answer(e, "reload")
        BY <4>2, <4>4 DEF Answer, ZoneTypeOK
      <4> HIDE DEF r
      <4> QED
        BY <3>2, <4>3, <4>4
    <3> QED
      BY <2>2, <3>2, <3>4 DEF Read, Answer
  <2>3. CASE CheckOverlap(e)
    <3>1. editor[e] \in Request
      BY <2>3, RequestFields DEF CheckOverlap
    <3>2. editor'[e] \in Request \cup Outcome
      <4>1. \/ editor' = [editor EXCEPT ![e].pc = "cleared", ![e].met = Neighbours(editor[e].space)]
            \/ editor' = [editor EXCEPT ![e] = [pc |-> "overlap"]]
        BY <2>3 DEF CheckOverlap, Answer
      <4>2. [[editor[e] EXCEPT !.pc = "cleared"] EXCEPT !.met = Neighbours(editor[e].space)] \in Request
        <5>1. Neighbours(editor[e].space) \in SUBSET Nat
          BY DEF Neighbours, Ids
        <5> QED  BY <3>1, <5>1 DEF Request
      <4>3. [pc |-> "overlap"] \in Outcome
        BY DEF Outcome
      <4> QED  BY <4>1, <4>2, <4>3
    <3> QED
      BY <2>3, <3>2 DEF CheckOverlap, Answer
  <2>4. CASE Stamp(e)
    <3>1. editor[e] \in Request
      BY <2>4, RequestFields DEF Stamp
    <3>2. editor'[e] \in Request
      BY <2>4, <3>1 DEF Stamp, Request
    <3> QED
      BY <2>4, <3>2 DEF Stamp
  <2>5. CASE Save(e)
    <3> DEFINE r == editor[e]
    <3>1. r \in Request
      BY <2>5, RequestFields DEF Save
    <3>2. CASE Admitted(r)
      <4>1. /\ versions' = Append([versions EXCEPT ![r.seen].to = r.at], NewVersion(r))
            /\ editor' = [editor EXCEPT ![e] = Idle]
        BY <2>5, <3>2 DEF Save
      <4>2. NewVersion(r) \in Version
        BY <3>1 DEF NewVersion, Version, Request
      <4>3. [versions EXCEPT ![r.seen].to = r.at] \in Seq(Version)
        <5> DEFINE w == [versions EXCEPT ![r.seen].to = r.at]
        <5>1. DOMAIN w = 1 .. Len(versions) /\ Len(versions) \in Nat
          OBVIOUS
        <5>2. r.at \in Times
          BY <3>1 DEF Request
        <5>3. ASSUME NEW v \in Version PROVE [v EXCEPT !.to = r.at] \in Version
          BY <5>2 DEF Version
        <5>4. ASSUME NEW i \in 1 .. Len(versions) PROVE w[i] \in Version
          <6>1. versions[i] \in Version
            OBVIOUS
          <6>2. w[i] = IF i = r.seen THEN [versions[i] EXCEPT !.to = r.at] ELSE versions[i]
            OBVIOUS
          <6> QED
            BY <5>3, <6>1, <6>2
        <5>5. w \in [1 .. Len(versions) -> Version]
          BY <5>1, <5>4
        <5> QED
          BY <5>1, <5>5
      <4>4. versions' \in Seq(Version)
        BY <4>1, <4>2, <4>3
      <4> QED
        BY <2>5, <4>1, <4>4 DEF Save
    <3>3. CASE ~ Admitted(r)
      BY <2>5, <3>3 DEF Save, Answer, Outcome
    <3> QED
      BY <3>2, <3>3
  <2>6. CASE Leave(e)
    BY <2>6 DEF Leave
  <2> QED
    BY <1>3, <2>1, <2>2, <2>3, <2>4, <2>5, <2>6 DEF Saving
<1> QED
  BY <1>1, <1>2, <1>3 DEF ZoneNext

\* What a save that is admitted leaves in the table.
LEMMA SaveRows ==
    ASSUME ZoneTypeOK, NEW e \in Editors, Save(e), Admitted(editor[e])
    PROVE  LET r == editor[e]
               n == Len(versions) + 1
           IN  /\ r \in Request /\ r.at \in Times /\ r.seen \in Ids /\ Ids = 1 .. Len(versions)
               /\ Ids' = Ids \cup {n} /\ n \notin Ids
               /\ versions'[n] = NewVersion(r)
               /\ \A i \in Ids : versions'[i] = IF i = r.seen THEN [versions[i] EXCEPT !.to = r.at]
                                                 ELSE versions[i]
               /\ IsOpenPrimary(r.seen) /\ versions[r.seen].space = r.space
               /\ \A i \in Ids : versions[i] \in Version
               /\ editor' = [editor EXCEPT ![e] = Idle]
<1> DEFINE r == editor[e]
           n == Len(versions) + 1
           w == [versions EXCEPT ![r.seen].to = r.at]
<1> USE DEF ZoneTypeOK
<1>1. r \in Request
  BY RequestFields DEF Save
<1>2. versions' = Append(w, NewVersion(r)) /\ editor' = [editor EXCEPT ![e] = Idle]
  BY DEF Save
<1>3. r.seen \in Ids /\ IsOpenPrimary(r.seen) /\ versions[r.seen].space = r.space
  BY DEF Admitted, OpenPrimaries
<1>4. Len(versions) \in Nat /\ Ids = 1 .. Len(versions) /\ \A i \in Ids : versions[i] \in Version
  BY DEF Ids
<1>5. w \in Seq(Version)
  <2>1. \A i \in 1 .. Len(versions) : w[i] \in Version
    <3> SUFFICES ASSUME NEW i \in 1 .. Len(versions) PROVE w[i] \in Version
      OBVIOUS
    <3>1. r.at \in Times
      BY <1>1 DEF Request
    <3>2. versions[i] \in Version
      BY <1>4
    <3>3. [versions[i] EXCEPT !.to = r.at] \in Version
      BY <3>1, <3>2 DEF Version
    <3>4. w[i] = IF i = r.seen THEN [versions[i] EXCEPT !.to = r.at] ELSE versions[i]
      BY <1>4
    <3> QED
      BY <3>2, <3>3, <3>4
  <2>0. DOMAIN w = 1 .. Len(versions)
    OBVIOUS
  <2>2. w \in [1 .. Len(versions) -> Version]
    BY <2>0, <2>1
  <2> QED
    BY <2>2, <1>4
<1>6. Len(w) = Len(versions)
  BY <1>4, <1>5
<1>7. \A i \in Ids : versions'[i] = w[i]
  BY <1>2, <1>4, <1>5, <1>6
<1>8. versions'[n] = NewVersion(r) /\ Ids' = Ids \cup {n}
  BY <1>2, <1>4, <1>5, <1>6 DEF Ids
<1>9. \A i \in Ids : w[i] = IF i = r.seen THEN [versions[i] EXCEPT !.to = r.at] ELSE versions[i]
  BY <1>4
<1>10. r.at \in Times
  BY <1>1 DEF Request
<1>11. n \notin Ids
  BY <1>4
<1> HIDE DEF r, w, n
<1>12. \A i \in Ids : versions'[i] = IF i = r.seen THEN [versions[i] EXCEPT !.to = r.at]
                                      ELSE versions[i]
  BY <1>7, <1>9
<1> QED
  BY <1>1, <1>2, <1>3, <1>4, <1>8, <1>10, <1>11, <1>12 DEF r, n

\* Every step but an admitted save leaves the table alone.
LEMMA RowsKept ==
    ASSUME [ZoneNext]_zvars,
           ~ \E e \in Editors : Save(e) /\ Admitted(editor[e])
    PROVE  versions' = versions
<1>1. ASSUME NEW e \in Editors, Saving(e) PROVE versions' = versions
  BY <1>1 DEF Saving, Draw, Read, CheckOverlap, Stamp, Save, Leave
<1> QED
  BY <1>1 DEF ZoneNext, Tick, zvars

LEMMA SeenStep == IInv /\ [ZoneNext]_zvars => SeenIsBase'
<1> SUFFICES ASSUME IInv, [ZoneNext]_zvars,
                    NEW f \in Editors, editor'[f].pc \in {"read", "cleared", "stamped"}
             PROVE  /\ editor'[f].base \in {None, editor'[f].seen}
                    /\ editor'[f].seen \in Ids' /\ versions'[editor'[f].seen].space = editor'[f].space
  BY DEF SeenIsBase
<1> DEFINE Sound(r) == /\ r.base \in {None, r.seen}
                       /\ r.seen \in Ids /\ versions[r.seen].space = r.space
<1> USE DEF IInv, ZoneTypeOK
<1>1. Sound(editor'[f])
  <2>1. CASE UNCHANGED editor
    BY <2>1 DEF SeenIsBase
  <2>2. ASSUME NEW e \in Editors, Saving(e) PROVE Sound(editor'[f])
    <3>1. CASE f # e
      <4>1. editor'[f] = editor[f]
        BY <2>2, <3>1 DEF Saving, Draw, Read, CheckOverlap, Stamp, Save, Leave, Answer
      <4> QED
        BY <4>1 DEF SeenIsBase
    <3>2. CASE f = e
      <4>1. CASE \E s \in Spaces, p \in Polygons, ack \in Acks : Draw(e, s, p, ack)
        BY <4>1, <3>2 DEF Draw
      <4>2. CASE Read(e)
        <5>1. editor[e] \in Request
          BY <4>2, RequestFields DEF Read
        <5>2. PICK i \in OpenPrimaries(editor[e].space) :
                IF editor[e].base \in {None, i}
                THEN editor' = [editor EXCEPT ![e].pc = "read", ![e].seen = i]
                ELSE Answer(e, "reload")
          BY <4>2 DEF Read
        <5>3. editor[e].base \in {None, i} /\ editor' = [editor EXCEPT ![e].pc = "read", ![e].seen = i]
          BY <5>2, <3>2 DEF Answer
        <5>4. /\ editor'[e].base = editor[e].base /\ editor'[e].seen = i
              /\ editor'[e].space = editor[e].space
          BY <5>1, <5>3 DEF Request
        <5> QED
          BY <5>3, <5>4, <3>2 DEF OpenPrimaries
      <4>3. CASE CheckOverlap(e) \/ Stamp(e)
        <5>1. editor[e] \in Request /\ editor[e].pc \in {"read", "cleared"}
          BY <4>3, RequestFields DEF CheckOverlap, Stamp
        <5>2. /\ editor'[e].base = editor[e].base /\ editor'[e].seen = editor[e].seen
              /\ editor'[e].space = editor[e].space
          BY <4>3, <5>1, <3>2 DEF CheckOverlap, Stamp, Answer, Request
        <5> QED
          BY <5>1, <5>2, <3>2 DEF SeenIsBase
      <4>4. CASE Save(e) \/ Leave(e)
        BY <4>4, <3>2 DEF Save, Leave, Answer, Idle
      <4> QED
        BY <2>2, <4>1, <4>2, <4>3, <4>4 DEF Saving
    <3> QED
      BY <3>1, <3>2
  <2> QED
    BY <2>1, <2>2 DEF ZoneNext, Tick, zvars
<1>2. CASE versions' = versions
  BY <1>1, <1>2 DEF Ids
<1>3. CASE \E e \in Editors : Save(e) /\ Admitted(editor[e])
  <2>1. PICK e \in Editors : Save(e) /\ Admitted(editor[e])
    BY <1>3
  <2>2. \A i \in Ids : i \in Ids' /\ versions'[i].space = versions[i].space
    <3>1. \A i \in Ids : versions[i] \in Version
      BY <2>1, SaveRows
    <3>2. \A i \in Ids : i \in Ids' /\ versions'[i] =
            IF i = editor[e].seen THEN [versions[i] EXCEPT !.to = editor[e].at] ELSE versions[i]
      BY <2>1, SaveRows
    <3> QED
      BY <3>1, <3>2 DEF Version
  <2> QED
    BY <1>1, <2>2
<1> QED
  BY <1>2, <1>3, RowsKept

\* The shape an instant has after a save: before the stamp the one it had, from the
\* stamp on, for the space that is saved, the new one.
LEMMA SavedShapes ==
    ASSUME IInv, NEW e \in Editors, Save(e), Admitted(editor[e]),
           NEW s \in Spaces, NEW t \in Times
    PROVE  ShapesAt(s, t)' = IF s = editor[e].space /\ editor[e].at <= t THEN {Len(versions) + 1}
                             ELSE ShapesAt(s, t)
<1> USE DEF IInv
<1>1. PICK o \in Ids : ShapesAt(s, t) = {o}
  BY DEF OneShape
<1> DEFINE r == editor[e]
           n == Len(versions) + 1
           Is(v) == v.space = s /\ v.primary /\ Covers(v, t)
<1>2. /\ r.at \in Times /\ r.seen \in Ids /\ Ids' = Ids \cup {n} /\ n \notin Ids
      /\ versions'[n] = NewVersion(r)
      /\ \A i \in Ids : versions'[i] = IF i = r.seen THEN [versions[i] EXCEPT !.to = r.at]
                                        ELSE versions[i]
      /\ versions[r.seen].primary /\ versions[r.seen].to = None /\ versions[r.seen].space = r.space
      /\ \A i \in Ids : versions[i] \in Version
  BY SaveRows DEF IsOpenPrimary
<1>3. versions[r.seen].from < r.at
  BY DEF Admitted
<1>4. \A i \in Ids : Is(versions[i]) <=> i = o
  BY <1>1 DEF ShapesAt
<1>5. ShapesAt(s, t)' = {i \in Ids \cup {n} : Is(versions'[i])}
  BY <1>2 DEF ShapesAt
<1>6. \A i \in Ids : i # r.seen => (Is(versions'[i]) <=> i = o)
  <2>1. \A i \in Ids : i # r.seen => versions'[i] = versions[i]
    BY <1>2
  <2> HIDE DEF Is
  <2> QED  BY <1>4, <2>1
<1>7. versions[r.seen].from \in Times /\ None \notin Times
  BY <1>2, NoneIsNoTime DEF Version
<1>8. Is(versions'[r.seen]) <=> r.seen = o /\ t < r.at
  <2>1. versions'[r.seen] = [versions[r.seen] EXCEPT !.to = r.at]
    BY <1>2
  <2>2. /\ versions'[r.seen].space = r.space /\ versions'[r.seen].primary
        /\ versions'[r.seen].from = versions[r.seen].from /\ versions'[r.seen].to = r.at
    BY <1>2, <2>1 DEF Version
  <2>3. Is(versions'[r.seen]) <=> s = r.space /\ versions[r.seen].from <= t /\ t < r.at
    BY <1>2, <1>7, <2>2 DEF Covers
  <2>4. Is(versions[r.seen]) <=> s = r.space /\ versions[r.seen].from <= t
    BY <1>2 DEF Covers
  <2> QED
    BY <1>2, <1>4, <2>3, <2>4
<1>9. Is(versions'[n]) <=> r.seen = o /\ r.at <= t
  <2>1. Is(versions'[n]) <=> r.space = s /\ r.at <= t
    BY <1>2 DEF NewVersion, Covers
  <2>2. r.at <= t => (Is(versions[r.seen]) <=> r.space = s)
    BY <1>2, <1>3, <1>7 DEF Covers, Times
  <2> QED
    BY <1>2, <1>4, <2>1, <2>2
<1>10. CASE s = r.space /\ r.at <= t
  <2>1. r.seen = o /\ ~ (t < r.at)
    BY <1>2, <1>3, <1>4, <1>7, <1>10 DEF Covers, Times
  <2> QED
    BY <1>2, <1>5, <1>6, <1>8, <1>9, <1>10, <2>1
<1>11. CASE ~ (s = r.space /\ r.at <= t)
  <2>1. r.seen = o => t < r.at
    BY <1>2, <1>4, <1>11 DEF Times
  <2>2. ~ (r.seen = o /\ r.at <= t)
    BY <1>2, <2>1 DEF Times
  <2>3. ShapesAt(s, t)' = {o}
    BY <1>2, <1>5, <1>6, <1>8, <1>9, <2>1, <2>2
  <2> QED
    BY <1>1, <1>11, <2>3
<1> QED
  BY <1>10, <1>11

LEMMA ShapeStep == IInv /\ [ZoneNext]_zvars => OneShape'
<1> SUFFICES ASSUME IInv, [ZoneNext]_zvars, NEW s \in Spaces, NEW t \in Times
             PROVE  \E i \in Ids' : ShapesAt(s, t)' = {i}
  BY DEF OneShape
<1>1. PICK o \in Ids : ShapesAt(s, t) = {o}
  BY DEF IInv, OneShape
<1>2. CASE versions' = versions
  BY <1>1, <1>2 DEF ShapesAt, Ids
<1>3. CASE \E e \in Editors : Save(e) /\ Admitted(editor[e])
  <2>1. PICK e \in Editors : Save(e) /\ Admitted(editor[e])
    BY <1>3
  <2>2. Ids' = Ids \cup {Len(versions) + 1}
    BY <2>1, SaveRows DEF IInv
  <2>3. ShapesAt(s, t)' \in {{Len(versions) + 1}, {o}}
    BY <1>1, <2>1, SavedShapes
  <2> QED
    BY <2>2, <2>3
<1> QED
  BY <1>2, <1>3, RowsKept

LEMMA BaseStep == IInv /\ [ZoneNext]_zvars => BaseIsKnown' /\ BaseReplaced'
<1> SUFFICES ASSUME IInv, [ZoneNext]_zvars PROVE BaseIsKnown' /\ BaseReplaced'
  OBVIOUS
<1> USE DEF IInv
<1>1. CASE versions' = versions
  BY <1>1 DEF BaseIsKnown, BaseReplaced, Ids
<1>2. CASE \E e \in Editors : Save(e) /\ Admitted(editor[e])
  <2>1. PICK e \in Editors : Save(e) /\ Admitted(editor[e])
    BY <1>2
  <2> DEFINE r == editor[e]
             n == Len(versions) + 1
  <2>2. /\ r.at \in Times /\ r.seen \in Ids /\ Ids' = Ids \cup {n} /\ n \notin Ids
        /\ versions'[n] = NewVersion(r)
        /\ \A i \in Ids : versions'[i] = IF i = r.seen THEN [versions[i] EXCEPT !.to = r.at]
                                          ELSE versions[i]
        /\ versions[r.seen].to = None /\ versions[r.seen].space = r.space
        /\ \A i \in Ids : versions[i] \in Version
    BY <2>1, SaveRows DEF IsOpenPrimary
  <2>3. /\ versions'[r.seen].to = r.at /\ versions'[r.seen].space = r.space
        /\ versions'[r.seen].base = versions[r.seen].base
        /\ versions'[r.seen].from = versions[r.seen].from
    BY <2>2 DEF Version
  <2>4. r.base \in {None, r.seen}
    BY <2>1 DEF Save, SeenIsBase
  <2>5. ASSUME NEW i \in Ids, versions[i].base # None
        PROVE  LET b == versions[i].base IN
               b \in Ids /\ b # r.seen /\ versions[b].space = versions[i].space
               /\ versions[b].to = versions[i].from
    <3>1. versions[i].from \in Times /\ None \notin Times
      BY <2>2, NoneIsNoTime DEF Version
    <3> QED
      BY <2>2, <2>5, <3>1 DEF BaseIsKnown, BaseReplaced
  <2>6. ASSUME NEW i \in Ids
        PROVE  /\ versions'[i].base = versions[i].base /\ versions'[i].space = versions[i].space
               /\ versions'[i].from = versions[i].from
    BY <2>2, <2>3
  <2>7. ASSUME NEW i \in Ids, versions[i].base # None
        PROVE  LET b == versions'[i].base IN
               b \in Ids' /\ versions'[b].space = versions'[i].space /\ versions'[b].to = versions'[i].from
    <3> DEFINE b == versions[i].base
    <3>1. b \in Ids /\ b # r.seen /\ versions[b].space = versions[i].space /\ versions[b].to = versions[i].from
      BY <2>5, <2>7
    <3>2. versions'[b] = versions[b] /\ b \in Ids'
      BY <2>2, <3>1
    <3> QED
      BY <2>6, <3>1, <3>2
  <2>8. /\ versions'[n].base = r.base /\ versions'[n].space = r.space
        /\ versions'[n].from = r.at
    BY <2>2 DEF NewVersion
  <2>9. BaseIsKnown'
    BY <2>2, <2>4, <2>6, <2>7, <2>8 DEF BaseIsKnown
  <2>10. BaseReplaced'
    <3> SUFFICES ASSUME NEW i \in Ids', versions'[i].base # None
                 PROVE  LET b == versions'[versions'[i].base] IN
                        b.space = versions'[i].space /\ b.to = versions'[i].from
      BY DEF BaseReplaced
    <3>1. CASE i \in Ids
      BY <2>6, <2>7, <3>1
    <3>2. CASE i = n
      BY <2>2, <2>3, <2>4, <2>8, <3>2
    <3> QED
      BY <2>2, <3>1, <3>2
  <2> QED
    BY <2>9, <2>10
<1> QED
  BY <1>1, <1>2, RowsKept

\* The versions that began by an instant before every stamp cover it after a step if
\* they did before.
LEMMA PastRows ==
    ASSUME IInv, [ZoneNext]_zvars, NEW t \in Times,
           \A e \in Editors : editor[e].pc = "stamped" => t < editor[e].at,
           NEW i \in Ids', versions'[i].from <= t
    PROVE  i \in Ids /\ (Covers(versions'[i], t) <=> Covers(versions[i], t))
<1> USE DEF IInv
<1>1. CASE versions' = versions
  BY <1>1 DEF Ids
<1>2. CASE \E e \in Editors : Save(e) /\ Admitted(editor[e])
  <2>1. PICK e \in Editors : Save(e) /\ Admitted(editor[e])
    BY <1>2
  <2> DEFINE r == editor[e]
             n == Len(versions) + 1
  <2>2. /\ r.at \in Times /\ r.seen \in Ids /\ Ids' = Ids \cup {n}
        /\ versions'[n] = NewVersion(r)
        /\ \A j \in Ids : versions'[j] = IF j = r.seen THEN [versions[j] EXCEPT !.to = r.at]
                                          ELSE versions[j]
        /\ versions[r.seen].to = None
        /\ \A j \in Ids : versions[j] \in Version
    BY <2>1, SaveRows DEF IsOpenPrimary
  <2>3. t < r.at
    BY <2>1 DEF Save
  <2>4. i # n
    BY <2>2, <2>3 DEF NewVersion, Times
  <2>5. CASE i = r.seen
    <3>1. versions'[i].from = versions[i].from /\ versions'[i].to = r.at
      BY <2>2, <2>5 DEF Version
    <3> QED
      BY <2>2, <2>3, <2>5, <3>1 DEF Covers
  <2> QED
    BY <2>2, <2>4, <2>5
<1> QED
  BY <1>1, <1>2, RowsKept

LEMMA StepInv == IInv /\ [ZoneNext]_zvars => IInv'
BY TypeStep, SeenStep, ShapeStep, BaseStep DEF IInv

THEOREM Invariance == ZoneSpec => []IInv
BY InitInv, StepInv, PTL DEF ZoneSpec

\* ZoneVersions is type correct, for any onboarding with one primary per space
\* (models.py:126-151).
THEOREM TypeCorrect == ZoneSpec => []ZoneTypeOK
BY Invariance, PTL DEF IInv

\* A space has exactly one shape at every instant, whatever any number of editors do
\* at once (routes.py:493-503).
THEOREM OneShapeAlways == ZoneSpec => []OneShape
BY Invariance, PTL DEF IInv

\* A save that names the version it was drawn on replaces that version
\* (routes.py:459-463).
THEOREM NoEditUndone == ZoneSpec => []BaseReplaced
BY Invariance, PTL DEF IInv

\* A save changes nothing about instants before its stamp (routes.py:493-503).
THEOREM HistoryStays == ZoneSpec => PastKept
<1>1. IInv /\ [ZoneNext]_zvars =>
        [\A t \in Times : (\A e \in Editors : editor[e].pc = "stamped" => t < editor[e].at)
          => \A i \in Ids' : versions'[i].from <= t =>
                 i \in Ids /\ (Covers(versions'[i], t) <=> Covers(versions[i], t))]_zvars
  BY PastRows
<1> QED
  BY <1>1, Invariance, PTL DEF ZoneSpec, PastKept
-----------------------------------------------------------------------------
(* Every commit draws a space anew: the refinement of SpaceHistory. *)

\* The only member of a set is the one that is chosen.
LEMMA OnlyChoice ==
    ASSUME NEW P, NEW o, P = {o}
    PROVE  (CHOOSE i \in P : TRUE) = o
OBVIOUS

\* The open version of a space is the one that covers the last instant.
LEMMA OpenIsLast ==
    ZoneTypeOK => \A s \in Spaces : ShapesAt(s, MaxTime) = OpenPrimaries(s)
<1> SUFFICES ASSUME ZoneTypeOK, NEW s \in Spaces
             PROVE  ShapesAt(s, MaxTime) = OpenPrimaries(s)
  OBVIOUS
<1>1. MaxTime \in Times /\ \A t \in Times : t <= MaxTime /\ ~ (MaxTime < t)
  BY ZoneAssumption DEF Times
<1>2. \A i \in Ids : versions[i].from \in Times /\ versions[i].to \in Times \cup {None}
  <2>1. \A i \in Ids : versions[i] \in Version
    BY DEF ZoneTypeOK, Ids
  <2> QED
    BY <2>1 DEF Version
<1>3. \A i \in Ids : Covers(versions[i], MaxTime) <=> versions[i].to = None
  BY <1>1, <1>2 DEF Covers
<1> QED
  BY <1>3 DEF ShapesAt, OpenPrimaries, IsOpenPrimary

\* A save that is admitted is a Redraw of its space from its stamp on.
LEMMA SaveRedraws ==
    ASSUME IInv, IInv', NEW e \in Editors, Save(e), Admitted(editor[e])
    PROVE  editor[e].space \in Spaces /\ editor[e].at \in Times
           /\ History!Redraw(editor[e].space, editor[e].at)
<1> DEFINE r == editor[e]
           n == Len(versions) + 1
           shapes == {{i} : i \in 1 .. Len(FirstRows) + MaxVersions}
<1>1. /\ r.at \in Times /\ r.space \in Spaces /\ r.seen \in Ids /\ Ids = 1 .. Len(versions)
      /\ n \notin Ids /\ versions'[n] = NewVersion(r)
      /\ \A i \in Ids : i # r.seen => versions'[i] = versions[i]
  BY SaveRows DEF IInv, Request
<1>2. OpenPrimaries(r.space) = {r.seen} /\ versions[r.seen].from < r.at
  BY DEF Admitted
<1>3. \A s \in Spaces, t \in Times :
          ShapesAt(s, t)' = IF s = r.space /\ r.at <= t THEN {n} ELSE ShapesAt(s, t)
  BY SavedShapes
<1>4. MaxTime \in Times /\ r.at <= MaxTime
  BY <1>1, ZoneAssumption DEF Times
<1>5. \A s \in Spaces : OpenPrimaries(s)' = IF s = r.space THEN {n} ELSE OpenPrimaries(s)
  <2>1. \A s \in Spaces : ShapesAt(s, MaxTime) = OpenPrimaries(s)
    BY OpenIsLast DEF IInv
  <2>2. (\A s \in Spaces : ShapesAt(s, MaxTime) = OpenPrimaries(s))'
    <3>1. ZoneTypeOK'
      BY DEF IInv
    <3> QED
      BY <3>1, OpenIsLast, PTL
  <2> QED
    BY <1>3, <1>4, <2>1, <2>2
<1>6. Since[r.space] < r.at
  BY <1>1, <1>2, OnlyChoice DEF Since
<1>7. Since' = [Since EXCEPT ![r.space] = r.at]
  <2>0. /\ Since = [s \in Spaces |-> Since[s]]
        /\ Since' = [s \in Spaces |-> Since'[s]]
    BY DEF Since
  <2>1. ASSUME NEW s \in Spaces, s # r.space PROVE Since'[s] = Since[s]
    <3>1. PICK o \in Ids : OpenPrimaries(s) = {o}
      BY <1>4, OpenIsLast DEF IInv, OneShape
    <3>2. o # r.seen
      BY <1>2, <2>1, <3>1 DEF OpenPrimaries
    <3>3. OpenPrimaries(s)' = {o}
      BY <1>5, <2>1, <3>1
    <3>4. versions'[o] = versions[o]
      BY <1>1, <3>2
    <3>5. Since[s] = versions[o].from
      BY <3>1, OnlyChoice DEF Since
    <3>6. Since'[s] = versions'[o].from
      BY <3>3, OnlyChoice DEF Since
    <3> QED
      BY <3>4, <3>5, <3>6
  <2>2. ASSUME NEW s \in Spaces, s = r.space PROVE Since'[s] = r.at
    <3>1. OpenPrimaries(s)' = {n}
      BY <1>5, <2>2
    <3>2. versions'[n].from = r.at
      BY <1>1 DEF NewVersion
    <3>3. Since'[s] = versions'[n].from
      BY <3>1, OnlyChoice DEF Since
    <3> QED
      BY <3>2, <3>3
  <2> QED
    BY <1>1, <2>0, <2>1, <2>2
<1>8. {n} \in shapes
  <2>1. Len(versions) < MaxVersions
    BY DEF Save
  <2> QED
    BY <2>1, ZoneAssumption DEF IInv, ZoneTypeOK
<1>9. \A t \in Times : Timeline[r.space][t] # {n}
  BY <1>1 DEF Timeline, ShapesAt
<1>10. Timeline' = [Timeline EXCEPT ![r.space] = [t \in Times |-> IF t < r.at THEN @[t] ELSE {n}]]
  <2>1. \A t \in Times : t < r.at <=> ~ (r.at <= t)
    BY <1>1 DEF Times
  <2>2. ASSUME NEW s \in Spaces
        PROVE  [t \in Times |-> ShapesAt(s, t)'] =
                   IF s = r.space THEN [t \in Times |-> IF t < r.at THEN Timeline[s][t] ELSE {n}]
                   ELSE Timeline[s]
    BY <1>3, <2>1 DEF Timeline
  <2> DEFINE later == [t \in Times |-> IF t < r.at THEN Timeline[r.space][t] ELSE {n}]
  <2>3. Timeline' = [s \in Spaces |-> IF s = r.space THEN later ELSE Timeline[s]]
    BY <2>2 DEF Timeline
  <2>4. Timeline \in [Spaces -> {Timeline[s] : s \in Spaces}]
    BY DEF Timeline
  <2>5. Timeline' = [Timeline EXCEPT ![r.space] = later]
    <3> HIDE DEF later
    <3> QED
      BY <1>1, <2>3, <2>4
  <2> QED
    BY <2>5
<1> QED
  BY <1>1, <1>6, <1>7, <1>8, <1>9, <1>10 DEF History!Redraw

\* What editors do to the zones of a site is a history that grows at its end: however
\* many saves interleave, fail or overtake one another, each commit draws one space
\* anew from its stamp on, and no other step is seen (routes.py:434-515).
THEOREM ZonesImplementHistory == ZoneSpec => ImplementsHistory /\ History!HistorySpec
<1>1. ZoneInit => History!HistoryInit
  <2> SUFFICES ASSUME ZoneInit PROVE History!HistoryInit
    OBVIOUS
  <2> DEFINE shapes == {{i} : i \in 1 .. Len(FirstRows) + MaxVersions}
             first == [s \in Spaces |-> ShapesAt(s, 0)]
  <2>1. IInv /\ Ids = 1 .. Len(FirstRows) /\ 0 \in Times
    BY InitInv, ZoneAssumption DEF ZoneInit, Ids, Times
  <2>2. \A i \in Ids : versions[i].from = 0 /\ versions[i].to = None
    BY ZoneAssumption DEF ZoneInit, Ids
  <2>3. \A s \in Spaces, t \in Times : ShapesAt(s, t) = ShapesAt(s, 0)
    BY <2>1, <2>2 DEF ShapesAt, Covers, Times
  <2>4. first \in [Spaces -> shapes]
    <3> SUFFICES ASSUME NEW s \in Spaces PROVE ShapesAt(s, 0) \in shapes
      OBVIOUS
    <3>1. PICK i \in Ids : ShapesAt(s, 0) = {i}
      BY <2>1 DEF IInv, OneShape
    <3>2. i \in 1 .. Len(FirstRows) + MaxVersions
      BY <2>1, ZoneAssumption
    <3> QED
      BY <3>1, <3>2
  <2>5. Timeline = [s \in Spaces |-> [t \in Times |-> first[s]]]
    BY <2>3 DEF Timeline
  <2>6. Since = [s \in Spaces |-> 0]
    <3>1. \A s \in Spaces : \E i \in Ids : OpenPrimaries(s) = {i}
      <4>1. MaxTime \in Times
        BY ZoneAssumption DEF Times
      <4> QED
        BY <2>1, <4>1, OpenIsLast DEF IInv, OneShape
    <3>2. \A s \in Spaces : Since[s] = 0
      <4> SUFFICES ASSUME NEW s \in Spaces PROVE Since[s] = 0
        OBVIOUS
      <4>1. PICK i \in Ids : OpenPrimaries(s) = {i}
        BY <3>1
      <4>2. Since[s] = versions[i].from
        BY <4>1, OnlyChoice DEF Since
      <4> QED
        BY <2>2, <4>2
    <3> QED
      BY <3>2 DEF Since
  <2> QED
    BY <2>4, <2>5, <2>6 DEF History!HistoryInit
<1>2. IInv /\ IInv' /\ [ZoneNext]_zvars =>
          /\ [versions' # versions => History!HistoryNext]_versions
          /\ [History!HistoryNext]_(History!historyVars)
  <2> SUFFICES ASSUME IInv, IInv', [ZoneNext]_zvars
               PROVE  \/ History!HistoryNext
                      \/ versions' = versions /\ UNCHANGED History!historyVars
    OBVIOUS
  <2>1. CASE \E e \in Editors : Save(e) /\ Admitted(editor[e])
    BY <2>1, SaveRedraws DEF History!HistoryNext
  <2>2. CASE ~ \E e \in Editors : Save(e) /\ Admitted(editor[e])
    <3>1. versions' = versions
      BY <2>2, RowsKept
    <3>2. Timeline' = Timeline
      BY <3>1 DEF Timeline, ShapesAt, Ids
    <3>3. Since' = Since
      BY <3>1 DEF Since, OpenPrimaries, IsOpenPrimary, Ids
    <3> QED
      BY <3>1, <3>2, <3>3 DEF History!historyVars
  <2> QED
    BY <2>1, <2>2
<1> QED
  BY <1>1, <1>2, Invariance, PTL DEF ZoneSpec, ImplementsHistory, History!HistorySpec
-----------------------------------------------------------------------------
(* What has been met and overlaps has been confirmed. *)

\* A check meets zones there are; what it has met and could overlap stays away, or has
\* been acknowledged, until the save commits.
CheckStands ==
    \A e \in Editors : editor[e].pc \in {"cleared", "stamped"} =>
        /\ editor[e].met \subseteq Ids
        /\ editor[e].ack \/ Unconfirmed(editor[e].space, editor[e].polygon) \cap editor[e].met = {}

\* Rows have met rows that were there before them.
MetAreKnown == \A i \in Ids : versions[i].met \subseteq Ids

OInv == CheckStands /\ MetAreKnown /\ OverlapConfirmed

\* The steps that save nothing.
LEMMA CheckStep ==
    ASSUME IInv, CheckStands, versions' = versions, NEW e \in Editors, Saving(e)
    PROVE  CheckStands'
<1> DEFINE Stands(r) == /\ r.met \subseteq Ids
                        /\ r.ack \/ Unconfirmed(r.space, r.polygon) \cap r.met = {}
<1>0. e \in DOMAIN editor
  BY DEF IInv, ZoneTypeOK
<1> SUFFICES editor'[e].pc \in {"cleared", "stamped"} => Stands(editor'[e])
  <2>1. ASSUME NEW f \in Editors \ {e} PROVE editor'[f] = editor[f]
    BY <1>0 DEF Saving, Draw, Read, CheckOverlap, Stamp, Save, Leave, Answer, IInv, ZoneTypeOK
  <2>2. \A s, p : Unconfirmed(s, p)' = Unconfirmed(s, p)
    BY DEF Unconfirmed, Neighbours, Ids, IsOpenPrimary
  <2>3. Ids' = Ids
    BY DEF Ids
  <2> QED  BY <2>1, <2>2, <2>3 DEF CheckStands
<1>1. ASSUME NEW s \in Spaces, NEW p \in Polygons, NEW ack \in Acks, Draw(e, s, p, ack)
      PROVE  editor'[e].pc = "sent"
  BY <1>0, <1>1 DEF Draw
<1>2. CASE Read(e)
  BY <1>0, <1>2, RequestFields DEF Read, Answer, IInv, Request
<1>3. CASE CheckOverlap(e)
  <2> DEFINE r == editor[e]
  <2>1. r \in Request
    BY <1>3, RequestFields DEF CheckOverlap, IInv
  <2>2. \/ /\ r.ack \/ Unconfirmed(r.space, r.polygon) = {}
           /\ editor' = [editor EXCEPT ![e].pc = "cleared", ![e].met = Neighbours(r.space)]
        \/ editor' = [editor EXCEPT ![e] = [pc |-> "overlap"]]
    BY <1>3 DEF CheckOverlap, Answer
  <2>3. CASE editor' = [editor EXCEPT ![e] = [pc |-> "overlap"]]
    BY <1>0, <2>3
  <2>4. CASE /\ r.ack \/ Unconfirmed(r.space, r.polygon) = {}
             /\ editor' = [editor EXCEPT ![e].pc = "cleared", ![e].met = Neighbours(r.space)]
    <3>1. editor'[e] = [[r EXCEPT !.pc = "cleared"] EXCEPT !.met = Neighbours(r.space)]
      BY <1>0, <2>4
    <3>2. /\ editor'[e].ack = r.ack /\ editor'[e].space = r.space
          /\ editor'[e].polygon = r.polygon /\ editor'[e].met = Neighbours(r.space)
      BY <2>1, <3>1 DEF Request
    <3>3. Neighbours(r.space) \subseteq Ids
      BY DEF Neighbours
    <3> QED  BY <2>4, <3>2, <3>3
  <2> QED  BY <2>2, <2>3, <2>4
<1>4. CASE Stamp(e)
  <2>1. editor[e] \in Request /\ editor[e].pc = "cleared"
    BY <1>4, RequestFields DEF Stamp, IInv
  <2>2. editor'[e].ack = editor[e].ack /\ editor'[e].space = editor[e].space
        /\ editor'[e].polygon = editor[e].polygon /\ editor'[e].met = editor[e].met
    BY <1>0, <1>4, <2>1 DEF Stamp, Request
  <2> QED  BY <2>1, <2>2 DEF CheckStands
<1>5. CASE Save(e)
  BY <1>0, <1>5 DEF Save, Answer, Idle
<1>6. CASE Leave(e)
  BY <1>0, <1>6 DEF Leave, Idle
<1> QED
  BY <1>1, <1>2, <1>3, <1>4, <1>5, <1>6 DEF Saving

\* A save that is admitted: nobody has met the new row, and it has acknowledged what it
\* has met.
LEMMA SavedIsConfirmed ==
    ASSUME IInv, OInv, NEW e \in Editors, Save(e), Admitted(editor[e])
    PROVE  OInv'
<1> USE DEF OInv
<1> DEFINE r == editor[e]
           n == Len(versions) + 1
<1>1. /\ r \in Request /\ r.seen \in Ids /\ Ids = 1 .. Len(versions)
      /\ Ids' = Ids \cup {n} /\ n \notin Ids
      /\ versions'[n] = NewVersion(r)
      /\ \A i \in Ids : versions'[i] = IF i = r.seen THEN [versions[i] EXCEPT !.to = r.at]
                                        ELSE versions[i]
      /\ versions[r.seen].space = r.space /\ \A i \in Ids : versions[i] \in Version
      /\ r.at \in Times /\ editor' = [editor EXCEPT ![e] = Idle]
  BY SaveRows DEF IInv
<1>2. r.met \subseteq Ids /\ (r.ack \/ Unconfirmed(r.space, r.polygon) \cap r.met = {})
  BY DEF Save, CheckStands
<1>3. /\ versions'[n].space = r.space /\ versions'[n].polygon = r.polygon
      /\ versions'[n].ack = r.ack /\ versions'[n].met = r.met
  BY <1>1 DEF NewVersion
<1>4. editor'[e] = Idle /\ \A f \in Editors \ {e} : editor'[f] = editor[f]
  BY <1>1 DEF IInv, ZoneTypeOK
<1>5. ASSUME NEW i \in Ids
      PROVE  /\ versions'[i].space = versions[i].space /\ versions'[i].polygon = versions[i].polygon
             /\ versions'[i].primary = versions[i].primary
             /\ versions'[i].ack = versions[i].ack /\ versions'[i].met = versions[i].met
             /\ versions'[i].to = None => versions[i].to = None
  <2>1. versions[i] \in Version
    BY <1>1
  <2>2. CASE i = r.seen
    <3>1. versions'[i] = [versions[i] EXCEPT !.to = r.at]
      BY <1>1, <2>2
    <3>2. r.at # None
      BY <1>1, NoneIsNoTime
    <3> QED  BY <2>1, <3>1, <3>2 DEF Version
  <2>3. CASE i # r.seen
    BY <1>1, <2>3
  <2> QED  BY <2>2, <2>3
<1> HIDE DEF r, n
<1>6. \A i \in Ids : IsOpenPrimary(i)' => IsOpenPrimary(i)
  BY <1>5 DEF IsOpenPrimary
<1>7. CheckStands'
  <2> SUFFICES ASSUME NEW f \in Editors, editor'[f].pc \in {"cleared", "stamped"}
               PROVE  /\ editor'[f].met \subseteq Ids'
                      /\ \/ editor'[f].ack
                         \/ (Unconfirmed(editor[f].space, editor[f].polygon))' \cap editor'[f].met = {}
    BY DEF CheckStands
  <2>1. f # e
    BY <1>4 DEF Idle
  <2>2. editor'[f] = editor[f]
    BY <1>4, <2>1
  <2>3. /\ editor[f].met \subseteq Ids
        /\ editor[f].ack \/ Unconfirmed(editor[f].space, editor[f].polygon) \cap editor[f].met = {}
    BY <2>2 DEF CheckStands
  <2>4. ASSUME NEW i \in (Unconfirmed(editor[f].space, editor[f].polygon))', i \in editor[f].met
        PROVE  i \in Unconfirmed(editor[f].space, editor[f].polygon)
    <3>1. i \in Ids
      BY <2>3, <2>4
    <3> QED  BY <1>5, <1>6, <2>2, <2>4, <3>1 DEF Unconfirmed, Neighbours
  <2> QED  BY <1>1, <2>2, <2>3, <2>4
<1>8. MetAreKnown'
  BY <1>1, <1>2, <1>3, <1>5 DEF MetAreKnown
<1>9. OverlapConfirmed'
  <2> SUFFICES ASSUME NEW i \in Ids', NEW j \in Ids', Overlapping(i, j)', i \in versions'[j].met
               PROVE  versions'[j].ack
    BY DEF OverlapConfirmed
  <2>1. CASE j \in Ids
    <3>1. i \in Ids /\ i \in versions[j].met
      BY <1>5, <2>1 DEF MetAreKnown
    <3>2. Overlapping(i, j)
      BY <1>5, <1>6, <2>1, <3>1 DEF Overlapping
    <3>3. versions[j].ack
      BY <2>1, <3>1, <3>2 DEF OverlapConfirmed
    <3> QED  BY <1>5, <2>1, <3>3
  <2>2. CASE j = n
    <3>1. i \in r.met /\ i \in Ids /\ IsOpenPrimary(i)
      BY <1>2, <1>3, <1>6, <2>2 DEF Overlapping
    <3>2. r.space \in Spaces /\ r.polygon \in Polygons
          /\ versions[i].space \in Spaces /\ versions[i].polygon \in Polygons
      BY <1>1, <3>1 DEF Request, Version
    <3>3. /\ versions[i].space # r.space /\ CameraOf[versions[i].space] = CameraOf[r.space]
          /\ ~ Related(r.space, versions[i].space) /\ Overlap(r.polygon, versions[i].polygon)
      BY <1>3, <1>5, <2>2, <3>1, <3>2, ZoneAssumption DEF Overlapping
    <3>4. i \in Unconfirmed(r.space, r.polygon)
      BY <3>1, <3>3 DEF Unconfirmed, Neighbours
    <3> QED  BY <1>2, <1>3, <2>2, <3>1, <3>4
  <2> QED  BY <1>1, <2>1, <2>2
<1> QED  BY <1>7, <1>8, <1>9

\* However many editors save at once: where two open zones overlap that ought not to,
\* whoever saved the later one has acknowledged it, or its check and the earlier's have
\* not met each other's save (validation.py:48-85, routes.py:465-491).
THEOREM OverlapsAreConfirmed == ZoneSpec => []OverlapConfirmed
<1>1. ZoneInit => OInv
  <2> SUFFICES ASSUME ZoneInit PROVE OInv
    OBVIOUS
  <2>1. \A i \in Ids : versions[i].met = {}
    BY ZoneAssumption DEF ZoneInit, Ids
  <2> QED
    BY <2>1 DEF ZoneInit, OInv, CheckStands, MetAreKnown, OverlapConfirmed, Idle
<1>2. IInv /\ OInv /\ [ZoneNext]_zvars => OInv'
  <2> SUFFICES ASSUME IInv, OInv, [ZoneNext]_zvars PROVE OInv'
    OBVIOUS
  <2>1. versions' = versions => MetAreKnown' /\ OverlapConfirmed'
    BY DEF OInv, MetAreKnown, OverlapConfirmed, Overlapping, IsOpenPrimary, Ids
  <2>2. CASE UNCHANGED <<versions, editor>>
    BY <2>1, <2>2 DEF OInv, CheckStands, Unconfirmed, Neighbours, IsOpenPrimary, Ids
  <2>3. ASSUME NEW e \in Editors, Saving(e) PROVE OInv'
    <3>1. CASE versions' = versions
      BY <2>1, <2>3, <3>1, CheckStep DEF OInv
    <3>2. CASE Save(e) /\ Admitted(editor[e])
      BY <3>2, SavedIsConfirmed
    <3> QED
      BY <2>3, <3>1, <3>2 DEF Saving, Draw, Read, CheckOverlap, Stamp, Save, Leave
  <2> QED
    BY <2>2, <2>3 DEF ZoneNext, Tick, zvars
<1>3. OInv => OverlapConfirmed
  BY DEF OInv
<1> QED
  BY <1>1, <1>2, <1>3, Invariance, PTL DEF ZoneSpec
-----------------------------------------------------------------------------
(***************************************************************************)
(* Proofs about BucketAttribution, for any number of editors, spaces and   *)
(* buckets, on the invariant above.                                        *)
(*                                                                         *)
(* That reports stay has two halves: a save changes no version at instants *)
(* before its stamp (PastRows), so the versions that may speak for a       *)
(* bucket stay; and rows only come, so of the one primary that may speak   *)
(* (OneShape) what has been heard stays heard.  The failovers have no such *)
(* uniqueness, and for them it is assumed (OneStandIn).                    *)
(***************************************************************************)
\* Onboarding leaves a space at most one failover version, as the seed does
\* (seed.py:120-165).
OneStandIn ==
    \A i, j \in DOMAIN FirstRows :
        /\ ~ FirstRows[i].primary /\ ~ FirstRows[j].primary
        /\ FirstRows[i].space = FirstRows[j].space
        => i = j

\* It stays so: saves make primaries.
FewStandIns ==
    \A i, j \in Ids :
        /\ ~ versions[i].primary /\ ~ versions[j].primary
        /\ versions[i].space = versions[j].space
        => i = j

RowsTypeOK ==
    /\ counting \subseteq Ids
    /\ buffered \subseteq Ids \X Buckets /\ observations \subseteq Ids \X Buckets

AInv == IInv /\ RowsTypeOK

\* The bucket an instant lies in begins by then.
LEMMA BucketOf ==
    ASSUME NEW t \in Times
    PROVE  t \div BucketLen \in Buckets
<1> DEFINE b == t \div BucketLen
<1>1. /\ t \in Nat /\ t <= MaxTime /\ MaxTime \in Nat
      /\ BucketLen \in Nat /\ BucketLen >= 1
  BY ZoneAssumption, BucketAssumption DEF Times
<1>2. b \in Nat /\ b * BucketLen <= t /\ b <= t
  BY <1>1, Z3
<1>3. b * BucketLen \in Nat
  BY <1>1, <1>2
<1> QED
  BY <1>1, <1>2, <1>3 DEF Buckets, Times

\* A step of the zones is one of ZoneVersions, and the others leave the zones alone.
LEMMA ZoneStep == [Next]_vars => [ZoneNext]_zvars
BY DEF Next, vars, zvars, Count, Reload, Upload

\* No version goes, and what it is a version of stays.
LEMMA VersionsStay ==
    ASSUME IInv, [ZoneNext]_zvars
    PROVE  /\ Ids \subseteq Ids'
           /\ \A i \in Ids : /\ versions'[i].space = versions[i].space
                             /\ versions'[i].primary = versions[i].primary
                             /\ versions'[i].from = versions[i].from
           /\ \A i \in Ids' \ Ids : versions'[i].primary
<1> USE DEF IInv
<1>1. CASE versions' = versions
  BY <1>1 DEF Ids
<1>2. CASE \E e \in Editors : Save(e) /\ Admitted(editor[e])
  <2>1. PICK e \in Editors : Save(e) /\ Admitted(editor[e])
    BY <1>2
  <2> DEFINE r == editor[e]
             n == Len(versions) + 1
  <2>2. /\ Ids' = Ids \cup {n}
        /\ versions'[n] = NewVersion(r)
        /\ \A j \in Ids : versions'[j] = IF j = r.seen THEN [versions[j] EXCEPT !.to = r.at]
                                          ELSE versions[j]
        /\ \A j \in Ids : versions[j] \in Version
    BY <2>1, SaveRows
  <2>3. ASSUME NEW i \in Ids
        PROVE  /\ versions'[i].space = versions[i].space
               /\ versions'[i].primary = versions[i].primary
               /\ versions'[i].from = versions[i].from
    BY <2>2 DEF Version
  <2>4. versions'[n].primary
    BY <2>2 DEF NewVersion
  <2> QED
    BY <2>2, <2>3, <2>4
<1> QED
  BY <1>1, <1>2, RowsKept

LEMMA RowsInit == Init => AInv
<1> SUFFICES ASSUME Init PROVE AInv
  OBVIOUS
<1>1. IInv
  BY InitInv DEF Init
<1>2. RowsTypeOK
  BY DEF Init, RowsTypeOK
<1> QED
  BY <1>1, <1>2 DEF AInv

LEMMA RowsStep == AInv /\ [Next]_vars => AInv'
<1> SUFFICES ASSUME AInv, [Next]_vars PROVE AInv'
  OBVIOUS
<1>1. [ZoneNext]_zvars /\ IInv /\ IInv'
  BY ZoneStep, StepInv DEF AInv
<1>2. Ids \subseteq Ids'
  BY <1>1, VersionsStay
<1>3. RowsTypeOK
  BY DEF AInv
<1>4. RowsTypeOK'
  <2> USE DEF RowsTypeOK, Buckets, Times
  <2>1. CASE UNCHANGED <<counting, buffered, observations>>
    BY <1>2, <1>3, <2>1
  <2>2. ASSUME NEW i \in Ids, Count(i) PROVE RowsTypeOK'
    <3>1. now \div BucketLen \in Buckets
      BY <1>1, BucketOf DEF IInv, ZoneTypeOK
    <3> QED
      BY <1>2, <1>3, <2>2, <3>1 DEF Count
  <2>3. CASE Reload
    BY <1>2, <1>3, <2>3 DEF Reload, Ids, zvars
  <2>4. ASSUME NEW row \in buffered, Upload(row) PROVE RowsTypeOK'
    BY <1>2, <1>3, <2>4 DEF Upload
  <2> QED
    BY <2>1, <2>2, <2>3, <2>4 DEF Next, vars
<1> QED
  BY <1>1, <1>4 DEF AInv

\* Attribution takes nothing from the zones: with the box and its rows beside them they
\* behave as ZoneVersions says, and what is proved of it holds here.
THEOREM ZonesBehave == Spec => ZoneSpec
<1>1. Init => ZoneInit
  BY DEF Init
<1> QED
  BY <1>1, ZoneStep, PTL DEF Spec, ZoneSpec

THEOREM RowsInvariance == Spec => []AInv
BY RowsInit, RowsStep, PTL DEF Spec

\* Zones, site file, buffered and accepted rows keep their types: a row is one of a
\* version the cloud has, and of a bucket of the calendar (models.py:195-230).
THEOREM RowsTypeCorrect == Spec => []TypeOK
<1>1. AInv => TypeOK
  BY DEF AInv, IInv, RowsTypeOK, TypeOK
<1> QED
  BY <1>1, RowsInvariance, PTL

LEMMA StandInsStayFew == AInv /\ FewStandIns /\ [Next]_vars => FewStandIns'
<1> SUFFICES ASSUME AInv, FewStandIns, [Next]_vars PROVE FewStandIns'
  OBVIOUS
<1>1. /\ Ids \subseteq Ids'
      /\ \A i \in Ids : /\ versions'[i].space = versions[i].space
                        /\ versions'[i].primary = versions[i].primary
      /\ \A i \in Ids' \ Ids : versions'[i].primary
  BY ZoneStep, VersionsStay DEF AInv
<1> QED
  BY <1>1 DEF FewStandIns

\* What may speak for a bucket that began before every stamp is the same after a step.
LEMMA SpeakersStay ==
    ASSUME AInv, [Next]_vars, NEW s \in Spaces, NEW t \in Times,
           \A e \in Editors : editor[e].pc = "stamped" => t < editor[e].at
    PROVE  Effective(s, t)' = Effective(s, t) /\ StandIns(s, t)' = StandIns(s, t)
<1>1. IInv /\ IInv' /\ [ZoneNext]_zvars
  BY RowsStep, ZoneStep DEF AInv
<1>2. /\ Ids \subseteq Ids'
      /\ \A i \in Ids : /\ versions'[i].space = versions[i].space
                        /\ versions'[i].primary = versions[i].primary
                        /\ versions'[i].from = versions[i].from
  BY <1>1, VersionsStay
<1>3. \A i \in Ids' : versions'[i].from <= t =>
            i \in Ids /\ (Covers(versions'[i], t) <=> Covers(versions[i], t))
  BY <1>1, PastRows
<1>4. \A i \in Ids : Covers(versions'[i], t) <=> Covers(versions[i], t)
  BY <1>2, <1>3 DEF Covers
<1>5. \A i \in Ids' \ Ids : ~ Covers(versions'[i], t)
  BY <1>3 DEF Covers
<1> QED
  BY <1>2, <1>4, <1>5 DEF Effective, StandIns, Primaries, Secondaries

\* One step and one bucket of ReportsKept.
LEMMA ReportStays ==
    ASSUME AInv, FewStandIns, [Next]_vars, NEW s \in Spaces, NEW b \in Buckets,
           Resolve(s, b) # Nobody,
           \A e \in Editors : editor[e].pc = "stamped" => Start(b) < editor[e].at
    PROVE  Resolve(s, b)' = Resolve(s, b) \/ /\ Resolve(s, b).quality = "degraded"
                                             /\ Resolve(s, b)'.quality = "ok"
                                             /\ Resolve(s, b)' # Nobody
<1> DEFINE t == Start(b)
           E == Effective(s, t)
           F == StandIns(s, t)
<1>1. t \in Times
  BY DEF Buckets, Start
<1>2. Effective(s, Start(b))' = E /\ StandIns(s, Start(b))' = F
  BY <1>1, SpeakersStay DEF Start
<1>3. observations \subseteq observations'
  BY DEF Next, vars, Count, Reload, Upload
<1>4. PICK o \in Ids : E = {o}
  <2>1. PICK o \in Ids : ShapesAt(s, t) = {o}
    BY <1>1 DEF AInv, IInv, OneShape
  <2> QED
    BY <2>1 DEF ShapesAt, Effective, Primaries
<1>5. Resolve(s, b) = Decide({i \in E : <<i, b>> \in observations},
                             {i \in F : <<i, b>> \in observations})
  BY DEF Resolve, Heard
<1>6. Resolve(s, b)' = Decide({i \in E : <<i, b>> \in observations'},
                              {i \in F : <<i, b>> \in observations'})
  BY <1>2 DEF Resolve, Heard, Start
<1>7. CASE <<o, b>> \in observations
  <2>1. /\ {i \in E : <<i, b>> \in observations} = {o}
        /\ {i \in E : <<i, b>> \in observations'} = {o}
    BY <1>3, <1>4, <1>7
  <2> QED
    BY <1>5, <1>6, <2>1, OnlyChoice DEF Decide
<1>8. CASE <<o, b>> \notin observations
  <2>1. {i \in E : <<i, b>> \in observations} = {}
    BY <1>4, <1>8
  <2>2. PICK x \in F : <<x, b>> \in observations
    BY <1>5, <2>1 DEF Decide
  <2>3. \A i \in F : i = x
    BY DEF StandIns, Secondaries, FewStandIns
  <2>4. /\ {i \in F : <<i, b>> \in observations} = {x}
        /\ {i \in F : <<i, b>> \in observations'} = {x}
    BY <1>3, <2>2, <2>3
  <2>5. Resolve(s, b) = [version |-> x, quality |-> "degraded"]
    BY <1>5, <2>1, <2>4, OnlyChoice DEF Decide
  <2>6. CASE <<o, b>> \in observations'
    <3>1. {i \in E : <<i, b>> \in observations'} = {o}
      BY <1>4, <2>6
    <3>2. Resolve(s, b)' = [version |-> o, quality |-> "ok"]
      BY <1>6, <3>1, OnlyChoice DEF Decide
    <3>3. o # None
      BY ZoneAssumption DEF AInv, IInv, ZoneTypeOK, Ids
    <3> QED
      BY <2>5, <3>2, <3>3 DEF Nobody
  <2>7. CASE <<o, b>> \notin observations'
    <3>1. {i \in E : <<i, b>> \in observations'} = {}
      BY <1>4, <2>7
    <3> QED
      BY <1>6, <2>4, <2>5, <3>1, OnlyChoice DEF Decide
  <2> QED
    BY <2>6, <2>7
<1> QED
  BY <1>7, <1>8

\* With at most one failover version for a space, what a report has said of a bucket
\* stays, however many editors reshape the zones and whatever rows arrive; a stand-in
\* may give way to the primary (attribution.py:131-159, routes.py:493-503).
THEOREM ReportsStay == OneStandIn => (Spec => ReportsKept)
<1> SUFFICES ASSUME OneStandIn PROVE Spec => ReportsKept
  OBVIOUS
<1>1. Init => FewStandIns
  BY DEF Init, ZoneInit, FewStandIns, OneStandIn, Ids
<1>2. AInv /\ FewStandIns /\ [Next]_vars =>
        [\A s \in Spaces, b \in {row[2] : row \in observations} :
            /\ Resolve(s, b) # Nobody
            /\ \A e \in Editors : editor[e].pc = "stamped" => Start(b) < editor[e].at
            => Resolve(s, b)' = Resolve(s, b) \/ /\ Resolve(s, b).quality = "degraded"
                                                 /\ Resolve(s, b)'.quality = "ok"
                                                 /\ Resolve(s, b)' # Nobody]_vars
  <2>1. AInv => \A row \in observations : row[2] \in Buckets
    BY DEF AInv, RowsTypeOK
  <2> QED
    BY <2>1, ReportStays
<1> QED
  BY <1>1, <1>2, StandInsStayFew, RowsInvariance, PTL DEF Spec, ReportsKept
=============================================================================
