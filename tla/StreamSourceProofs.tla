------------------------- MODULE StreamSourceProofs -------------------------
(***************************************************************************)
(* Proofs about StreamSource for any workers, any length of the shard, any *)
(* batch size and any number of expired iterators and broken passes.       *)
(***************************************************************************)
EXTENDS StreamSource, TLAPS

-----------------------------------------------------------------------------
(* The inductive invariant *)

\* What get_records may pass over between the position it was asked for and the
\* records it returns: what was trimmed, or lay behind the tip.
OutOfReach == 1..trimmed \cup 1..tip

\* A pass has a worker, and the tip was inside the shard.
PassHasReader == (pc # "off" => reader \in Workers) /\ tip <= written

\* The iterator of a pass, and the batch read with it, continue from the position
\* of the pass.  An empty batch is filed under that position, so it is not enough
\* that what lies below the iterator is excused.
IteratorContinues ==
  /\ pc \in {"read", "retry"} => Below(iter.at) \subseteq Below(after) \cup OutOfReach
  /\ pc = "deliver" => Below(lo) \subseteq Below(after) \cup OutOfReach

\* The durable checkpoint and the position of the pass have nothing unexcused below.
PositionsExcused ==
  /\ Below(checkpoint) \subseteq Excused
  /\ pc # "off" => Below(after) \subseteq Excused

\* A batch that ends the shard leaves nothing behind it, and so does a complete shard.
EndReached ==
  /\ pc = "deliver" /\ end =>
       closed /\ Below(written) \subseteq Below(after) \cup OutOfReach \cup Below(hi)
  /\ completed => closed /\ Below(written) \subseteq Excused

Inv ==
  /\ TypeOK /\ PassHasReader /\ IteratorContinues /\ PositionsExcused /\ EndReached
  /\ CursorsContinue

USE SourceAssumption DEF SourceAssumption

\* The fields of a cursor and of an iterator.
LEMMA CursorFields ==
  ASSUME TypeOK
  PROVE  /\ iter.at \in 0..LastSeq /\ iter.good \in BOOLEAN
         /\ \A w \in Workers : /\ cursor[w].on \in BOOLEAN /\ cursor[w].after \in Pos
                               /\ cursor[w].iter \in Iterator
                               /\ cursor[w].iter.at \in 0..LastSeq
BY DEF TypeOK, Iterator

LEMMA NoCursorType == NoCursor \in [on : BOOLEAN, after : Pos, iter : Iterator] /\ ~NoCursor.on
BY DEF NoCursor, NoIter, Iterator, Pos, None, Latest

\* Everything the invariant excuses stays excused when more is delivered or trimmed
\* or a later tip is taken.
LEMMA ExcusedGrows ==
  ASSUME TypeOK, TypeOK', trimmed <= trimmed', tip <= tip'
  PROVE  /\ OutOfReach \subseteq OutOfReach'
         /\ delivered \subseteq delivered' => Excused \subseteq Excused'
BY DEF TypeOK, OutOfReach, Excused

\* Steps that leave the pass alone or end it, and drop cursors or make them no better.
LEMMA FrameKeeps ==
  ASSUME Inv, TypeOK', PassHasReader', trimmed <= trimmed',
         delivered \subseteq delivered', tip' = tip,
         checkpoint' = checkpoint, completed' = completed,
         closed => closed' /\ written' = written,
         \/ UNCHANGED <<pc, after, iter, lo, hi, end>>
         \/ pc' = "off",
         \A w \in Workers : cursor'[w].on =>
            cursor[w].on /\ cursor'[w].after = cursor[w].after
                         /\ cursor'[w].iter.at = cursor[w].iter.at
  PROVE  Inv'
<1>1. OutOfReach \subseteq OutOfReach' /\ Excused \subseteq Excused'
  BY ExcusedGrows DEF Inv, TypeOK
<1>2. IteratorContinues' /\ PositionsExcused'
  BY <1>1 DEF Inv, IteratorContinues, PositionsExcused, Below
<1>3. EndReached'
  BY <1>1 DEF Inv, EndReached
<1>4. CursorsContinue'
  BY <1>1 DEF Inv, CursorsContinue, Below, OutOfReach
<1> QED
  BY <1>2, <1>3, <1>4 DEF Inv

-----------------------------------------------------------------------------
(* The service, and what ends a pass *)

LEMMA ServiceKeeps ==
  ASSUME Inv, Append \/ CloseShard \/ Trim \/ (\E w \in Workers : ExpireCached(w))
  PROVE  Inv'
<1>1. CASE Append \/ CloseShard \/ Trim
  <2>a. /\ UNCHANGED <<lease, cursor, pass, iter, batch, history, budget>>
        /\ written' \in 0..LastSeq /\ trimmed' \in 0..written' /\ closed' \in BOOLEAN
        /\ trimmed <= trimmed' /\ written <= written' /\ named' = named
        /\ closed => closed' /\ written' = written
    <3>1. CASE Append
      BY <3>1 DEF Inv, TypeOK, Append
    <3>2. CASE CloseShard
      BY <3>2 DEF Inv, TypeOK, CloseShard
    <3>3. CASE Trim
      BY <3>3 DEF Inv, TypeOK, Trim
    <3> QED
      BY <1>1, <3>1, <3>2, <3>3
  <2>b. TypeOK'
    BY <2>a DEF Inv, TypeOK, lease, pass, batch, history, budget
  <2>c. tip' <= written'
    BY <2>a, <2>b DEF Inv, TypeOK, PassHasReader, history
  <2>1. TypeOK' /\ PassHasReader' /\ trimmed <= trimmed'
    BY <2>a, <2>b, <2>c DEF Inv, PassHasReader, pass
  <2> QED
    BY <1>1, <2>1, FrameKeeps DEF Append, CloseShard, Trim, lease, pass, batch, history
<1>2. ASSUME NEW w \in Workers, ExpireCached(w) PROVE Inv'
  <2>1. cursor'[w] = [cursor[w] EXCEPT !.iter.good = FALSE]
        /\ \A w1 \in Workers : w1 # w => cursor'[w1] = cursor[w1]
    BY <1>2 DEF Inv, TypeOK, ExpireCached
  <2>2. /\ cursor'[w].on = cursor[w].on /\ cursor'[w].after = cursor[w].after
        /\ cursor'[w].iter.at = cursor[w].iter.at
        /\ cursor'[w] \in [on : BOOLEAN, after : Pos, iter : Iterator]
    BY <2>1 DEF Inv, TypeOK, Iterator
  <2>3. cursor' \in [Workers -> [on : BOOLEAN, after : Pos, iter : Iterator]]
    BY <1>2, <2>1, <2>2 DEF Inv, TypeOK, ExpireCached
  <2>4. TypeOK' /\ PassHasReader'
    BY <1>2, <2>3 DEF Inv, TypeOK, PassHasReader, ExpireCached,
                      stream, lease, pass, batch, history
  <2> QED
    BY <1>2, <2>1, <2>2, <2>4, FrameKeeps
       DEF ExpireCached, stream, lease, pass, batch, history, Inv, TypeOK
<1> QED
  BY <1>1, <1>2

\* A pass that is over holds nothing.
LEMMA OverType ==
  ASSUME TypeOK, Over
  PROVE  /\ pc' = "off" /\ reader' = Nobody /\ after' \in Pos /\ iter' \in Iterator
         /\ lo' \in 0..LastSeq /\ hi' \in lo'..LastSeq /\ end' \in BOOLEAN
<1>1. NoIter \in Iterator
  BY DEF NoIter, Iterator
<1>2. 0 \in Pos /\ 0 \in 0..LastSeq /\ 0 \in 0..0
  BY DEF Pos, Latest
<1> QED
  BY <1>1, <1>2 DEF Over, NoBatch, None

\* A step that ends the pass or leaves it alone, delivers its batch or does not, and
\* keeps or drops cursors.
LEMMA BreakFrame ==
  ASSUME Inv, cursor' \in [Workers -> [on : BOOLEAN, after : Pos, iter : Iterator]],
         \A w \in Workers : cursor'[w] \in {cursor[w], NoCursor},
         UNCHANGED <<stream, lease, tip, expiries>>, breaks' \in 0..MaxBreaks,
         delivered' = delivered \/ delivered' = delivered \cup (lo + 1)..hi,
         Over \/ UNCHANGED <<pass, iter, batch>>
  PROVE  Inv'
<1>1. (lo + 1)..hi \subseteq 1..LastSeq
  BY DEF Inv, TypeOK
<1>2. /\ pc' \in {"off", pc} /\ reader' \in {Nobody, reader} /\ after' \in Pos /\ iter' \in Iterator
      /\ lo' \in 0..LastSeq /\ hi' \in lo'..LastSeq /\ end' \in BOOLEAN
      /\ pc' # "off" => reader' = reader /\ pc' = pc
      /\ UNCHANGED <<pc, after, iter, lo, hi, end>> \/ pc' = "off"
  BY OverType DEF Inv, TypeOK, Over, pass, batch
<1>3. TypeOK'
  BY <1>1, <1>2 DEF Inv, TypeOK, stream, lease
<1>4. /\ delivered \subseteq delivered' /\ trimmed <= trimmed'
      /\ UNCHANGED <<tip, checkpoint, completed, closed, written>>
  BY DEF Inv, TypeOK, stream, lease
<1>5. PassHasReader'
  BY <1>2, <1>4 DEF Inv, PassHasReader
<1> QED
  BY <1>2, <1>3, <1>4, <1>5, NoCursorType, FrameKeeps

LEMMA BreakKeeps ==
  ASSUME Inv, \/ RetryFails \/ AgainRefused \/ CheckpointFails \/ PassStops
              \/ (\E w \in Workers : Crash(w))
  PROVE  Inv'
<1>0. /\ cursor' \in [Workers -> [on : BOOLEAN, after : Pos, iter : Iterator]]
      /\ \A w \in Workers : cursor'[w] \in {cursor[w], NoCursor}
  BY NoCursorType DEF Inv, TypeOK, RetryFails, AgainRefused, CheckpointFails, PassStops, Crash
<1>1. (lo + 1)..hi \subseteq 1..LastSeq
  BY DEF Inv, TypeOK
<1>a. /\ UNCHANGED <<stream, lease, tip, expiries>>
      /\ delivered' = delivered \/ delivered' = delivered \cup (lo + 1)..hi
      /\ Over \/ UNCHANGED <<pass, iter, batch>>
  BY DEF RetryFails, AgainRefused, CheckpointFails, PassStops, Crash, history, budget
<1>b. breaks' \in 0..MaxBreaks
  BY DEF RetryFails, AgainRefused, CheckpointFails, PassStops, Crash, budget, Inv, TypeOK
<1> QED
  BY <1>0, <1>1, <1>a, <1>b, BreakFrame

-----------------------------------------------------------------------------
(* get_records *)

\* A fresh iterator for position cp, and the tip noted for it.
LEMMA OriginContinues ==
  ASSUME TypeOK, tip <= written, NEW cp \in Pos,
         tip' = tip \/ tip' = written, cp = Latest => tip' = written
  PROVE  /\ Origin(cp) \in 0..LastSeq /\ tip <= tip' /\ tip' \in 0..LastSeq /\ tip' <= written
         /\ Below(Origin(cp)) \subseteq Below(cp) \cup 1..trimmed \cup 1..tip'
BY DEF TypeOK, Origin, Below, Pos, None, Latest

LEMMA StartKeeps ==
  ASSUME Inv, NEW w \in Workers, StartPass(w)
  PROVE  Inv'
<1>1. TypeOK' /\ PassHasReader'
  BY DEF Inv, TypeOK, PassHasReader, StartPass, stream, lease, batch, history, budget
<1>2. OutOfReach' = OutOfReach /\ Excused' = Excused
  BY DEF StartPass, stream, history, OutOfReach, Excused
<1>3. IteratorContinues' /\ PositionsExcused' /\ EndReached'
  BY <1>2 DEF Inv, IteratorContinues, PositionsExcused, EndReached, StartPass, lease, stream
<1>4. CursorsContinue'
  BY DEF Inv, CursorsContinue, StartPass, stream, history
<1> QED
  BY <1>1, <1>3, <1>4 DEF Inv

LEMMA ReuseKeeps ==
  ASSUME Inv, Reuse
  PROVE  Inv'
<1>1. reader \in Workers /\ cursor[reader].on /\ cursor[reader].after = after
  BY DEF Inv, PassHasReader, Reuse, Cached
<1>2. TypeOK' /\ PassHasReader'
  BY <1>1, CursorFields DEF Inv, TypeOK, PassHasReader, Reuse, stream, lease, batch, history, budget
<1>3. Below(iter'.at) \subseteq Below(after) \cup OutOfReach
  BY <1>1 DEF Inv, CursorsContinue, OutOfReach, Reuse
<1>4. OutOfReach' = OutOfReach /\ Excused' = Excused
  BY DEF Reuse, stream, history, OutOfReach, Excused
<1>5. IteratorContinues' /\ PositionsExcused' /\ EndReached'
  BY <1>3, <1>4 DEF Inv, IteratorContinues, PositionsExcused, EndReached, Reuse, lease, stream
<1>6. CursorsContinue'
  BY DEF Inv, CursorsContinue, Reuse, stream, history
<1> QED
  BY <1>2, <1>5, <1>6 DEF Inv

\* derive_iterator for cp, the position of the pass or TRIM_HORIZON: it puts a fresh
\* iterator in place, or ends the shard where nothing follows.
LEMMA DerivedKeeps ==
  ASSUME Inv, NEW cp \in Pos, cp = after \/ cp = None, NEW next \in {"read", "retry"},
         Derived(cp, next), reader' = reader, reader \in Workers,
         pc # "off", after' = after, UNCHANGED <<stream, lease, delivered, budget>>,
         cursor' = cursor \/ cursor' = [cursor EXCEPT ![reader] = NoCursor]
  PROVE  Inv'
<1>0. TypeOK /\ tip <= written /\ written \in 0..LastSeq /\ LastSeq \in Nat
  BY DEF Inv, PassHasReader, TypeOK
<1>1. (tip' = tip \/ tip' = written) /\ (cp = Latest => tip' = written)
  BY DEF Derived, NoteTip
<1>3. /\ Origin(cp) \in 0..LastSeq /\ tip <= tip' /\ tip' \in 0..LastSeq /\ tip' <= written
      /\ Below(Origin(cp)) \subseteq Below(cp) \cup 1..trimmed \cup 1..tip'
  BY <1>0, <1>1, OriginContinues
<1>a. UNCHANGED <<written, closed, trimmed, named, checkpoint, completed, expiries, breaks>>
  BY DEF stream, lease, budget
<1>4. /\ cursor' \in [Workers -> [on : BOOLEAN, after : Pos, iter : Iterator]]
      /\ \A w \in Workers : cursor'[w] \in {cursor[w], NoCursor}
  BY <1>0, NoCursorType DEF TypeOK
<1>b. /\ pc' \in {"read", "retry", "deliver"}
      /\ iter' \in Iterator /\ lo' \in 0..LastSeq /\ hi' \in lo'..LastSeq /\ end' \in BOOLEAN
      /\ pc' \in {"read", "retry"} => iter'.at = Origin(cp)
      /\ pc' = "deliver" => lo' = 0 /\ closed /\ Origin(cp) = written
  <2>1. CASE /\ iter' = [at |-> Origin(cp), good |-> TRUE]
             /\ pc' = next
             /\ UNCHANGED batch
    <3>1. iter' \in Iterator /\ iter'.at = Origin(cp)
      BY <1>3, <2>1 DEF Iterator
    <3>2. UNCHANGED <<lo, hi, end>> /\ pc' \in {"read", "retry"}
      BY <2>1 DEF batch
    <3> QED
      BY <1>0, <3>1, <3>2 DEF TypeOK
  <2>2. CASE /\ closed /\ Origin(cp) = written
             /\ lo' = 0 /\ hi' = 0 /\ end' = TRUE
             /\ pc' = "deliver"
             /\ UNCHANGED iter
    BY <1>0, <2>2 DEF TypeOK
  <2> QED
    BY <2>1, <2>2 DEF Derived
<1>5. TypeOK'
  BY <1>0, <1>3, <1>4, <1>a, <1>b DEF TypeOK
<1>6. PassHasReader'
  BY <1>3, <1>a DEF PassHasReader
<1>8. OutOfReach \subseteq OutOfReach' /\ Excused \subseteq Excused'
  BY <1>0, <1>3, <1>5, <1>a, ExcusedGrows DEF TypeOK
<1>9. Below(Origin(cp)) \subseteq Below(after) \cup OutOfReach'
  <2>1. Below(cp) \subseteq Below(after)
    BY DEF Below, None
  <2> QED
    BY <1>3, <1>a, <2>1 DEF OutOfReach
<1>c. IteratorContinues'
  BY <1>9, <1>b DEF IteratorContinues, Below
<1>10. PositionsExcused'
  BY <1>8, <1>a DEF Inv, PositionsExcused
<1>d. EndReached'
  <2>1. pc' = "deliver" => closed' /\ Below(written') \subseteq Below(after') \cup OutOfReach'
    BY <1>9, <1>a, <1>b
  <2> QED
    BY <1>8, <1>a, <2>1 DEF Inv, EndReached
<1>11. CursorsContinue'
  BY <1>4, <1>8, NoCursorType DEF Inv, CursorsContinue, OutOfReach
<1> QED
  BY <1>5, <1>6, <1>c, <1>10, <1>d, <1>11 DEF Inv

LEMMA DeriveKeeps ==
  ASSUME Inv, Derive \/ DeriveHorizon \/ DeriveAgain
  PROVE  Inv'
<1>1. after \in Pos /\ None \in Pos /\ (pc # "off" => reader \in Workers)
  BY DEF Inv, PassHasReader, TypeOK, Pos, None, Latest
<1>2. CASE Derive
  BY <1>1, <1>2, DerivedKeeps DEF Derive
<1>3. CASE DeriveHorizon
  BY <1>1, <1>3, DerivedKeeps DEF DeriveHorizon
<1>4. CASE DeriveAgain
  BY <1>1, <1>4, DerivedKeeps DEF DeriveAgain
<1> QED
  BY <1>2, <1>3, <1>4

\* A refused position and a failed read: the pass ends, or goes on without an iterator.
LEMMA HealKeepsInv ==
  ASSUME Inv, DeriveRefused \/ Heal
  PROVE  Inv'
<1>1. /\ cursor' \in [Workers -> [on : BOOLEAN, after : Pos, iter : Iterator]]
      /\ \A w \in Workers : cursor'[w] \in {cursor[w], NoCursor}
      /\ UNCHANGED <<stream, lease, history, budget>> /\ pc # "off"
  BY NoCursorType DEF Inv, TypeOK, DeriveRefused, Heal, Recoverable
<1>2. CASE ~named
  <2>1. Over
    BY <1>2 DEF DeriveRefused, Heal, Recoverable
  <2> QED
    BY <1>1, <2>1, BreakFrame DEF history, budget, Inv, TypeOK
<1>3. CASE named
  <2>1. /\ pc' \in {"horizon", "again"} /\ UNCHANGED <<reader, after, batch>>
        /\ iter' \in {iter, NoIter}
    BY <1>3 DEF DeriveRefused, Heal, Recoverable
  <2>2. NoIter \in Iterator
    BY DEF NoIter, Iterator
  <2>3. TypeOK' /\ PassHasReader'
    BY <1>1, <2>1, <2>2 DEF Inv, TypeOK, PassHasReader, stream, lease, batch, history, budget
  <2>4. OutOfReach' = OutOfReach /\ Excused' = Excused
    BY <1>1 DEF stream, history, OutOfReach, Excused
  <2>5. IteratorContinues' /\ PositionsExcused' /\ EndReached'
    BY <1>1, <2>1, <2>4
       DEF Inv, IteratorContinues, PositionsExcused, EndReached, stream, lease
  <2>6. CursorsContinue'
    BY <1>1, NoCursorType DEF Inv, CursorsContinue, stream, history
  <2> QED
    BY <2>3, <2>5, <2>6 DEF Inv
<1> QED
  BY <1>2, <1>3 DEF Inv, TypeOK

\* GetRecords answers: the batch begins where the iterator is, and the next iterator
\* is filed under the position after the batch.
LEMMA RespondKeeps ==
  ASSUME Inv, Read \/ Retry
  PROVE  Inv'
<1>0. TypeOK /\ reader \in Workers /\ pc \in {"read", "retry"} /\ iter.at \in 0..LastSeq
  BY CursorFields DEF Inv, PassHasReader, Read, Retry
<1>1. PICK to \in iter.at..written, last \in BOOLEAN :
        /\ lo' = iter.at /\ hi' = to /\ end' = last
        /\ last => closed /\ to = written
        /\ Threaded(to, last)
  BY DEF Read, Retry, Respond
<1>2. /\ pc' = "deliver" /\ reader' = reader /\ after' = after
      /\ UNCHANGED <<written, closed, trimmed, named, checkpoint, completed, delivered, tip,
                     expiries, breaks>>
      /\ iter' \in Iterator
  <2>1. NoIter \in Iterator
    BY DEF NoIter, Iterator
  <2> QED
    BY <2>1 DEF Read, Retry, Respond, stream, lease, history, budget
<1>3. to \in 0..LastSeq /\ to >= iter.at
  BY <1>0 DEF TypeOK
<1> DEFINE a == Advanced(after, iter.at, to)
           c == [on |-> TRUE, after |-> a, iter |-> [at |-> to, good |-> TRUE]]
<1>4. a \in Pos /\ Below(to) \subseteq Below(a) \cup OutOfReach
  <2>1. CASE to > iter.at
    BY <1>0, <1>3, <2>1 DEF Advanced, Below, Pos, Latest
  <2>2. CASE to = iter.at
    BY <1>0, <2>2 DEF Advanced, Inv, IteratorContinues, TypeOK
  <2> QED
    BY <1>0, <1>3, <2>1, <2>2
<1>5. cursor' = [cursor EXCEPT ![reader] = IF last THEN NoCursor ELSE c]
  BY <1>1 DEF Threaded
<1>6. c \in [on : BOOLEAN, after : Pos, iter : Iterator] /\ c.after = a /\ c.iter.at = to
  BY <1>3, <1>4 DEF Iterator
<1> HIDE DEF a, c
<1>7. /\ cursor' \in [Workers -> [on : BOOLEAN, after : Pos, iter : Iterator]]
      /\ cursor'[reader] \in {c, NoCursor}
      /\ \A w \in Workers : w # reader => cursor'[w] = cursor[w]
  BY <1>0, <1>5, <1>6, NoCursorType DEF TypeOK
<1>8. TypeOK'
  BY <1>0, <1>1, <1>2, <1>3, <1>7 DEF TypeOK
<1>9. PassHasReader' /\ OutOfReach' = OutOfReach /\ Excused' = Excused
  BY <1>0, <1>2 DEF Inv, PassHasReader, OutOfReach, Excused
<1>10. IteratorContinues' /\ PositionsExcused' /\ EndReached'
  BY <1>0, <1>1, <1>2, <1>9 DEF Inv, IteratorContinues, PositionsExcused, EndReached
<1>11. CursorsContinue'
  <2> SUFFICES ASSUME NEW w \in Workers, cursor'[w].on
               PROVE  Below(cursor'[w].iter.at) \subseteq Below(cursor'[w].after) \cup OutOfReach
    BY <1>2 DEF CursorsContinue, OutOfReach
  <2>1. CASE w = reader
    BY <1>4, <1>6, <1>7, <2>1, NoCursorType
  <2>2. CASE w # reader
    BY <1>7, <2>2 DEF Inv, CursorsContinue, OutOfReach
  <2> QED
    BY <2>1, <2>2
<1> QED
  BY <1>8, <1>9, <1>10, <1>11 DEF Inv

\* An acknowledged batch: its records are delivered, and the position moves behind it.
LEMMA DeliverKeeps ==
  ASSUME Inv, Deliver
  PROVE  Inv'
<1>0. TypeOK /\ pc = "deliver" /\ reader \in Workers /\ lo \in 0..LastSeq /\ hi \in lo..LastSeq
  BY DEF Inv, PassHasReader, Deliver, TypeOK
<1> DEFINE to == Advanced(after, lo, hi)
<1>1. (lo + 1)..hi \subseteq 1..LastSeq /\ to \in Pos
  BY <1>0 DEF Advanced, TypeOK, Pos, Latest
<1>3. /\ UNCHANGED <<written, closed, trimmed, named, tip, cursor, expiries, breaks>>
      /\ delivered' = delivered \cup (lo + 1)..hi /\ checkpoint' = to /\ completed' = end
  BY DEF Deliver, stream, budget
<1>a. /\ pc' \in {"off", "fetch"} /\ reader' \in {reader, Nobody} /\ iter' \in Iterator
      /\ lo' \in 0..LastSeq /\ hi' \in lo'..LastSeq /\ end' \in BOOLEAN /\ after' \in Pos
      /\ pc' = "fetch" => reader' = reader /\ after' = to
  <2>1. CASE end \/ hi = lo
    BY <1>0, <2>1, OverType DEF Deliver
  <2>2. CASE ~(end \/ hi = lo)
    <3>1. pc' = "fetch" /\ after' = to /\ NoBatch /\ UNCHANGED <<reader, iter>>
      BY <2>2, <1>3 DEF Deliver
    <3>2. 0 \in 0..LastSeq /\ 0 \in 0..0
      OBVIOUS
    <3> QED
      BY <1>0, <1>1, <3>1, <3>2 DEF NoBatch, TypeOK
  <2> QED
    BY <2>1, <2>2
<1>b. /\ delivered' \in SUBSET (1..LastSeq) /\ completed' \in BOOLEAN /\ checkpoint' \in Pos
  BY <1>0, <1>1, <1>3 DEF TypeOK
<1> HIDE DEF to
<1>2. TypeOK' /\ PassHasReader'
  BY <1>0, <1>3, <1>a, <1>b DEF Inv, TypeOK, PassHasReader
<1>4. OutOfReach' = OutOfReach /\ Excused \subseteq Excused' /\ (lo + 1)..hi \subseteq Excused'
  BY <1>3 DEF OutOfReach, Excused
<1>c. /\ Below(after) \subseteq Excused' /\ OutOfReach \subseteq Excused'
      /\ Below(lo) \subseteq Excused'
  BY <1>0, <1>4 DEF Inv, PositionsExcused, IteratorContinues, OutOfReach, Excused
<1>d. Below(hi) \subseteq Excused'
  <2>1. Below(hi) \subseteq Below(lo) \cup (lo + 1)..hi
    BY <1>0 DEF Below
  <2> QED
    BY <1>4, <1>c, <2>1
<1>5. Below(to) \subseteq Excused'
  BY <1>c, <1>d DEF to, Advanced
<1>6. IteratorContinues' /\ PositionsExcused'
  BY <1>3, <1>5, <1>a DEF IteratorContinues, PositionsExcused
<1>e. EndReached'
  BY <1>0, <1>3, <1>a, <1>c, <1>d DEF Inv, EndReached
<1>7. CursorsContinue'
  BY <1>3 DEF Inv, CursorsContinue
<1> QED
  BY <1>2, <1>6, <1>e, <1>7 DEF Inv

-----------------------------------------------------------------------------
LEMMA InitInv == Init => Inv
<1> SUFFICES ASSUME Init PROVE Inv
  OBVIOUS
<1>a. cursor \in [Workers -> [on : BOOLEAN, after : Pos, iter : Iterator]]
  BY NoCursorType DEF Init
<1>b. iter \in Iterator /\ checkpoint \in Pos /\ after \in Pos
  BY DEF Init, NoIter, Iterator, Pos, None, Latest
<1>c. /\ written \in 0..LastSeq /\ trimmed \in 0..written
      /\ lo \in 0..LastSeq /\ hi \in lo..LastSeq /\ tip \in 0..LastSeq
      /\ expiries \in 0..MaxExpiries /\ breaks \in 0..MaxBreaks
  BY DEF Init
<1>d. /\ closed \in BOOLEAN /\ completed \in BOOLEAN /\ end \in BOOLEAN
      /\ delivered \in SUBSET (1..LastSeq) /\ reader \in Workers \cup {Nobody}
      /\ pc = "off" /\ named \in BOOLEAN
  BY DEF Init
<1>1. TypeOK
  BY <1>a, <1>b, <1>c, <1>d DEF TypeOK
<1>2. PassHasReader /\ IteratorContinues /\ EndReached
  BY DEF Init, PassHasReader, IteratorContinues, EndReached
<1>3. PositionsExcused
  BY DEF Init, PositionsExcused, Below, None, Latest
<1>4. CursorsContinue
  BY NoCursorType DEF Init, CursorsContinue
<1> QED
  BY <1>1, <1>2, <1>3, <1>4 DEF Inv

LEMMA StepInv == Inv /\ [Next]_vars => Inv'
<1> SUFFICES ASSUME Inv, [Next]_vars PROVE Inv'
  OBVIOUS
<1>1. CASE UNCHANGED vars
  BY <1>1 DEF Inv, TypeOK, PassHasReader, IteratorContinues, PositionsExcused, EndReached, CursorsContinue,
              OutOfReach, Excused, vars, stream, lease, pass, batch, history, budget
<1>2. CASE Next
  BY <1>2, ServiceKeeps, BreakKeeps, StartKeeps, ReuseKeeps, DeriveKeeps, HealKeepsInv,
     RespondKeeps, DeliverKeeps DEF Next, PassStep
<1> QED
  BY <1>1, <1>2

\* Inv holds in every state.
THEOREM SourceInv == Spec => []Inv
BY InitInv, StepInv, PTL DEF Spec

\* get_records never passes over a record, for any number of workers that take turns
\* with caches of their own, and whichever iterators expire, positions are trimmed,
\* checkpoints fail and processes end, recognised or not; and it ends a shard only when
\* nothing is left of it.
THEOREM NeverSkips == Spec => []NothingPassedOver
<1>1. Inv => NothingPassedOver
  BY DEF Inv, IteratorContinues, PositionsExcused, EndReached, OutOfReach, Excused, NothingPassedOver
<1> QED
  BY <1>1, SourceInv, PTL

\* ... because a cached cursor always continues from the position it is filed under.
THEOREM CacheContinues == Spec => []CursorsContinue
<1>1. Inv => CursorsContinue
  BY DEF Inv
<1> QED
  BY <1>1, SourceInv, PTL
=============================================================================
