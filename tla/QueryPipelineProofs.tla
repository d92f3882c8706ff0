------------------------ MODULE QueryPipelineProofs ------------------------
(***************************************************************************)
(* Theorems about QueryPipeline, for any calls, any number of connections  *)
(* and any depth of nesting.                                               *)
(***************************************************************************)
EXTENDS QueryPipeline, FiniteSetTheorems, SequenceTheorems, TLAPS

Frames == [call : Calls, tail : Seq(Statement) \ {<<>>},
           bindings : Named \union Seq(Values),
           at : {"prepare", "bind", "step"},
           on : Handles \union {NoHandle}, left : Nat,
           nested : BOOLEAN, moved : BOOLEAN]

(* The calls that have a statement of connection h. *)
Users(s, h) == {i \in DOMAIN s : s[i].on = h}

(* A call has a connection while it has a statement. *)
FrameFits(f) ==
  /\ (f.at = "prepare") <=> (f.on = NoHandle)
  /\ f.at # "prepare" => ~Head(f.tail).malformed
  /\ f.left <= Head(f.tail).rows
  /\ f.bindings \in IF f.call.named THEN Named ELSE Seq(Values)

(* Only a call whose sqlite3_step() runs has another nested in it. *)
ShapeInv ==
  /\ stack \in Seq(Frames)
  /\ \A i \in DOMAIN stack :
       /\ FrameFits(stack[i])
       /\ i > 1 => stack[i].at = "step" /\ stack[i].nested

(* A connection is open or sick as long as the object has it, and after that
   it lives as a zombie as long as it has statements. *)
StatementsInv ==
  \A h \in Handles :
    /\ statements[h] = Cardinality(Users(stack, h))
    /\ openState[h] = "zombie" => statements[h] > 0
    /\ openState[h] \in {"none", "sick"} => statements[h] = 0
    /\ (openState[h] \in {"open", "sick"}) <=> (h = db)
    /\ openState[h] = "sick" => errCode[h] = "cantopen"

(* Between sqlite3_prepare_v2() and the bindings nothing else happens. *)
PreparedInv == At("bind") => db \in Open /\ Top.on = db /\ error_message = "ok"

PipeInv == TypeOK /\ ShapeInv /\ StatementsInv /\ PreparedInv

-----------------------------------------------------------------------------
(* Counting the calls that have a statement of a connection. *)

(* Those below the innermost call. *)
Below(s, h) == Users(s, h) \ {1}

(* They are finitely many. *)
LEMMA UsersAreFinite ==
  ASSUME NEW s \in Seq(Frames), NEW h
  PROVE  /\ IsFiniteSet(Users(s, h)) /\ Cardinality(Users(s, h)) \in Nat
         /\ IsFiniteSet(Below(s, h)) /\ Cardinality(Below(s, h)) \in Nat
  <1>1. Users(s, h) \subseteq 1 .. Len(s) /\ Len(s) \in Nat
    BY DEF Users
  <1>2. IsFiniteSet(1 .. Len(s))
    <2>1. 1 \in Int /\ Len(s) \in Int
      BY <1>1
    <2> QED BY <2>1, FS_Interval
  <1>3. IsFiniteSet(Users(s, h))
    BY <1>1, <1>2, FS_Subset
  <1>4. IsFiniteSet(Below(s, h))
    BY <1>3, FS_Subset DEF Below
  <1> QED BY <1>3, <1>4, FS_CardinalityType

(* The innermost call counts for its connection. *)
LEMMA UsersSplit ==
  ASSUME NEW s \in Seq(Frames), s # <<>>, NEW h
  PROVE  Cardinality(Users(s, h)) =
           IF s[1].on = h THEN Cardinality(Below(s, h)) + 1
                          ELSE Cardinality(Below(s, h))
  <1>1. 1 \in DOMAIN s
    OBVIOUS
  <1>2. CASE s[1].on = h
    <2>1. Users(s, h) = Below(s, h) \union {1} /\ 1 \notin Below(s, h)
      BY <1>1, <1>2 DEF Users, Below
    <2> QED BY <1>2, <2>1, UsersAreFinite, FS_AddElement
  <1>3. CASE s[1].on # h
    <2>1. Users(s, h) = Below(s, h)
      BY <1>3 DEF Users, Below
    <2> QED BY <1>3, <2>1
  <1> QED BY <1>2, <1>3

(* The calls below the innermost are those there are without it. *)
LEMMA UsersShift ==
  ASSUME NEW s \in Seq(Frames), NEW t \in Seq(Frames), NEW h,
         Len(t) = Len(s) + 1, \A i \in DOMAIN s : t[i + 1].on = s[i].on
  PROVE  Cardinality(Below(t, h)) = Cardinality(Users(s, h))
  <1> DEFINE f == [i \in Users(s, h) |-> i + 1]
  <1>1. f \in [Users(s, h) -> Below(t, h)]
    BY DEF Users, Below
  <1>2. \A a, b \in Users(s, h) : f[a] = f[b] => a = b
    BY DEF Users
  <1>3. ASSUME NEW j \in Below(t, h)
        PROVE  \E i \in Users(s, h) : f[i] = j
    <2>1. j - 1 \in DOMAIN s /\ t[(j - 1) + 1].on = h /\ (j - 1) + 1 = j
      BY DEF Users, Below
    <2>2. j - 1 \in Users(s, h)
      BY <2>1 DEF Users
    <2> QED BY <2>1, <2>2
  <1>4. f \in Bijection(Users(s, h), Below(t, h))
    BY <1>1, <1>2, <1>3 DEF Bijection, Injection, Surjection, IsInjective
  <1> QED BY <1>4, UsersAreFinite, FS_Bijection DEF ExistsBijection

(* Changing the innermost call does not change those below. *)
LEMMA BelowSame ==
  ASSUME NEW s \in Seq(Frames), NEW t \in Seq(Frames), NEW h,
         Len(t) = Len(s), \A i \in DOMAIN s : i > 1 => t[i].on = s[i].on
  PROVE  Below(t, h) = Below(s, h)
  BY DEF Below, Users

-----------------------------------------------------------------------------
(* The stack of calls. *)

(* The innermost call changes. *)
LEMMA ReplaceFacts ==
  ASSUME NEW s \in Seq(Frames), s # <<>>, NEW e \in Frames
  PROVE  /\ <<e>> \o Tail(s) \in Seq(Frames)
         /\ <<e>> \o Tail(s) # <<>> /\ Len(<<e>> \o Tail(s)) = Len(s)
         /\ DOMAIN (<<e>> \o Tail(s)) = DOMAIN s
         /\ (<<e>> \o Tail(s))[1] = e
         /\ \A i \in DOMAIN s : i > 1 => (<<e>> \o Tail(s))[i] = s[i]
  <1>1. /\ Tail(s) \in Seq(Frames) /\ Len(Tail(s)) = Len(s) - 1
        /\ Len(s) \in Nat /\ Len(s) > 0
        /\ \A i \in 1 .. Len(s) - 1 : Tail(s)[i] = s[i + 1]
    OBVIOUS
  <1>2. <<e>> \in Seq(Frames) /\ Len(<<e>>) = 1 /\ <<e>>[1] = e
    OBVIOUS
  <1>3. /\ <<e>> \o Tail(s) \in Seq(Frames)
        /\ Len(<<e>> \o Tail(s)) = Len(s)
    BY <1>1, <1>2
  <1>4. \A i \in 1 .. Len(s) :
          (<<e>> \o Tail(s))[i] = IF i <= 1 THEN <<e>>[i] ELSE Tail(s)[i - 1]
    BY <1>1, <1>2
  <1>5. \A i \in 1 .. Len(s) : i > 1 => i - 1 \in 1 .. Len(s) - 1
                                        /\ (i - 1) + 1 = i
    BY <1>1
  <1>6. <<e>> \o Tail(s) # <<>> /\ DOMAIN (<<e>> \o Tail(s)) = 1 .. Len(s)
    BY <1>1, <1>3
  <1> QED BY <1>1, <1>2, <1>3, <1>4, <1>5, <1>6

(* The innermost call ends. *)
LEMMA ReturnFacts ==
  ASSUME NEW s \in Seq(Frames), s # <<>>
  PROVE  /\ Tail(s) \in Seq(Frames) /\ Len(s) = Len(Tail(s)) + 1
         /\ \A i \in DOMAIN Tail(s) : /\ i + 1 \in DOMAIN s /\ i + 1 > 1
                                      /\ s[i + 1] = Tail(s)[i]
         /\ \A h : Cardinality(Users(Tail(s), h)) = Cardinality(Below(s, h))
  <1>1. /\ Tail(s) \in Seq(Frames) /\ Len(s) = Len(Tail(s)) + 1
        /\ \A i \in DOMAIN Tail(s) : /\ i + 1 \in DOMAIN s /\ i + 1 > 1
                                     /\ s[i + 1] = Tail(s)[i]
    OBVIOUS
  <1> QED BY <1>1, UsersShift

(* Each of them is a call in progress. *)
LEMMA CallsAreFrames ==
  ASSUME NEW s \in Seq(Frames)
  PROVE  \A i \in DOMAIN s : s[i] \in Frames
  OBVIOUS

(* A function on 1 .. n is a sequence of length n. *)
LEMMA FunctionsAreStacks ==
  ASSUME NEW n \in Nat, NEW u \in [1 .. n -> Frames]
  PROVE  u \in Seq(Frames) /\ Len(u) = n
  OBVIOUS

(* What is put before a sequence moves it up by one. *)
LEMMA PrependFacts ==
  ASSUME NEW u \in Seq(Frames), NEW e \in Frames
  PROVE  /\ <<e>> \o u \in Seq(Frames) /\ <<e>> \o u # <<>>
         /\ Len(<<e>> \o u) = Len(u) + 1
         /\ DOMAIN (<<e>> \o u) = 1 .. Len(u) + 1
         /\ (<<e>> \o u)[1] = e
         /\ \A i \in 1 .. Len(u) + 1 : i > 1 => (<<e>> \o u)[i] = u[i - 1]
  <1>1. Len(u) \in Nat
    OBVIOUS
  <1>2. <<e>> \in Seq(Frames) /\ Len(<<e>>) = 1 /\ <<e>>[1] = e
    OBVIOUS
  <1>3. <<e>> \o u \in Seq(Frames) /\ Len(<<e>> \o u) = Len(u) + 1
    BY <1>1, <1>2
  <1>4. \A i \in 1 .. Len(u) + 1 :
          (<<e>> \o u)[i] = IF i <= 1 THEN <<e>>[i] ELSE u[i - 1]
    BY <1>1, <1>2
  <1>5. <<e>> \o u # <<>> /\ DOMAIN (<<e>> \o u) = 1 .. Len(u) + 1
    BY <1>1, <1>3
  <1> QED BY <1>1, <1>2, <1>3, <1>4, <1>5

(* A call is nested in those in progress. *)
Nested(s) == [i \in DOMAIN s |-> [s[i] EXCEPT !.nested = TRUE]]

(* What then holds of the stack t. *)
IsNested(s, e, t) ==
  /\ t \in Seq(Frames) /\ Len(t) = Len(s) + 1 /\ t # <<>> /\ t[1] = e
  /\ DOMAIN t = 1 .. Len(s) + 1
  /\ \A i \in DOMAIN t : i > 1 =>
       /\ i - 1 \in DOMAIN s
       /\ t[i].nested /\ t[i].at = s[i - 1].at /\ t[i].on = s[i - 1].on
       /\ t[i].tail = s[i - 1].tail /\ t[i].left = s[i - 1].left
       /\ t[i].call = s[i - 1].call /\ t[i].bindings = s[i - 1].bindings
       /\ t[i].moved = s[i - 1].moved
  /\ \A h : Cardinality(Below(t, h)) = Cardinality(Users(s, h))

(* The new stack has the new call on top, and below it the old calls with one
   nested in them; each connection has as many statements as before. *)
LEMMA NestFacts ==
  ASSUME NEW s \in Seq(Frames), NEW e \in Frames, NEW t, t = <<e>> \o Nested(s)
  PROVE  IsNested(s, e, t)
  <1> DEFINE u == Nested(s)
  <1>1. ASSUME NEW c \in Frames, NEW d, d = [c EXCEPT !.nested = TRUE]
        PROVE  /\ d \in Frames
               /\ d.nested /\ d.at = c.at /\ d.on = c.on /\ d.tail = c.tail
               /\ d.left = c.left /\ d.call = c.call
               /\ d.bindings = c.bindings /\ d.moved = c.moved
    BY <1>1 DEF Frames
  <1>2. /\ u \in Seq(Frames) /\ Len(u) = Len(s) /\ Len(s) \in Nat
        /\ \A i \in 1 .. Len(s) : u[i] = [s[i] EXCEPT !.nested = TRUE]
    <2>1. \A i \in DOMAIN s : s[i] \in Frames
      OBVIOUS
    <2>2. \A i \in DOMAIN s : [s[i] EXCEPT !.nested = TRUE] \in Frames
      BY <1>1, <2>1
    <2>3. DOMAIN s = 1 .. Len(s) /\ Len(s) \in Nat
      OBVIOUS
    <2> HIDE DEF Frames
    <2>4. u \in [1 .. Len(s) -> Frames]
      BY <2>2, <2>3 DEF Nested
    <2>5. \A i \in DOMAIN s : u[i] = [s[i] EXCEPT !.nested = TRUE]
      BY DEF Nested
    <2>6. u \in Seq(Frames) /\ Len(u) = Len(s)
      BY <2>3, <2>4, FunctionsAreStacks
    <2> QED BY <2>3, <2>5, <2>6, Zenon
  <1>3. PICK w \in Seq(Frames) :
               /\ t = <<e>> \o w /\ Len(w) = Len(s)
               /\ \A i \in 1 .. Len(s) : w[i] = [s[i] EXCEPT !.nested = TRUE]
    BY <1>2
  <1>4. /\ t \in Seq(Frames) /\ Len(t) = Len(s) + 1 /\ t # <<>> /\ t[1] = e
        /\ DOMAIN t = 1 .. Len(s) + 1
        /\ \A i \in 1 .. Len(s) + 1 : i > 1 => t[i] = w[i - 1]
    <2> HIDE DEF u, Frames
    <2>1. /\ <<e>> \o w \in Seq(Frames) /\ <<e>> \o w # <<>>
          /\ Len(<<e>> \o w) = Len(w) + 1
          /\ DOMAIN (<<e>> \o w) = 1 .. Len(w) + 1
          /\ (<<e>> \o w)[1] = e
          /\ \A i \in 1 .. Len(w) + 1 : i > 1 => (<<e>> \o w)[i] = w[i - 1]
      BY PrependFacts
    <2> QED BY <1>3, <2>1, Zenon
  <1>5. \A i \in DOMAIN t : i > 1 => i - 1 \in DOMAIN s
    BY <1>4
  <1>6. ASSUME NEW i \in DOMAIN t, i > 1
        PROVE  /\ i - 1 \in DOMAIN s
               /\ t[i].nested /\ t[i].at = s[i - 1].at /\ t[i].on = s[i - 1].on
               /\ t[i].tail = s[i - 1].tail /\ t[i].left = s[i - 1].left
               /\ t[i].call = s[i - 1].call
               /\ t[i].bindings = s[i - 1].bindings
               /\ t[i].moved = s[i - 1].moved
    <2>1. PICK j \in DOMAIN s : j = i - 1
      BY <1>5, <1>6
    <2>2. s[j] \in Frames /\ t[i] = [s[j] EXCEPT !.nested = TRUE]
      <3>1. s[j] \in Frames
        BY CallsAreFrames
      <3>2. i \in 1 .. Len(s) + 1 /\ j \in 1 .. Len(s)
        BY <1>4
      <3>3. t[i] = w[j]
        BY <1>4, <1>6, <2>1, <3>2
      <3>4. w[j] = [s[j] EXCEPT !.nested = TRUE]
        BY <1>3, <3>2
      <3> QED BY <3>1, <3>3, <3>4
    <2> QED BY <1>1, <2>1, <2>2
  <1>7. \A i \in DOMAIN s : t[i + 1].on = s[i].on
    <2> TAKE i \in DOMAIN s
    <2>1. i + 1 \in DOMAIN t /\ i + 1 > 1 /\ (i + 1) - 1 = i
      BY <1>4
    <2> QED BY <1>6, <2>1
  <1>8. \A h : Cardinality(Below(t, h)) = Cardinality(Users(s, h))
    BY <1>4, <1>7, UsersShift
  <1> QED BY <1>4, <1>6, <1>8 DEF IsNested

(* The object has left the connection of all of them. *)
LEMMA MovedFacts ==
  ASSUME NEW s \in Seq(Frames)
  PROVE  /\ Moved(s) \in Seq(Frames) /\ Len(Moved(s)) = Len(s)
         /\ DOMAIN Moved(s) = DOMAIN s
         /\ \A i \in DOMAIN s :
              /\ Moved(s)[i].moved /\ Moved(s)[i].at = s[i].at
              /\ Moved(s)[i].on = s[i].on /\ Moved(s)[i].tail = s[i].tail
              /\ Moved(s)[i].left = s[i].left /\ Moved(s)[i].call = s[i].call
              /\ Moved(s)[i].bindings = s[i].bindings
              /\ Moved(s)[i].nested = s[i].nested
         /\ \A h : Users(Moved(s), h) = Users(s, h)
  <1>1. ASSUME NEW c \in Frames, NEW d, d = [c EXCEPT !.moved = TRUE]
        PROVE  /\ d \in Frames
               /\ d.moved /\ d.at = c.at /\ d.on = c.on /\ d.tail = c.tail
               /\ d.left = c.left /\ d.call = c.call
               /\ d.bindings = c.bindings /\ d.nested = c.nested
    BY <1>1 DEF Frames
  <1>2. \A i \in DOMAIN s : s[i] \in Frames
    OBVIOUS
  <1>3. /\ DOMAIN Moved(s) = DOMAIN s
        /\ \A i \in DOMAIN s : Moved(s)[i] = [s[i] EXCEPT !.moved = TRUE]
    BY DEF Moved
  <1>4. \A i \in DOMAIN s :
          /\ Moved(s)[i] \in Frames
          /\ Moved(s)[i].moved /\ Moved(s)[i].at = s[i].at
          /\ Moved(s)[i].on = s[i].on /\ Moved(s)[i].tail = s[i].tail
          /\ Moved(s)[i].left = s[i].left /\ Moved(s)[i].call = s[i].call
          /\ Moved(s)[i].bindings = s[i].bindings
          /\ Moved(s)[i].nested = s[i].nested
    BY <1>1, <1>2, <1>3
  <1>5. Moved(s) \in Seq(Frames) /\ Len(Moved(s)) = Len(s)
    <2>1. DOMAIN s = 1 .. Len(s) /\ Len(s) \in Nat
      OBVIOUS
    <2>2. Moved(s) \in [1 .. Len(s) -> Frames]
      BY <1>3, <1>4, <2>1 DEF Moved
    <2> QED BY <2>1, <2>2
  <1>6. \A h : Users(Moved(s), h) = Users(s, h)
    BY <1>3, <1>4 DEF Users
  <1> QED BY <1>3, <1>4, <1>5, <1>6

(* The rest of a text that is not at its end. *)
LEMMA TextFacts ==
  ASSUME NEW t \in Seq(Statement) \ {<<>>}
  PROVE  /\ Len(t) \in Nat \ {0} /\ 1 \in DOMAIN t /\ Head(t) = t[1]
         /\ Head(t) \in Statement
         /\ Head(t).malformed \in BOOLEAN /\ Head(t).rows \in Nat
         /\ Head(t).code \in {"ok", "error"}
         /\ Head(t).params \in Seq({"a", "?"}) /\ Len(Head(t).params) \in Nat
         /\ Tail(t) \in Seq(Statement) /\ Len(Tail(t)) = Len(t) - 1
         /\ \A k \in DOMAIN Tail(t) : Tail(t)[k] = t[k + 1]
         /\ Len(t) > 1 => Tail(t) \in Seq(Statement) \ {<<>>}
  <1>1. /\ Len(t) \in Nat \ {0} /\ 1 \in DOMAIN t /\ Head(t) = t[1]
        /\ Head(t) \in Statement
        /\ Tail(t) \in Seq(Statement) /\ Len(Tail(t)) = Len(t) - 1
        /\ \A k \in DOMAIN Tail(t) : Tail(t)[k] = t[k + 1]
    OBVIOUS
  <1>2. Len(t) > 1 => Tail(t) # <<>>
    <2>1. PICK u \in Seq(Statement) : u = Tail(t)
      BY <1>1
    <2>2. u = <<>> => Len(u) = 0
      OBVIOUS
    <2> QED BY <1>1, <2>1, <2>2
  <1>3. ASSUME NEW c \in Statement
        PROVE  /\ c.malformed \in BOOLEAN /\ c.rows \in Nat
               /\ c.code \in {"ok", "error"} /\ c.params \in Seq({"a", "?"})
    BY DEF Statement
  <1>4. Len(Head(t).params) \in Nat
    BY <1>1, <1>3
  <1> QED BY <1>1, <1>2, <1>3, <1>4

(* The fields of a call in progress. *)
LEMMA FrameFields ==
  ASSUME NEW c \in Frames
  PROVE  /\ c.call \in Calls /\ c.tail \in Seq(Statement) \ {<<>>}
         /\ c.bindings \in Named \union Seq(Values)
         /\ c.at \in {"prepare", "bind", "step"}
         /\ c.on \in Handles \union {NoHandle} /\ c.left \in Nat
         /\ c.nested \in BOOLEAN /\ c.moved \in BOOLEAN
         /\ c.call.named \in BOOLEAN
         /\ c.call.text \in Seq(Statement) \ {<<>>}
         /\ c.call.bindings \in
              IF c.call.named THEN Named ELSE Seq(Values)
  <1>1. /\ c.call \in Calls /\ c.tail \in Seq(Statement) \ {<<>>}
        /\ c.bindings \in Named \union Seq(Values)
        /\ c.at \in {"prepare", "bind", "step"}
        /\ c.on \in Handles \union {NoHandle} /\ c.left \in Nat
        /\ c.nested \in BOOLEAN /\ c.moved \in BOOLEAN
    BY DEF Frames
  <1> QED BY <1>1, CallsAssumption

(* The innermost call. *)
LEMMA TopFacts ==
  ASSUME ShapeInv, stack # <<>>
  PROVE  /\ Top \in Frames /\ FrameFits(Top) /\ stack \in Seq(Frames)
         /\ Len(stack) \in Nat \ {0} /\ 1 \in DOMAIN stack
  BY DEF ShapeInv, Top

(* MaxDepth bounds the stack. *)
LEMMA DepthFacts ==
  ASSUME TypeOK, ShapeInv
  PROVE  Len(stack) \in Nat /\ MaxDepth \in Nat /\ Len(stack) <= MaxDepth
  <1>1. stack \in Seq(Frames)
    BY DEF ShapeInv
  <1>2. Len(stack) <= MaxDepth
    BY DEF TypeOK
  <1>3. Len(stack) \in Nat
    BY <1>1
  <1> QED BY <1>2, <1>3, MaxDepthAssumption

(* What the innermost call becomes at each of its steps. *)
AsPrepared(c, h) ==
  [c EXCEPT !.at = "bind", !.on = h, !.left = Head(c.tail).rows]
AsBound(c) ==
  [c EXCEPT !.at = "step",
            !.bindings = Rest(c.call.named, c.bindings,
                              Len(Head(c.tail).params))]
AsRowTaken(c) == [c EXCEPT !.left = @ - 1]
AsNext(c) == [c EXCEPT !.at = "prepare", !.on = NoHandle, !.tail = Tail(@)]

(* prepare_statement() has prepared its statement. *)
LEMMA PreparedFrame ==
  ASSUME NEW c \in Frames, NEW h \in Handles, NEW e, e = AsPrepared(c, h),
         FrameFits(c), ~Head(c.tail).malformed
  PROVE  /\ e \in Frames /\ FrameFits(e) /\ e.at = "bind" /\ e.on = h
         /\ e.left = Head(c.tail).rows
         /\ e.call = c.call /\ e.tail = c.tail /\ e.bindings = c.bindings
         /\ e.nested = c.nested /\ e.moved = c.moved
  <1>1. Head(c.tail).rows \in Nat
    BY FrameFields, TextFacts
  <1>2. /\ e \in Frames /\ e.at = "bind" /\ e.on = h
        /\ e.left = Head(c.tail).rows
        /\ e.call = c.call /\ e.tail = c.tail /\ e.bindings = c.bindings
        /\ e.nested = c.nested /\ e.moved = c.moved
    BY <1>1 DEF Frames, AsPrepared
  <1> QED BY <1>1, <1>2, NoHandleAssumption DEF FrameFits

(* bind_parameter() has taken the bindings. *)
LEMMA BoundFrame ==
  ASSUME NEW c \in Frames, NEW e, e = AsBound(c), FrameFits(c), c.at = "bind"
  PROVE  /\ e \in Frames /\ FrameFits(e) /\ e.at = "step" /\ e.on = c.on
         /\ e.left = c.left /\ e.call = c.call /\ e.tail = c.tail
         /\ e.bindings = Rest(c.call.named, c.bindings,
                              Len(Head(c.tail).params))
         /\ e.nested = c.nested /\ e.moved = c.moved
  <1>1. PICK n : n = Len(Head(c.tail).params)
    OBVIOUS
  <1>2. PICK b : b = Rest(c.call.named, c.bindings, n)
    OBVIOUS
  <1>3. n \in Nat /\ c.call.named \in BOOLEAN
    BY <1>1, FrameFields, TextFacts
  <1>4. b \in IF c.call.named THEN Named ELSE Seq(Values)
    <2>1. CASE c.call.named
      BY <1>2, <2>1 DEF Rest, FrameFits
    <2>2. CASE ~c.call.named
      <3>1. c.bindings \in Seq(Values)
        BY <2>2 DEF FrameFits
      <3>2. SubSeq(c.bindings, n + 1, Len(c.bindings)) \in Seq(Values)
        BY <1>3, <3>1
      <3> QED BY <1>2, <2>2, <3>2 DEF Rest
    <2> QED BY <1>3, <2>1, <2>2
  <1>5. b \in Named \union Seq(Values)
    BY <1>3, <1>4
  <1>6. e = [c EXCEPT !.at = "step", !.bindings = b]
    BY <1>1, <1>2 DEF AsBound
  <1>7. /\ e \in Frames /\ e.at = "step" /\ e.on = c.on
        /\ e.left = c.left /\ e.call = c.call /\ e.tail = c.tail
        /\ e.bindings = b /\ e.nested = c.nested /\ e.moved = c.moved
    BY <1>5, <1>6 DEF Frames
  <1> QED BY <1>1, <1>2, <1>4, <1>7 DEF FrameFits

(* It has taken a row. *)
LEMMA RowFrame ==
  ASSUME NEW c \in Frames, NEW e, e = AsRowTaken(c), FrameFits(c), c.left > 0
  PROVE  /\ e \in Frames /\ FrameFits(e) /\ e.at = c.at /\ e.on = c.on
         /\ e.left = c.left - 1 /\ e.call = c.call /\ e.tail = c.tail
         /\ e.bindings = c.bindings
         /\ e.nested = c.nested /\ e.moved = c.moved
  <1>1. c.left \in Nat /\ c.left - 1 \in Nat
    BY FrameFields
  <1>2. /\ e \in Frames /\ e.at = c.at /\ e.on = c.on
        /\ e.left = c.left - 1 /\ e.call = c.call /\ e.tail = c.tail
        /\ e.bindings = c.bindings
        /\ e.nested = c.nested /\ e.moved = c.moved
    BY <1>1 DEF Frames, AsRowTaken
  <1>3. Head(c.tail).rows \in Nat
    BY FrameFields, TextFacts
  <1> QED BY <1>1, <1>2, <1>3 DEF FrameFits

(* What is left of the text is a call of its own. *)
LEMMA NextFrame ==
  ASSUME NEW c \in Frames, NEW e, e = AsNext(c), FrameFits(c), c.left = 0,
         Len(c.tail) > 1
  PROVE  /\ e \in Frames /\ FrameFits(e) /\ e.at = "prepare"
         /\ e.on = NoHandle /\ e.left = 0 /\ e.call = c.call
         /\ e.tail = Tail(c.tail) /\ e.bindings = c.bindings
         /\ e.nested = c.nested /\ e.moved = c.moved
  <1>1. PICK t : t = Tail(c.tail)
    OBVIOUS
  <1>2. t \in Seq(Statement) \ {<<>>} /\ Head(t).rows \in Nat
    BY <1>1, FrameFields, TextFacts
  <1>3. e = [c EXCEPT !.at = "prepare", !.on = NoHandle, !.tail = t]
    BY <1>1 DEF AsNext
  <1>4. /\ e \in Frames /\ e.at = "prepare"
        /\ e.on = NoHandle /\ e.left = 0 /\ e.call = c.call
        /\ e.tail = t /\ e.bindings = c.bindings
        /\ e.nested = c.nested /\ e.moved = c.moved
    BY <1>2, <1>3 DEF Frames
  <1> QED BY <1>1, <1>2, <1>4 DEF FrameFits

-----------------------------------------------------------------------------
(* No statement leaks. *)

(* The innermost call goes on. *)
LEMMA ReplaceKeeps ==
  ASSUME ShapeInv, stack # <<>>, NEW e \in Frames, FrameFits(e), Replace(e)
  PROVE  /\ ShapeInv' /\ stack' # <<>> /\ Top' = e /\ Len(stack') = Len(stack)
         /\ DOMAIN stack' = DOMAIN stack
         /\ \A i \in DOMAIN stack : i > 1 => stack'[i] = stack[i]
         /\ \A h : Below(stack', h) = Below(stack, h)
         /\ \A h : Cardinality(Users(stack', h)) =
                     IF e.on = h THEN Cardinality(Below(stack, h)) + 1
                                 ELSE Cardinality(Below(stack, h))
         /\ e.on = Top.on => \A h : Cardinality(Users(stack', h)) =
                                     Cardinality(Users(stack, h))
  <1>0. stack \in Seq(Frames)
    BY DEF ShapeInv
  <1>1. PICK t : t = <<e>> \o Tail(stack) /\ t = stack'
    BY DEF Replace
  <1>2. /\ t \in Seq(Frames) /\ t # <<>> /\ Len(t) = Len(stack)
        /\ DOMAIN t = DOMAIN stack /\ t[1] = e
        /\ \A i \in DOMAIN stack : i > 1 => t[i] = stack[i]
    <2> HIDE DEF Frames
    <2>1. /\ <<e>> \o Tail(stack) \in Seq(Frames)
          /\ <<e>> \o Tail(stack) # <<>>
          /\ Len(<<e>> \o Tail(stack)) = Len(stack)
          /\ DOMAIN (<<e>> \o Tail(stack)) = DOMAIN stack
          /\ (<<e>> \o Tail(stack))[1] = e
          /\ \A i \in DOMAIN stack : i > 1 =>
               (<<e>> \o Tail(stack))[i] = stack[i]
      BY <1>0, ReplaceFacts
    <2> QED BY <1>1, <2>1, Zenon
  <1>3. \A i \in DOMAIN stack : i = 1 \/ i > 1
    BY <1>0
  <1>4. ShapeInv'
    <2>1. \A i \in DOMAIN t :
            FrameFits(t[i]) /\ (i > 1 => t[i].at = "step" /\ t[i].nested)
      BY <1>2, <1>3 DEF ShapeInv
    <2> QED BY <1>1, <1>2, <2>1 DEF ShapeInv
  <1>5. \A h : Below(t, h) = Below(stack, h)
    BY <1>0, <1>2, BelowSame
  <1>6. \A h : Cardinality(Users(t, h)) =
                 IF e.on = h THEN Cardinality(Below(stack, h)) + 1
                             ELSE Cardinality(Below(stack, h))
    BY <1>2, <1>5, UsersSplit
  <1>7. \A h : Cardinality(Users(stack, h)) =
                 IF Top.on = h THEN Cardinality(Below(stack, h)) + 1
                               ELSE Cardinality(Below(stack, h))
    BY <1>0, UsersSplit DEF Top
  <1> QED BY <1>1, <1>2, <1>4, <1>5, <1>6, <1>7 DEF Top

(* The innermost call ends: the one it was nested in goes on stepping. *)
LEMMA ReturnKeeps ==
  ASSUME ShapeInv, stack # <<>>, NEW v, Return(v)
  PROVE  /\ ShapeInv' /\ stack' \in Seq(Frames) /\ stack' = Tail(stack)
         /\ Len(stack) = Len(stack') + 1 /\ Len(stack') \in Nat
         /\ \A i \in DOMAIN stack' : /\ i + 1 \in DOMAIN stack
                                      /\ stack'[i] = stack[i + 1]
         /\ \A i \in DOMAIN stack' : stack'[i].at = "step" /\ stack'[i].nested
         /\ ~At("bind")'
         /\ returned' \in {"true", "false"}
         /\ \A h : Cardinality(Users(stack', h)) = Cardinality(Below(stack, h))
  <1>0. stack \in Seq(Frames)
    BY DEF ShapeInv
  <1>1. PICK t : t = Tail(stack) /\ t = stack'
    BY DEF Return
  <1>2. /\ t \in Seq(Frames) /\ Len(stack) = Len(t) + 1
        /\ \A i \in DOMAIN t : /\ i + 1 \in DOMAIN stack /\ i + 1 > 1
                              /\ stack[i + 1] = t[i]
        /\ \A h : Cardinality(Users(t, h)) = Cardinality(Below(stack, h))
    <2>1. /\ Tail(stack) \in Seq(Frames)
          /\ Len(stack) = Len(Tail(stack)) + 1
          /\ \A i \in DOMAIN Tail(stack) : /\ i + 1 \in DOMAIN stack
                                           /\ i + 1 > 1
                                           /\ stack[i + 1] = Tail(stack)[i]
          /\ \A h : Cardinality(Users(Tail(stack), h)) =
                     Cardinality(Below(stack, h))
      BY <1>0, ReturnFacts
    <2> QED BY <1>1, <2>1, Zenon
  <1>3. \A i \in DOMAIN t :
          FrameFits(t[i]) /\ t[i].at = "step" /\ t[i].nested
    <2> TAKE i \in DOMAIN t
    <2>1. PICK j \in DOMAIN stack : j = i + 1 /\ j > 1 /\ stack[j] = t[i]
      BY <1>2
    <2> QED BY <2>1 DEF ShapeInv
  <1>4. ShapeInv'
    BY <1>1, <1>2, <1>3 DEF ShapeInv
  <1>5. t # <<>> => 1 \in DOMAIN t
    BY <1>2
  <1>6. ~At("bind")'
    BY <1>1, <1>3, <1>5 DEF At, Top
  <1>7. returned' \in {"true", "false"}
    BY DEF Return
  <1>8. Len(t) \in Nat
    BY <1>2
  <1> QED BY <1>1, <1>2, <1>3, <1>4, <1>6, <1>7, <1>8

(* What is left to show of a step. *)
LEMMA PipeInvFromParts ==
  ASSUME db' \in Handles \union {NoHandle},
         openState' \in [Handles -> {"none", "open", "sick", "zombie"}],
         errCode' \in [Handles -> Codes], statements' \in [Handles -> Nat],
         Len(stack') <= MaxDepth, query_result' \in Seq(Rows),
         error_message' \in Codes \union {""},
         returned' \in {"none", "true", "false"},
         ShapeInv', StatementsInv', PreparedInv'
  PROVE  PipeInv'
  <1>1. PICK s \in Seq(Frames) :
               s = stack' /\ \A i \in DOMAIN s : FrameFits(s[i])
    BY DEF ShapeInv
  <1>2. \A i \in DOMAIN s : s[i] \in Frames
    BY CallsAreFrames
  <1>3. ASSUME NEW c \in Frames, FrameFits(c)
        PROVE  FrameOK(c)
    BY <1>3, FrameFields DEF FrameOK, FrameFits
  <1>4. \A i \in DOMAIN stack' : FrameOK(stack'[i])
    BY <1>1, <1>2, <1>3
  <1> QED BY <1>4 DEF PipeInv, TypeOK

(* sqlite3_finalize() of the innermost call's statement, which the call then
   no longer has. *)
LEMMA FinalizeKeeps ==
  ASSUME TypeOK, ShapeInv, StatementsInv, stack # <<>>, Top.on \in Handles,
         NEW code \in {"ok", "error"}, Finalize(Top.on, code), db' = db,
         \A k \in Handles : Cardinality(Users(stack', k)) =
                              Cardinality(Below(stack, k))
  PROVE  /\ StatementsInv'
         /\ openState' \in [Handles -> {"none", "open", "sick", "zombie"}]
         /\ errCode' \in [Handles -> Codes]
         /\ statements' \in [Handles -> Nat]
         /\ errCode'[Top.on] = code
         /\ \A k \in Handles : openState[k] = "open" <=> openState'[k] = "open"
  <1>1. PICK h \in Handles : h = Top.on
    OBVIOUS
  <1>2. /\ statements' = [statements EXCEPT ![h] = statements[h] - 1]
        /\ errCode' = [errCode EXCEPT ![h] = code]
        /\ openState' = [openState EXCEPT ![h] =
             IF openState[h] = "zombie" /\ statements[h] = 1
             THEN "none" ELSE openState[h]]
    BY <1>1 DEF Finalize
  <1>3. /\ openState \in [Handles -> {"none", "open", "sick", "zombie"}]
        /\ errCode \in [Handles -> Codes] /\ statements \in [Handles -> Nat]
    BY DEF TypeOK
  <1>4. \A k \in Handles :
          /\ Cardinality(Below(stack, k)) \in Nat
          /\ statements[k] = IF k = h THEN Cardinality(Below(stack, k)) + 1
                             ELSE Cardinality(Below(stack, k))
    BY <1>1, UsersSplit, UsersAreFinite DEF StatementsInv, ShapeInv, Top
  <1>5. code \in Codes
    BY DEF Codes
  <1>6. /\ openState' \in [Handles -> {"none", "open", "sick", "zombie"}]
        /\ errCode' \in [Handles -> Codes]
        /\ statements' \in [Handles -> Nat] /\ errCode'[h] = code
    BY <1>2, <1>3, <1>4, <1>5
  <1>7. ASSUME NEW k \in Handles
        PROVE  /\ statements'[k] = Cardinality(Users(stack', k))
               /\ openState'[k] = "zombie" => statements'[k] > 0
               /\ openState'[k] \in {"none", "sick"} => statements'[k] = 0
               /\ (openState'[k] \in {"open", "sick"}) <=> (k = db')
               /\ openState'[k] = "sick" => errCode'[k] = "cantopen"
               /\ openState[k] = "open" <=> openState'[k] = "open"
    <2>1. CASE k = h
      <3>1. /\ statements'[h] = statements[h] - 1
            /\ openState'[h] = IF openState[h] = "zombie" /\ statements[h] = 1
                               THEN "none" ELSE openState[h]
        BY <1>2, <1>3
      <3>2. statements[h] > 0 /\ statements[h] \in Nat
        BY <1>4
      <3>3. openState[h] \in {"open", "zombie"}
        BY <1>3, <3>2 DEF StatementsInv
      <3> QED BY <1>3, <1>4, <2>1, <3>1, <3>2, <3>3 DEF StatementsInv
    <2>2. CASE k # h
      <3>1. /\ statements'[k] = statements[k] /\ openState'[k] = openState[k]
            /\ errCode'[k] = errCode[k]
        BY <1>2, <1>3, <2>2
      <3> QED BY <1>4, <2>2, <3>1 DEF StatementsInv
    <2> QED BY <2>1, <2>2
  <1>8. StatementsInv'
    BY <1>7 DEF StatementsInv
  <1> QED BY <1>1, <1>6, <1>7, <1>8

(* Before open_db(), and at every step of the caller's code and of the calls. *)
LEMMA PipeInvStart ==
  ASSUME Init
  PROVE  PipeInv
  <1>1. stack = <<>> /\ Len(stack) = 0 /\ stack \in Seq(Frames)
    <2>1. stack = <<>>
      BY DEF Init
    <2>2. Len(<<>>) = 0 /\ <<>> \in Seq(Frames)
      OBVIOUS
    <2> QED BY <2>1, <2>2
  <1>2. query_result \in Seq(Rows)
    <2>1. query_result = <<>>
      BY DEF Init
    <2>2. <<>> \in Seq(Rows)
      OBVIOUS
    <2> QED BY <2>1, <2>2
  <1>3. TypeOK
    <2>1. DOMAIN stack = {} /\ Len(stack) <= MaxDepth
      BY <1>1, MaxDepthAssumption
    <2>2. \A i \in DOMAIN stack : FrameOK(stack[i])
      BY <2>1
    <2>3. /\ db \in Handles \union {NoHandle}
          /\ openState \in [Handles -> {"none", "open", "sick", "zombie"}]
          /\ errCode \in [Handles -> Codes] /\ statements \in [Handles -> Nat]
          /\ error_message \in Codes \union {""}
          /\ returned \in {"none", "true", "false"}
      BY DEF Init, Codes
    <2> QED BY <1>2, <2>1, <2>2, <2>3 DEF TypeOK
  <1>4. ShapeInv
    BY <1>1 DEF ShapeInv
  <1>5. \A h : Users(stack, h) = {}
    BY <1>1 DEF Users
  <1>6. StatementsInv
    BY <1>5, FS_EmptySet, NoHandleAssumption DEF Init, StatementsInv
  <1>7. PreparedInv
    BY <1>1 DEF PreparedInv, At
  <1> QED BY <1>3, <1>4, <1>6, <1>7 DEF PipeInv

(* open_db(): the new connection has no statements. *)
LEMMA OpenKeeps ==
  ASSUME PipeInv, open_db
  PROVE  PipeInv'
  <1>1. TypeOK /\ ShapeInv /\ StatementsInv
    BY DEF PipeInv
  <1>2. PICK h \in Handles :
          /\ openState[h] = "none" /\ db' = h
          /\ \/ /\ openState' = [openState EXCEPT ![h] = "open"]
                /\ errCode' = [errCode EXCEPT ![h] = "ok"]
             \/ /\ openState' = [openState EXCEPT ![h] = "sick"]
                /\ errCode' = [errCode EXCEPT ![h] = "cantopen"]
    BY DEF open_db
  <1>3. /\ db = NoHandle /\ statements' = statements /\ stack' = stack
        /\ query_result' = query_result /\ error_message' = error_message
        /\ returned' = returned
    BY DEF open_db
  <1>4. /\ openState' \in [Handles -> {"none", "open", "sick", "zombie"}]
        /\ errCode' \in [Handles -> Codes]
    BY <1>1, <1>2 DEF TypeOK, Codes
  <1>5. StatementsInv'
    <2>1. ASSUME NEW k \in Handles
          PROVE  /\ statements[k] = Cardinality(Users(stack, k))
                 /\ openState'[k] = "zombie" => statements[k] > 0
                 /\ openState'[k] \in {"none", "sick"} => statements[k] = 0
                 /\ (openState'[k] \in {"open", "sick"}) <=> (k = h)
                 /\ openState'[k] = "sick" => errCode'[k] = "cantopen"
      <3>1. CASE k = h
        BY <1>1, <1>2, <3>1 DEF StatementsInv, TypeOK
      <3>2. CASE k # h
        <4>1. openState'[k] = openState[k] /\ errCode'[k] = errCode[k]
          BY <1>1, <1>2, <3>2 DEF TypeOK
        <4> QED BY <1>1, <1>3, <3>2, <4>1, NoHandleAssumption
                DEF StatementsInv
      <3> QED BY <3>1, <3>2
    <2> QED BY <1>2, <1>3, <2>1 DEF StatementsInv
  <1>6. ShapeInv'
    BY <1>1, <1>3 DEF ShapeInv
  <1>7. PreparedInv'
    BY <1>3 DEF PreparedInv, open_db, CallerRuns, At, Top
  <1> QED BY <1>1, <1>2, <1>3, <1>4, <1>5, <1>6, <1>7, PipeInvFromParts
          DEF TypeOK

(* close_db(): the connection is freed, or a zombie while it has statements. *)
LEMMA CloseKeeps ==
  ASSUME PipeInv, close_db
  PROVE  PipeInv'
  <1>1. TypeOK /\ ShapeInv /\ StatementsInv /\ stack \in Seq(Frames)
    BY DEF PipeInv, ShapeInv
  <1>2. PICK h \in Handles : h = db
    BY <1>1 DEF close_db, TypeOK
  <1>3. /\ openState' = [openState EXCEPT ![h] =
             IF statements[h] = 0 THEN "none" ELSE "zombie"]
        /\ db' = NoHandle /\ errCode' = errCode /\ statements' = statements
        /\ query_result' = query_result /\ error_message' = error_message
        /\ returned' = returned
    BY <1>2 DEF close_db
  <1>4. PICK t : t = Moved(stack) /\ t = stack'
    BY DEF close_db
  <1>5. /\ t \in Seq(Frames) /\ Len(t) = Len(stack)
        /\ DOMAIN t = DOMAIN stack
        /\ \A i \in DOMAIN stack :
             /\ t[i].at = stack[i].at /\ t[i].on = stack[i].on
             /\ t[i].tail = stack[i].tail /\ t[i].left = stack[i].left
             /\ t[i].call = stack[i].call /\ t[i].bindings = stack[i].bindings
             /\ t[i].nested = stack[i].nested
        /\ \A k : Users(t, k) = Users(stack, k)
    <2>1. /\ Moved(stack) \in Seq(Frames) /\ Len(Moved(stack)) = Len(stack)
          /\ DOMAIN Moved(stack) = DOMAIN stack
          /\ \A i \in DOMAIN stack :
               /\ Moved(stack)[i].moved /\ Moved(stack)[i].at = stack[i].at
               /\ Moved(stack)[i].on = stack[i].on
               /\ Moved(stack)[i].tail = stack[i].tail
               /\ Moved(stack)[i].left = stack[i].left
               /\ Moved(stack)[i].call = stack[i].call
               /\ Moved(stack)[i].bindings = stack[i].bindings
               /\ Moved(stack)[i].nested = stack[i].nested
          /\ \A k : Users(Moved(stack), k) = Users(stack, k)
      BY <1>1, MovedFacts
    <2> QED BY <1>4, <2>1, Zenon
  <1>6. openState' \in [Handles -> {"none", "open", "sick", "zombie"}]
    BY <1>1, <1>3 DEF TypeOK
  <1>7. StatementsInv'
    <2>1. ASSUME NEW k \in Handles
          PROVE  /\ statements[k] = Cardinality(Users(t, k))
                 /\ openState'[k] = "zombie" => statements[k] > 0
                 /\ openState'[k] \in {"none", "sick"} => statements[k] = 0
                 /\ (openState'[k] \in {"open", "sick"}) <=> (k = NoHandle)
                 /\ openState'[k] = "sick" => errCode[k] = "cantopen"
      <3>1. statements[k] = Cardinality(Users(t, k)) /\ statements[k] \in Nat
        BY <1>1, <1>5 DEF StatementsInv, TypeOK
      <3>2. CASE k = h
        <4>1. openState'[k] = IF statements[k] = 0 THEN "none" ELSE "zombie"
          BY <1>1, <1>3, <3>2 DEF TypeOK
        <4> QED BY <3>1, <4>1, NoHandleAssumption
      <3>3. CASE k # h
        <4>1. openState'[k] = openState[k]
          BY <1>1, <1>3, <3>3 DEF TypeOK
        <4> QED BY <1>1, <1>2, <3>1, <3>3, <4>1, NoHandleAssumption
                DEF StatementsInv
      <3> QED BY <3>2, <3>3
    <2> QED BY <1>3, <1>4, <2>1 DEF StatementsInv
  <1>8. ShapeInv'
    <2>1. \A i \in DOMAIN t :
            FrameFits(t[i]) /\ (i > 1 => t[i].at = "step" /\ t[i].nested)
      BY <1>1, <1>5 DEF ShapeInv, FrameFits
    <2> QED BY <1>4, <1>5, <2>1 DEF ShapeInv
  <1>9. PreparedInv'
    <2>1. stack = <<>> \/ (stack # <<>> /\ stack[1].at = "step")
      BY DEF close_db, CallerRuns, At, Top
    <2>2. t # <<>> => 1 \in DOMAIN stack /\ stack # <<>>
      BY <1>1, <1>5
    <2>3. ~(t # <<>> /\ t[1].at = "bind")
      BY <1>5, <2>1, <2>2
    <2> QED BY <1>4, <2>3 DEF PreparedInv, At, Top
  <1>10. Len(stack') <= MaxDepth
    BY <1>1, <1>4, <1>5 DEF TypeOK
  <1> QED BY <1>1, <1>2, <1>3, <1>6, <1>7, <1>8, <1>9, <1>10, PipeInvFromParts
          DEF TypeOK

(* A call begins, without a statement. *)
LEMMA CallKeeps ==
  ASSUME PipeInv, query_with_bindings
  PROVE  PipeInv'
  <1>1. TypeOK /\ ShapeInv /\ StatementsInv /\ stack \in Seq(Frames)
    BY DEF PipeInv, ShapeInv
  <1>0. PICK call \in Calls :
           stack' = <<[call |-> call, tail |-> call.text, bindings |-> call.bindings,
                       at |-> "prepare", on |-> NoHandle, left |-> 0,
                       nested |-> FALSE, moved |-> db = NoHandle]>> \o Nested(stack)
    BY DEF query_with_bindings, Nested
  <1>2. PICK e :
          /\ e = [call |-> call, tail |-> call.text, bindings |-> call.bindings,
                  at |-> "prepare", on |-> NoHandle, left |-> 0,
                  nested |-> FALSE, moved |-> db = NoHandle]
          /\ stack' = <<e>> \o Nested(stack)
    BY <1>0
  <1>3. /\ call.text \in Seq(Statement) \ {<<>>} /\ call.named \in BOOLEAN
        /\ call.bindings \in IF call.named THEN Named ELSE Seq(Values)
    BY CallsAssumption
  <1>4. e \in Frames /\ e.at = "prepare" /\ e.on = NoHandle
    BY <1>2, <1>3 DEF Frames
  <1>5. FrameFits(e)
    <2>1. Head(call.text).rows \in Nat
      BY <1>3, TextFacts
    <2> QED BY <1>2, <1>3, <2>1 DEF FrameFits
  <1>6. PICK t :
          /\ t = <<e>> \o Nested(stack)
          /\ t = stack'
    BY <1>2
  <1>7. IsNested(stack, e, t)
    <2>1. stack \in Seq(Frames) /\ e \in Frames
      BY <1>1, <1>4
    <2>2. t = <<e>> \o Nested(stack)
      BY <1>6
    <2> QED BY <2>1, <2>2, NestFacts
  <1>8. \A h \in Handles : Cardinality(Users(t, h)) =
                           Cardinality(Users(stack, h))
    BY <1>4, <1>7, UsersSplit, NoHandleAssumption DEF IsNested
  <1>9. /\ db' = db /\ openState' = openState /\ errCode' = errCode
        /\ statements' = statements /\ query_result' = query_result
        /\ error_message' = error_message /\ returned' = returned
        /\ Len(stack) < MaxDepth
    BY DEF query_with_bindings
  <1>10. StatementsInv'
    BY <1>1, <1>6, <1>8, <1>9 DEF StatementsInv
  <1>11. ShapeInv'
    <2>1. \A i \in DOMAIN stack : stack[i].at = "step"
      <3>1. stack = <<>> \/ stack[1].at = "step"
        BY DEF query_with_bindings, CallerRuns, At, Top
      <3>2. \A i \in DOMAIN stack : (i = 1 \/ i > 1) /\ stack # <<>>
        BY <1>1
      <3> QED BY <1>1, <3>1, <3>2 DEF ShapeInv
    <2>2. ASSUME NEW i \in DOMAIN t
          PROVE  FrameFits(t[i]) /\ (i > 1 => t[i].at = "step" /\ t[i].nested)
      <3>1. CASE i = 1
        BY <1>5, <1>7, <3>1 DEF IsNested
      <3>2. CASE i > 1
        <4>1. PICK j \in DOMAIN stack :
                /\ t[i].nested /\ t[i].at = stack[j].at
                /\ t[i].on = stack[j].on /\ t[i].tail = stack[j].tail
                /\ t[i].left = stack[j].left /\ t[i].call = stack[j].call
                /\ t[i].bindings = stack[j].bindings
          BY <1>7, <3>2 DEF IsNested
        <4> QED BY <1>1, <2>1, <4>1 DEF ShapeInv, FrameFits
      <3>3. i = 1 \/ i > 1
        BY <1>1, <1>7 DEF IsNested
      <3> QED BY <3>1, <3>2, <3>3
    <2> QED BY <1>6, <1>7, <2>2 DEF ShapeInv, IsNested
  <1>12. PreparedInv'
    BY <1>4, <1>6, <1>7 DEF PreparedInv, At, Top, IsNested
  <1>13. Len(stack') <= MaxDepth
    BY <1>1, <1>6, <1>7, <1>9, MaxDepthAssumption DEF IsNested
  <1> QED BY <1>1, <1>9, <1>10, <1>11, <1>12, <1>13, PipeInvFromParts
          DEF TypeOK

(* A call that cannot prepare its statement returns without one. *)
LEMMA MisuseKeeps ==
  ASSUME PipeInv, PrepareMisuse \/ PrepareFailed
  PROVE  PipeInv'
  <1>1. TypeOK /\ ShapeInv /\ StatementsInv /\ stack # <<>> /\ Top.at = "prepare"
    BY DEF PipeInv, PrepareMisuse, PrepareFailed, At
  <1>2. /\ Return(FALSE) /\ query_result' = <<>> /\ db' = db
        /\ openState' = openState /\ statements' = statements
        /\ \/ errCode' = errCode /\ error_message' = ErrorOf(db, errCode)
           \/ /\ db \in Open /\ errCode' = [errCode EXCEPT ![db] = "error"]
              /\ error_message' = "error"
    BY DEF PrepareMisuse, PrepareFailed
  <1>3. /\ ShapeInv' /\ Len(stack) = Len(stack') + 1 /\ Len(stack') \in Nat
        /\ ~At("bind")' /\ returned' \in {"true", "false"}
        /\ \A h : Cardinality(Users(stack', h)) = Cardinality(Below(stack, h))
    BY <1>1, <1>2, ReturnKeeps
  <1>4. Top.on = NoHandle /\ stack \in Seq(Frames)
    BY <1>1, TopFacts DEF FrameFits
  <1>5. \A h \in Handles : Cardinality(Users(stack', h)) =
                           Cardinality(Users(stack, h))
    BY <1>1, <1>3, <1>4, UsersSplit, NoHandleAssumption DEF Top
  <1>6. /\ errCode' \in [Handles -> Codes] /\ error_message' \in Codes
        /\ \A h \in Handles : openState[h] = "sick" => errCode'[h] = errCode[h]
    BY <1>1, <1>2 DEF TypeOK, ErrorOf, Codes, Open
  <1>7. StatementsInv'
    BY <1>1, <1>2, <1>5, <1>6 DEF StatementsInv
  <1>8. PreparedInv'
    BY <1>3 DEF PreparedInv
  <1>9. Len(stack') <= MaxDepth /\ query_result' \in Seq(Rows)
    <2>1. Len(stack) <= MaxDepth
      BY <1>1 DEF TypeOK
    <2>2. <<>> \in Seq(Rows)
      OBVIOUS
    <2> QED BY <1>2, <1>3, <2>1, <2>2, MaxDepthAssumption
  <1> QED BY <1>1, <1>2, <1>3, <1>6, <1>7, <1>8, <1>9, PipeInvFromParts
          DEF TypeOK

(* The connection gets the statement of the innermost call. *)
LEMMA PrepareKeeps ==
  ASSUME PipeInv, Prepare
  PROVE  PipeInv'
  <1>1. TypeOK /\ ShapeInv /\ StatementsInv /\ stack # <<>> /\ Top.at = "prepare"
    BY DEF PipeInv, Prepare, At
  <1>2. PICK c \in Frames : c = Top /\ FrameFits(c) /\ c.on = NoHandle
    BY <1>1, TopFacts DEF FrameFits
  <1>3. PICK h \in Handles : h = db /\ openState[h] = "open"
    BY DEF Prepare, Open
  <1>4. PICK e : e = AsPrepared(c, h)
    OBVIOUS
  <1>5. Replace(e)
    BY <1>2, <1>3, <1>4 DEF Prepare, AsPrepared
  <1>6. e \in Frames /\ FrameFits(e) /\ e.at = "bind" /\ e.on = h
    BY <1>2, <1>4, PreparedFrame DEF Prepare
  <1>7. /\ ShapeInv' /\ Top' = e /\ Len(stack') = Len(stack)
        /\ \A k : Cardinality(Users(stack', k)) =
                   IF e.on = k THEN Cardinality(Below(stack, k)) + 1
                               ELSE Cardinality(Below(stack, k))
    BY <1>1, <1>5, <1>6, ReplaceKeeps
  <1>8. \A k \in Handles :
          /\ Cardinality(Users(stack, k)) = Cardinality(Below(stack, k))
          /\ Cardinality(Below(stack, k)) \in Nat
    <2>1. stack \in Seq(Frames)
      BY <1>1, TopFacts
    <2> QED BY <1>1, <1>2, <2>1, UsersSplit, UsersAreFinite,
               NoHandleAssumption DEF Top
  <1>9. /\ query_result' = <<>> /\ errCode' = [errCode EXCEPT ![h] = "ok"]
        /\ error_message' = "ok" /\ db' = db /\ openState' = openState
        /\ statements' = [statements EXCEPT ![h] = statements[h] + 1]
        /\ returned' = returned
    BY <1>3 DEF Prepare
  <1>10. /\ errCode' \in [Handles -> Codes]
         /\ statements' \in [Handles -> Nat]
    <2>1. errCode \in [Handles -> Codes] /\ statements \in [Handles -> Nat]
      BY <1>1 DEF TypeOK
    <2> QED BY <1>9, <2>1 DEF Codes
  <1>11. StatementsInv'
    <2>1. ASSUME NEW k \in Handles
          PROVE  /\ statements'[k] = Cardinality(Users(stack', k))
                 /\ openState[k] = "zombie" => statements'[k] > 0
                 /\ openState[k] \in {"none", "sick"} => statements'[k] = 0
                 /\ (openState[k] \in {"open", "sick"}) <=> (k = db)
                 /\ openState[k] = "sick" => errCode'[k] = "cantopen"
      <3>1. CASE k = h
        <4>1. statements'[k] = statements[k] + 1 /\ openState[k] = "open"
          BY <1>1, <1>3, <1>9, <3>1 DEF TypeOK
        <4> QED BY <1>1, <1>3, <1>6, <1>7, <1>8, <3>1, <4>1
                DEF StatementsInv
      <3>2. CASE k # h
        <4>1. statements'[k] = statements[k] /\ errCode'[k] = errCode[k]
          BY <1>1, <1>9, <3>2 DEF TypeOK
        <4> QED BY <1>1, <1>6, <1>7, <1>8, <3>2, <4>1 DEF StatementsInv
      <3> QED BY <3>1, <3>2
    <2> QED BY <1>9, <2>1 DEF StatementsInv
  <1>12. PreparedInv'
    BY <1>3, <1>6, <1>7, <1>9 DEF PreparedInv, At, Open
  <1>13. query_result' \in Seq(Rows) /\ error_message' \in Codes
    <2>1. <<>> \in Seq(Rows)
      OBVIOUS
    <2> QED BY <1>9, <2>1 DEF Codes
  <1>14. Len(stack') <= MaxDepth
    BY <1>1, <1>7 DEF TypeOK
  <1> QED BY <1>1, <1>7, <1>9, <1>10, <1>11, <1>12, <1>13, <1>14,
             PipeInvFromParts DEF TypeOK

(* A statement whose bindings are refused is finalized. *)
LEMMA RefusedKeeps ==
  ASSUME PipeInv, BindRefused
  PROVE  PipeInv'
  <1>1. /\ TypeOK /\ ShapeInv /\ StatementsInv /\ stack # <<>>
        /\ Top.at = "bind" /\ Top.on \in Handles
    BY DEF PipeInv, PreparedInv, BindRefused, At, Open
  <1>2. /\ Return(FALSE) /\ query_result' = query_result /\ db' = db
        /\ error_message' = error_message /\ Finalize(Top.on, "ok")
    BY DEF BindRefused
  <1>3. /\ ShapeInv' /\ Len(stack) = Len(stack') + 1 /\ Len(stack') \in Nat
        /\ ~At("bind")' /\ returned' \in {"true", "false"}
        /\ \A h : Cardinality(Users(stack', h)) = Cardinality(Below(stack, h))
    BY <1>1, <1>2, ReturnKeeps
  <1>4. /\ StatementsInv'
        /\ openState' \in [Handles -> {"none", "open", "sick", "zombie"}]
        /\ errCode' \in [Handles -> Codes]
        /\ statements' \in [Handles -> Nat]
    BY <1>1, <1>2, <1>3, FinalizeKeeps
  <1>5. PreparedInv'
    BY <1>3 DEF PreparedInv
  <1>6. Len(stack') <= MaxDepth
    BY <1>1, <1>3, DepthFacts
  <1> QED BY <1>1, <1>2, <1>3, <1>4, <1>5, <1>6, PipeInvFromParts DEF TypeOK

(* The bindings change no statement. *)
LEMMA BindKeeps ==
  ASSUME PipeInv, Bind
  PROVE  PipeInv'
  <1>1. TypeOK /\ ShapeInv /\ StatementsInv /\ stack # <<>> /\ Top.at = "bind"
    BY DEF PipeInv, Bind, At
  <1>2. PICK c \in Frames : c = Top /\ FrameFits(c) /\ c.at = "bind"
    BY <1>1, TopFacts
  <1>3. PICK e : e = AsBound(c)
    OBVIOUS
  <1>4. Replace(e)
    BY <1>2, <1>3 DEF Bind, AsBound
  <1>5. e \in Frames /\ FrameFits(e) /\ e.at = "step" /\ e.on = c.on
    BY <1>2, <1>3, BoundFrame
  <1>6. /\ ShapeInv' /\ Top' = e /\ Len(stack') = Len(stack)
        /\ e.on = Top.on => \A k : Cardinality(Users(stack', k)) =
                                   Cardinality(Users(stack, k))
    BY <1>1, <1>4, <1>5, ReplaceKeeps
  <1>7. /\ db' = db /\ openState' = openState /\ errCode' = errCode
        /\ statements' = statements /\ query_result' = query_result
        /\ error_message' = error_message /\ returned' = returned
    BY DEF Bind
  <1>8. StatementsInv'
    BY <1>1, <1>2, <1>5, <1>6, <1>7 DEF StatementsInv
  <1>9. PreparedInv'
    BY <1>5, <1>6 DEF PreparedInv, At
  <1>10. Len(stack') <= MaxDepth
    BY <1>1, <1>6 DEF TypeOK
  <1> QED BY <1>1, <1>6, <1>7, <1>8, <1>9, <1>10, PipeInvFromParts DEF TypeOK

(* A row is taken; the statement stays. *)
LEMMA RowKeeps ==
  ASSUME PipeInv, Row
  PROVE  PipeInv'
  <1>1. TypeOK /\ ShapeInv /\ StatementsInv /\ stack # <<>> /\ Top.at = "step"
    BY DEF PipeInv, Row, At
  <1>2. PICK c \in Frames :
          c = Top /\ FrameFits(c) /\ c.at = "step" /\ c.left > 0
    BY <1>1, TopFacts DEF Row
  <1>3. PICK e : e = AsRowTaken(c)
    OBVIOUS
  <1>4. Replace(e)
    BY <1>2, <1>3 DEF Row, AsRowTaken
  <1>5. e \in Frames /\ FrameFits(e) /\ e.at = "step" /\ e.on = c.on
    BY <1>2, <1>3, RowFrame
  <1>6. /\ ShapeInv' /\ Top' = e /\ Len(stack') = Len(stack)
        /\ e.on = Top.on => \A k : Cardinality(Users(stack', k)) =
                                   Cardinality(Users(stack, k))
    BY <1>1, <1>4, <1>5, ReplaceKeeps
  <1>7. /\ db' = db /\ openState' = openState /\ errCode' = errCode
        /\ statements' = statements
        /\ query_result' = Append(query_result,
                             [level |-> Len(stack),
                              row |-> Head(c.tail).rows - c.left + 1])
        /\ error_message' = error_message /\ returned' = returned
    BY <1>2 DEF Row
  <1>8. query_result' \in Seq(Rows)
    <2>1. Head(c.tail).rows \in Nat /\ c.left \in Nat
      BY FrameFields, TextFacts
    <2>2. Head(c.tail).rows - c.left + 1 \in Nat
      BY <1>2, <2>1 DEF FrameFits
    <2>3. Len(stack) \in 1 .. MaxDepth
      <3>1. Len(stack) \in Nat \ {0}
        BY <1>1, TopFacts
      <3> QED BY <1>1, <3>1, DepthFacts
    <2>4. PICK r \in Rows : r = [level |-> Len(stack),
                                row |-> Head(c.tail).rows - c.left + 1]
      BY <2>2, <2>3 DEF Rows
    <2>5. query_result \in Seq(Rows) /\ query_result' = Append(query_result, r)
      BY <1>1, <1>7, <2>4 DEF TypeOK
    <2> QED BY <2>5
  <1>9. StatementsInv'
    BY <1>1, <1>2, <1>5, <1>6, <1>7 DEF StatementsInv
  <1>10. PreparedInv'
    BY <1>5, <1>6 DEF PreparedInv, At
  <1>11. Len(stack') <= MaxDepth
    BY <1>1, <1>6 DEF TypeOK
  <1> QED BY <1>1, <1>6, <1>7, <1>8, <1>9, <1>10, <1>11, PipeInvFromParts
          DEF TypeOK

(* A statement that ends is finalized, and a zombie with its last one freed. *)
LEMMA CompleteKeeps ==
  ASSUME PipeInv, Complete
  PROVE  PipeInv'
  <1>1. TypeOK /\ ShapeInv /\ StatementsInv /\ stack # <<>> /\ Top.at = "step"
    BY DEF PipeInv, Complete, At
  <1>2. PICK c \in Frames :
          /\ c = Top /\ FrameFits(c) /\ c.at = "step" /\ c.left = 0
          /\ c.on \in Handles
    <2>1. Top \in Frames /\ FrameFits(Top) /\ Top.left = 0
      BY <1>1, TopFacts DEF Complete
    <2>2. Top.on \in Handles
      BY <1>1, <2>1, FrameFields DEF FrameFits
    <2> QED BY <1>1, <2>1, <2>2
  <1>3. PICK code \in {"ok", "error"} : code = Head(c.tail).code
    BY FrameFields, TextFacts
  <1>4. /\ Finalize(c.on, code) /\ db' = db /\ query_result' = query_result
        /\ error_message' = ErrorOf(db, errCode')
        /\ \/ /\ error_message' = "ok" /\ Len(c.tail) > 1
              /\ Replace(AsNext(c)) /\ returned' = returned
           \/ Return(error_message' = "ok")
    BY <1>2, <1>3 DEF Complete, AsNext
  <1>5. /\ ShapeInv' /\ ~At("bind")' /\ Len(stack') <= Len(stack)
        /\ returned' \in {"none", "true", "false"}
        /\ \A h \in Handles : Cardinality(Users(stack', h)) =
                              Cardinality(Below(stack, h))
    <2>1. CASE /\ error_message' = "ok" /\ Len(c.tail) > 1
               /\ Replace(AsNext(c)) /\ returned' = returned
      <3>1. PICK e : e = AsNext(c)
        OBVIOUS
      <3>2. e \in Frames /\ FrameFits(e) /\ e.at = "prepare" /\ e.on = NoHandle
        BY <1>2, <2>1, <3>1, NextFrame
      <3>3. /\ ShapeInv' /\ Top' = e /\ Len(stack') = Len(stack)
            /\ \A k : Cardinality(Users(stack', k)) =
                       IF e.on = k THEN Cardinality(Below(stack, k)) + 1
                                   ELSE Cardinality(Below(stack, k))
        BY <1>1, <2>1, <3>1, <3>2, ReplaceKeeps
      <3>4. Len(stack) \in Nat
        BY <1>1, TopFacts
      <3>5. ~At("bind")'
        BY <3>2, <3>3 DEF At
      <3>6. returned' \in {"none", "true", "false"}
        BY <1>1, <2>1 DEF TypeOK
      <3> QED BY <3>2, <3>3, <3>4, <3>5, <3>6, NoHandleAssumption
    <2>2. CASE Return(error_message' = "ok")
      <3>1. /\ ShapeInv' /\ Len(stack) = Len(stack') + 1 /\ Len(stack') \in Nat
            /\ ~At("bind")' /\ returned' \in {"true", "false"}
            /\ \A h : Cardinality(Users(stack', h)) =
                       Cardinality(Below(stack, h))
        BY <1>1, <2>2, ReturnKeeps
      <3> QED BY <3>1
    <2> QED BY <1>4, <2>1, <2>2
  <1>6. /\ StatementsInv'
        /\ openState' \in [Handles -> {"none", "open", "sick", "zombie"}]
        /\ errCode' \in [Handles -> Codes]
        /\ statements' \in [Handles -> Nat]
    BY <1>1, <1>2, <1>4, <1>5, FinalizeKeeps
  <1>7. error_message' \in Codes
    BY <1>1, <1>4, <1>6 DEF ErrorOf, TypeOK, Codes
  <1>8. PreparedInv'
    BY <1>5 DEF PreparedInv
  <1>9. Len(stack') <= MaxDepth
    <2>1. Len(stack) <= MaxDepth /\ Len(stack) \in Nat
      BY <1>1, TopFacts DEF TypeOK
    <2>2. Len(stack') \in Nat
      BY <1>5 DEF ShapeInv
    <2> QED BY <1>5, <2>1, <2>2, MaxDepthAssumption
  <1> QED BY <1>1, <1>4, <1>5, <1>6, <1>7, <1>8, <1>9, PipeInvFromParts
          DEF TypeOK

(* In every state the statements that are not finalized are those of the calls
   in progress, at most one each, and the connection the object has is the one
   that is open. *)
THEOREM PipeInvariant == Spec => []PipeInv
  <1>1. Init => PipeInv
    BY PipeInvStart
  <1>2. PipeInv /\ [Next]_vars => PipeInv'
    <2> SUFFICES ASSUME PipeInv, [Next]_vars
                 PROVE  PipeInv'
      OBVIOUS
    <2>1. CASE open_db
      BY <2>1, OpenKeeps
    <2>2. CASE close_db
      BY <2>2, CloseKeeps
    <2>3. CASE query_with_bindings
      BY <2>3, CallKeeps
    <2>4. CASE PrepareMisuse \/ PrepareFailed
      BY <2>4, MisuseKeeps
    <2>5. CASE Prepare
      BY <2>5, PrepareKeeps
    <2>6. CASE BindRefused
      BY <2>6, RefusedKeeps
    <2>7. CASE Bind
      BY <2>7, BindKeeps
    <2>8. CASE Row
      BY <2>8, RowKeeps
    <2>9. CASE Complete
      BY <2>9, CompleteKeeps
    <2>10. CASE UNCHANGED vars
      BY <2>10 DEF vars, PipeInv, TypeOK, ShapeInv, StatementsInv,
                   PreparedInv, At, Top, Open
    <2> QED BY <2>1, <2>2, <2>3, <2>4, <2>5, <2>6, <2>7, <2>8, <2>9, <2>10
            DEF Next
  <1> QED BY <1>1, <1>2, PTL DEF Spec

(* Whatever path a call takes, its statement is finalized by the time it ends,
   and a connection closed under its calls is freed with the last of them. *)
THEOREM StatementsAreFinalized == Spec => []NoStatementLeaks
  <1>1. PipeInv => NoStatementLeaks
    BY DEF PipeInv, StatementsInv, NoStatementLeaks, Users
  <1> QED BY <1>1, PipeInvariant, PTL

-----------------------------------------------------------------------------
(* A call comes to what its own statements come to. *)

(* The statement of its text a call has reached, and the one its bindings
   are left for. *)
Position(f) == Len(f.call.text) - Len(f.tail) + 1
Expects(f) == IF f.at = "step" THEN Position(f) + 1 ELSE Position(f)

(* A call the object stays connected for follows its reference: the
   statements before its position succeeded, and those after it and the
   bindings are what they left. *)
Follows(f) ==
  /\ Len(f.tail) <= Len(f.call.text)
  /\ \A k \in DOMAIN f.tail : f.tail[k] = f.call.text[Position(f) - 1 + k]
  /\ \A j \in 1 .. Position(f) - 1 : Succeeds(f.call, j)
  /\ f.at # "prepare" => ~Head(f.tail).malformed
  /\ f.at = "step" => Runs(f.call, Position(f))
  /\ f.at = "bind" => f.left = Head(f.tail).rows
  /\ f.bindings = BindingsOf(f.call, Expects(f))
  /\ ~f.call.named => Taken(f.call, Expects(f)) <= Len(f.call.bindings)

RowsUpTo(level, n) == [i \in 1 .. n |-> [level |-> level, row |-> i]]

(* A call the object stays connected for has its statement on the connection
   the object has. *)
Stays(f) == /\ Follows(f)
            /\ db # NoHandle
            /\ f.at # "prepare" => f.on = db /\ db \in Open

(* query_result holds the rows that the innermost call has taken, as long as
   no other query was nested in it. *)
OwnInv ==
  /\ \A i \in DOMAIN stack : ~stack[i].moved => Stays(stack[i])
  /\ stack # <<>> /\ Top.at # "prepare" /\ ~Top.nested /\ ~Top.moved =>
       query_result = RowsUpTo(Len(stack), Head(Top.tail).rows - Top.left)

(* No statement has taken bindings before the first; each takes as many as it
   has parameters. *)
LEMMA TakenFirst ==
  ASSUME NEW call \in Calls
  PROVE  Taken(call, 1) = 0
  <1>1. 1 .. 1 - 1 = {}
    OBVIOUS
  <1>2. {at \in (1 .. 1 - 1) \X (1 .. Len(call.bindings)) :
           at[2] <= Len(call.text[at[1]].params)} = {}
    BY <1>1
  <1> QED BY <1>2, FS_EmptySet DEF Taken

(* 1 .. n has n elements, and so has a row of n pairs. *)
LEMMA PairsCounted ==
  ASSUME NEW n \in Nat, NEW j
  PROVE  IsFiniteSet({j} \X (1 .. n)) /\ Cardinality({j} \X (1 .. n)) = n
  <1> DEFINE f == [m \in 1 .. n |-> <<j, m>>]
  <1>1. f \in [1 .. n -> {j} \X (1 .. n)]
    OBVIOUS
  <1>2. \A a, b \in 1 .. n : f[a] = f[b] => a = b
    OBVIOUS
  <1>3. \A p \in {j} \X (1 .. n) : \E m \in 1 .. n : f[m] = p
    OBVIOUS
  <1>4. f \in Bijection(1 .. n, {j} \X (1 .. n))
    BY <1>1, <1>2, <1>3 DEF Bijection, Injection, Surjection, IsInjective
  <1>5. IsFiniteSet(1 .. n) /\ Cardinality(1 .. n) = n
    <2>1. 1 \in Int /\ n \in Int
      OBVIOUS
    <2> QED BY <2>1, FS_Interval
  <1> QED BY <1>4, <1>5, FS_Bijection DEF ExistsBijection

(* A statement takes as many bindings as it has parameters. *)
LEMMA TakenNext ==
  ASSUME NEW call \in Calls, ~call.named, NEW n \in DOMAIN call.text,
         Len(call.text[n].params) <= Len(call.bindings)
  PROVE  Taken(call, n + 1) = Taken(call, n) + Len(call.text[n].params)
  <1> DEFINE Took(i) == {at \in (1 .. i - 1) \X (1 .. Len(call.bindings)) :
                           at[2] <= Len(call.text[at[1]].params)}
             k == Len(call.text[n].params)
             Own == {n} \X (1 .. k)
  <1>1. n \in Nat /\ n > 0 /\ k \in Nat /\ Len(call.bindings) \in Nat
    <2>1. call.text \in Seq(Statement) /\ call.bindings \in Seq(Values)
      BY CallsAssumption
    <2>2. call.text[n] \in Statement /\ n \in Nat /\ n > 0
      BY <2>1
    <2>3. call.text[n].params \in Seq({"a", "?"})
      BY <2>2 DEF Statement
    <2> QED BY <2>1, <2>2, <2>3
  <1>2. Took(n + 1) = Took(n) \union Own
    <2>1. ASSUME NEW p \in Took(n + 1)
          PROVE  p \in Took(n) \union Own
      <3>1. PICK a \in 1 .. n, b \in 1 .. Len(call.bindings) :
              p = <<a, b>> /\ b <= Len(call.text[a].params)
        BY <1>1
      <3>2. CASE a = n
        BY <1>1, <3>1, <3>2
      <3>3. CASE a # n
        <4>1. a \in 1 .. n - 1
          BY <1>1, <3>1, <3>3
        <4> QED BY <3>1, <4>1
      <3> QED BY <3>2, <3>3
    <2>2. ASSUME NEW p \in Took(n)
          PROVE  p \in Took(n + 1)
      <3>1. PICK a \in 1 .. n - 1, b \in 1 .. Len(call.bindings) :
              p = <<a, b>> /\ b <= Len(call.text[a].params)
        OBVIOUS
      <3>2. a \in 1 .. (n + 1) - 1
        BY <1>1, <3>1
      <3> QED BY <3>1, <3>2
    <2>3. ASSUME NEW p \in Own
          PROVE  p \in Took(n + 1)
      <3>1. PICK b \in 1 .. k : p = <<n, b>>
        OBVIOUS
      <3>2. n \in 1 .. (n + 1) - 1 /\ b \in 1 .. Len(call.bindings) /\ b <= k
        BY <1>1, <3>1
      <3> QED BY <3>1, <3>2
    <2> QED BY <2>1, <2>2, <2>3
  <1>3. Took(n) \intersect Own = {}
    <2>1. \A p \in Took(n) : p[1] \in 1 .. n - 1
      OBVIOUS
    <2>2. \A p \in Own : p[1] = n
      OBVIOUS
    <2>3. n \notin 1 .. n - 1
      BY <1>1
    <2> QED BY <2>1, <2>2, <2>3
  <1>4. IsFiniteSet(Took(n)) /\ Cardinality(Took(n)) \in Nat
    <2>1. /\ IsFiniteSet(1 .. n - 1)
          /\ IsFiniteSet(1 .. Len(call.bindings))
      <3>1. 1 \in Int /\ n - 1 \in Int /\ Len(call.bindings) \in Int
        BY <1>1
      <3> QED BY <3>1, FS_Interval
    <2>2. IsFiniteSet((1 .. n - 1) \X (1 .. Len(call.bindings)))
      BY <2>1, FS_Product
    <2>3. Took(n) \subseteq (1 .. n - 1) \X (1 .. Len(call.bindings))
      OBVIOUS
    <2> QED BY <2>2, <2>3, FS_Subset, FS_CardinalityType
  <1>5. IsFiniteSet(Own) /\ Cardinality(Own) = k
    BY <1>1, PairsCounted
  <1>6. Cardinality(Took(n) \intersect Own) = 0
    BY <1>3, FS_EmptySet
  <1>7. Cardinality(Took(n + 1)) = Cardinality(Took(n)) + k
    <2> HIDE DEF Took, Own
    <2>1. Cardinality(Took(n) \union Own) =
            Cardinality(Took(n)) + Cardinality(Own)
              - Cardinality(Took(n) \intersect Own)
      BY <1>4, <1>5, FS_Union
    <2>2. k \in Nat
      BY <1>1
    <2> HIDE DEF k
    <2>3. Cardinality(Took(n) \union Own) = Cardinality(Took(n)) + k
      BY <1>4, <1>5, <1>6, <2>1, <2>2
    <2> QED BY <1>2, <2>3, Zenon
  <1> QED BY <1>7 DEF Taken

(* The bindings taken are finitely many. *)
LEMMA TakenIsNat ==
  ASSUME NEW call \in Calls, ~call.named, NEW n \in Nat
  PROVE  Taken(call, n) \in Nat
  <1> DEFINE All == (1 .. n - 1) \X (1 .. Len(call.bindings))
  <1>1. Len(call.bindings) \in Nat
    <2>1. call.bindings \in Seq(Values)
      BY CallsAssumption
    <2> QED BY <2>1
  <1>2. IsFiniteSet(1 .. n - 1) /\ IsFiniteSet(1 .. Len(call.bindings))
    <2>1. 1 \in Int /\ n - 1 \in Int /\ Len(call.bindings) \in Int
      BY <1>1
    <2> QED BY <2>1, FS_Interval
  <1>3. IsFiniteSet(All)
    BY <1>2, FS_Product
  <1>4. {at \in All : at[2] <= Len(call.text[at[1]].params)} \subseteq All
    OBVIOUS
  <1> QED BY <1>3, <1>4, FS_Subset, FS_CardinalityType DEF Taken

(* What is left when m bindings are taken. *)
LEMMA LeftOver ==
  ASSUME NEW b \in Seq(Values), NEW m \in 0 .. Len(b), NEW r,
         r = SubSeq(b, m + 1, Len(b))
  PROVE  /\ r \in Seq(Values) /\ Len(r) = Len(b) - m
         /\ \A i \in 1 .. Len(r) : r[i] = b[m + i]
  <1>1. Len(b) \in Nat /\ m \in Int /\ m + 1 \in Int /\ Len(b) \in Int
    OBVIOUS
  <1>2. \A i \in m + 1 .. Len(b) : b[i] \in Values
    <2> TAKE i \in m + 1 .. Len(b)
    <2>1. i \in 1 .. Len(b)
      BY <1>1
    <2> QED BY <2>1
  <1>3. /\ r \in Seq(Values)
        /\ Len(r) = IF m + 1 <= Len(b) THEN Len(b) - (m + 1) + 1 ELSE 0
        /\ \A i \in 1 .. Len(b) - (m + 1) + 1 : r[i] = b[(m + 1) + i - 1]
    BY <1>1, <1>2, SubSeqProperties
  <1>4. Len(r) = Len(b) - m
    BY <1>1, <1>3
  <1>5. ASSUME NEW i \in 1 .. Len(r)
        PROVE  r[i] = b[m + i]
    <2>1. i \in 1 .. Len(b) - (m + 1) + 1 /\ (m + 1) + i - 1 = m + i
      BY <1>1, <1>4
    <2> QED BY <1>3, <2>1
  <1> QED BY <1>3, <1>4, <1>5

(* Taking bindings twice takes the sum. *)
LEMMA RestOfRest ==
  ASSUME NEW b \in Seq(Values), NEW m \in 0 .. Len(b),
         NEW k \in 0 .. Len(b) - m, NEW r, r = SubSeq(b, m + 1, Len(b))
  PROVE  /\ r \in Seq(Values) /\ Len(r) = Len(b) - m
         /\ SubSeq(r, k + 1, Len(r)) = SubSeq(b, m + k + 1, Len(b))
  <1>1. /\ r \in Seq(Values) /\ Len(r) = Len(b) - m
        /\ \A i \in 1 .. Len(r) : r[i] = b[m + i]
    BY LeftOver
  <1>2. PICK p \in 0 .. Len(b) : p = m + k
    OBVIOUS
  <1>3. PICK v : v = SubSeq(b, p + 1, Len(b))
    OBVIOUS
  <1>4. /\ v \in Seq(Values) /\ Len(v) = Len(b) - p
        /\ \A i \in 1 .. Len(v) : v[i] = b[p + i]
    BY <1>3, LeftOver
  <1>5. PICK u : u = SubSeq(r, k + 1, Len(r))
    OBVIOUS
  <1>6. /\ u \in Seq(Values) /\ Len(u) = Len(r) - k
        /\ \A i \in 1 .. Len(u) : u[i] = r[k + i]
    <2>1. k \in 0 .. Len(r)
      BY <1>1
    <2> QED BY <1>1, <1>5, <2>1, LeftOver
  <1>7. Len(u) = Len(v) /\ Len(u) \in Nat /\ Len(b) \in Nat
    BY <1>1, <1>2, <1>4, <1>6
  <1>8. ASSUME NEW i \in 1 .. Len(u)
        PROVE  u[i] = v[i]
    <2>1. k + i \in 1 .. Len(r) /\ m + (k + i) = p + i
      BY <1>1, <1>2, <1>6, <1>7
    <2> QED BY <1>1, <1>4, <1>6, <1>7, <2>1
  <1>9. u = v
    BY <1>4, <1>6, <1>7, <1>8, SeqEqual
  <1> QED BY <1>1, <1>2, <1>3, <1>5, <1>9

(* What bind_parameter() has not taken is what the next statement expects. *)
LEMMA BindingsNext ==
  ASSUME NEW call \in Calls, NEW n \in DOMAIN call.text,
         BindsAt(call, n),
         ~call.named => Taken(call, n) <= Len(call.bindings)
  PROVE  /\ Rest(call.named, BindingsOf(call, n), Len(call.text[n].params)) =
              BindingsOf(call, n + 1)
         /\ ~call.named => Taken(call, n + 1) <= Len(call.bindings)
  <1>1. /\ call.named \in BOOLEAN /\ n \in Nat /\ n + 1 \in Nat
        /\ Len(call.text[n].params) \in Nat
    <2>1. call.text \in Seq(Statement) /\ call.named \in BOOLEAN
      BY CallsAssumption
    <2>2. call.text[n] \in Statement /\ n \in Nat /\ n + 1 \in Nat
      BY <2>1
    <2>3. call.text[n].params \in Seq({"a", "?"})
      BY <2>2 DEF Statement
    <2> QED BY <2>1, <2>2, <2>3
  <1>2. CASE call.named
    BY <1>2 DEF Rest, BindingsOf
  <1>3. CASE ~call.named
    <2>1. call.bindings \in Seq(Values)
      BY <1>3, CallsAssumption
    <2>2. PICK m : m = Taken(call, n)
      OBVIOUS
    <2>3. m \in 0 .. Len(call.bindings)
      BY <1>1, <1>3, <2>1, <2>2, TakenIsNat
    <2>4. PICK k : k = Len(call.text[n].params)
      OBVIOUS
    <2>5. PICK r : r = SubSeq(call.bindings, m + 1, Len(call.bindings))
      OBVIOUS
    <2>6. k <= Len(r) /\ r = BindingsOf(call, n)
      BY <1>3, <2>2, <2>4, <2>5 DEF BindsAt, Satisfied, BindingsOf
    <2>7. Len(r) = Len(call.bindings) - m
      <3>1. 0 \in 0 .. Len(call.bindings) - m
        BY <2>1, <2>3
      <3> QED BY <2>1, <2>3, <2>5, <3>1, RestOfRest
    <2>8. k \in 0 .. Len(call.bindings) - m
      BY <1>1, <2>1, <2>3, <2>4, <2>6, <2>7
    <2>9. SubSeq(r, k + 1, Len(r)) =
            SubSeq(call.bindings, m + k + 1, Len(call.bindings))
      BY <2>1, <2>3, <2>5, <2>8, RestOfRest
    <2>10. Taken(call, n + 1) = m + k
      <3>1. Len(call.text[n].params) <= Len(call.bindings)
        BY <2>1, <2>3, <2>4, <2>8
      <3> QED BY <1>3, <2>2, <2>4, <3>1, TakenNext
    <2>11. Rest(call.named, BindingsOf(call, n), Len(call.text[n].params)) =
             BindingsOf(call, n + 1)
      BY <1>3, <2>4, <2>6, <2>9, <2>10 DEF Rest, BindingsOf
    <2>12. m + k <= Len(call.bindings)
      BY <2>1, <2>3, <2>8
    <2> QED BY <2>10, <2>11, <2>12
  <1> QED BY <1>1, <1>2, <1>3

(* The statement a call comes to last is the first one that fails, or the
   last of its text. *)
LEMMA LastRunIs ==
  ASSUME NEW call \in Calls, NEW n \in DOMAIN call.text,
         \A j \in 1 .. n - 1 : Succeeds(call, j),
         n = Len(call.text) \/ ~Succeeds(call, n)
  PROVE  LastRun(call) = n
  <1>1. call.text \in Seq(Statement)
    BY CallsAssumption
  <1>2. ASSUME NEW i \in DOMAIN call.text,
               \A j \in 1 .. i - 1 : Succeeds(call, j),
               i = Len(call.text) \/ ~Succeeds(call, i)
        PROVE  i = n
    <2>1. CASE i < n
      <3>1. i \in 1 .. n - 1 /\ i # Len(call.text)
        BY <1>1, <2>1
      <3> QED BY <1>2, <3>1
    <2>2. CASE n < i
      <3>1. n \in 1 .. i - 1 /\ n # Len(call.text)
        BY <1>1, <2>2
      <3> QED BY <1>2, <3>1
    <2>3. i < n \/ n < i \/ i = n
      BY <1>1
    <2> QED BY <2>1, <2>2, <2>3
  <1> QED BY <1>2 DEF LastRun

(* Of a text of n statements of which m are left. *)
LEMMA PlaceInText ==
  ASSUME NEW n \in Nat, NEW m \in Nat \ {0}, m <= n
  PROVE  \E k \in Nat : /\ k = (n - m) + 1 /\ k \in 1 .. n
                        /\ (k - 1) + 1 = k /\ k > 0
                        /\ m > 1 <=> k # n
  <1>1. (n - m) + 1 \in Nat
    OBVIOUS
  <1>2. PICK k \in Nat : k = (n - m) + 1
    BY <1>1
  <1>3. k \in 1 .. n /\ (k - 1) + 1 = k /\ k > 0
    BY <1>2
  <1>4. m > 1 <=> k # n
    BY <1>2
  <1> QED BY <1>2, <1>3, <1>4

(* Where a call that follows its reference is. *)
LEMMA PositionFacts ==
  ASSUME NEW f \in Frames, Follows(f)
  PROVE  /\ Position(f) \in DOMAIN f.call.text
         /\ Position(f) \in Nat /\ Position(f) > 0
         /\ Head(f.tail) = f.call.text[Position(f)]
         /\ Len(f.tail) > 1 <=> Position(f) # Len(f.call.text)
         /\ \A j \in 1 .. Position(f) - 1 : Succeeds(f.call, j)
  <1>1. /\ f.call.text \in Seq(Statement) /\ f.tail \in Seq(Statement) \ {<<>>}
        /\ Len(f.tail) \in Nat \ {0} /\ 1 \in DOMAIN f.tail
        /\ Head(f.tail) = f.tail[1]
    BY FrameFields, TextFacts
  <1>2. Len(f.tail) <= Len(f.call.text) /\ Len(f.call.text) \in Nat
    BY <1>1 DEF Follows
  <1>3. PICK all \in Nat, left \in Nat \ {0} :
          /\ all = Len(f.call.text) /\ left = Len(f.tail) /\ left <= all
    BY <1>1, <1>2
  <1>4. PICK n \in Nat :
          /\ n = Position(f) /\ n \in 1 .. all /\ (n - 1) + 1 = n /\ n > 0
          /\ left > 1 <=> n # all
    <2>1. Position(f) = (all - left) + 1
      BY <1>3 DEF Position
    <2>2. left <= all
      BY <1>3
    <2>3. \E k \in Nat :
            /\ k = (all - left) + 1 /\ k \in 1 .. all
            /\ (k - 1) + 1 = k /\ k > 0
            /\ left > 1 <=> k # all
      BY <2>2, PlaceInText
    <2> QED BY <2>1, <2>3
  <1>5. n \in DOMAIN f.call.text
    BY <1>1, <1>3, <1>4
  <1>6. f.tail[1] = f.call.text[n]
    <2>1. f.tail[1] = f.call.text[n - 1 + 1]
      BY <1>1, <1>4 DEF Follows
    <2> QED BY <1>4, <2>1
  <1>7. \A j \in 1 .. n - 1 : Succeeds(f.call, j)
    BY <1>4 DEF Follows
  <1> QED BY <1>1, <1>3, <1>4, <1>5, <1>6, <1>7

(* A call that starts expects all its statements and bindings. *)
LEMMA FollowsStart ==
  ASSUME NEW e \in Frames, e.tail = e.call.text,
         e.bindings = e.call.bindings, e.at = "prepare"
  PROVE  Follows(e)
  <1>1. /\ e.call.text \in Seq(Statement) /\ e.call \in Calls
        /\ e.call.named \in BOOLEAN
        /\ e.call.bindings \in IF e.call.named THEN Named ELSE Seq(Values)
    BY FrameFields
  <1>2. Position(e) = 1 /\ Expects(e) = 1
    BY <1>1 DEF Position, Expects
  <1>3. e.bindings = BindingsOf(e.call, 1)
    <2>1. CASE e.call.named
      BY <2>1 DEF BindingsOf
    <2>2. CASE ~e.call.named
      <3>1. e.call.bindings \in Seq(Values)
        BY <1>1, <2>2
      <3>2. SubSeq(e.call.bindings, 1, Len(e.call.bindings)) = e.call.bindings
        BY <3>1, SubSeqFull
      <3>3. Taken(e.call, 1) + 1 = 1
        BY <1>1, TakenFirst
      <3> QED BY <2>2, <3>2, <3>3 DEF BindingsOf
    <2> QED BY <2>1, <2>2
  <1>4. ~e.call.named => Taken(e.call, 1) <= Len(e.call.bindings)
    <2> SUFFICES ASSUME ~e.call.named
                 PROVE  Taken(e.call, 1) <= Len(e.call.bindings)
      OBVIOUS
    <2>1. e.call.bindings \in Seq(Values)
      BY <1>1
    <2>2. Len(e.call.bindings) \in Nat
      BY <2>1
    <2> QED BY <1>1, <2>2, TakenFirst
  <1>5. \A k \in DOMAIN e.tail : e.tail[k] = e.call.text[Position(e) - 1 + k]
    <2> TAKE k \in DOMAIN e.tail
    <2>1. k \in Nat /\ Position(e) - 1 + k = k
      BY <1>1, <1>2
    <2> QED BY <2>1
  <1>6. \A j \in 1 .. Position(e) - 1 : Succeeds(e.call, j)
    BY <1>2
  <1>7. Len(e.tail) <= Len(e.call.text)
    BY <1>1
  <1> QED BY <1>2, <1>3, <1>4, <1>5, <1>6, <1>7 DEF Follows

(* Whether a call was nested in another does not matter to it. *)
LEMMA FollowsSame ==
  ASSUME NEW c, NEW e, Follows(c), e.call = c.call, e.tail = c.tail,
         e.bindings = c.bindings, e.at = c.at,
         e.at = "bind" => e.left = c.left
  PROVE  Follows(e)
  <1>1. PICK n, x : n = Position(c) /\ n = Position(e)
                    /\ x = Expects(c) /\ x = Expects(e)
    BY DEF Position, Expects
  <1> QED BY <1>1 DEF Follows

(* It has prepared its statement. *)
LEMMA FollowsPrepared ==
  ASSUME NEW c \in Frames, NEW e, Follows(c), c.at = "prepare",
         ~Head(c.tail).malformed, e.call = c.call, e.tail = c.tail,
         e.bindings = c.bindings, e.at = "bind", e.left = Head(c.tail).rows
  PROVE  Follows(e)
  <1>1. PICK n : /\ n = Position(c) /\ n = Position(e)
                 /\ n = Expects(c) /\ n = Expects(e)
    BY DEF Position, Expects
  <1> QED BY <1>1 DEF Follows

(* The bindings satisfy the parameters. *)
LEMMA FollowsBound ==
  ASSUME NEW c \in Frames, NEW e, Follows(c), c.at = "bind",
         Satisfied(Head(c.tail), c.call.named, c.bindings),
         e.call = c.call, e.tail = c.tail, e.at = "step",
         e.bindings = Rest(c.call.named, c.bindings, Len(Head(c.tail).params))
  PROVE  Follows(e)
  <1>1. PICK n : /\ n = Position(c) /\ n = Position(e)
                 /\ n = Expects(c) /\ n + 1 = Expects(e)
    BY DEF Position, Expects
  <1>2. /\ n \in DOMAIN c.call.text /\ Head(c.tail) = c.call.text[n]
        /\ c.call \in Calls
    BY <1>1, PositionFacts, FrameFields
  <1>3. c.bindings = BindingsOf(c.call, n)
    BY <1>1 DEF Follows
  <1>4. BindsAt(c.call, n) /\ Runs(c.call, n)
    BY <1>2, <1>3 DEF BindsAt, Runs, Follows
  <1>5. ~c.call.named => Taken(c.call, n) <= Len(c.call.bindings)
    BY <1>1 DEF Follows
  <1>6. /\ e.bindings = BindingsOf(c.call, n + 1)
        /\ ~c.call.named => Taken(c.call, n + 1) <= Len(c.call.bindings)
    <2>1. /\ Rest(c.call.named, BindingsOf(c.call, n),
                  Len(c.call.text[n].params)) = BindingsOf(c.call, n + 1)
          /\ ~c.call.named => Taken(c.call, n + 1) <= Len(c.call.bindings)
      BY <1>2, <1>4, <1>5, BindingsNext
    <2> QED BY <1>2, <1>3, <2>1
  <1> QED BY <1>1, <1>4, <1>6 DEF Follows

(* The statement ends, and the next one is the head of what is left. *)
LEMMA FollowsNext ==
  ASSUME NEW c \in Frames, NEW e, Follows(c), c.at = "step",
         Head(c.tail).code = "ok", Len(c.tail) > 1,
         e.call = c.call, e.tail = Tail(c.tail), e.at = "prepare",
         e.bindings = c.bindings
  PROVE  Follows(e)
  <1>1. /\ c.call.text \in Seq(Statement) /\ c.tail \in Seq(Statement) \ {<<>>}
        /\ e.tail \in Seq(Statement) /\ Len(e.tail) = Len(c.tail) - 1
        /\ \A k \in DOMAIN e.tail : e.tail[k] = c.tail[k + 1]
        /\ Len(c.tail) \in Nat
    BY FrameFields, TextFacts
  <1>2. /\ Position(c) \in Nat /\ Position(c) > 0
        /\ Head(c.tail) = c.call.text[Position(c)]
        /\ \A j \in 1 .. Position(c) - 1 : Succeeds(c.call, j)
    BY PositionFacts
  <1>3. PICK n \in Nat : n = Position(c) /\ n > 0
    BY <1>2
  <1>4. Position(e) = n + 1 /\ Expects(e) = n + 1 /\ Expects(c) = n + 1
    <2>1. PICK all \in Nat, left \in Nat :
            all = Len(c.call.text) /\ left = Len(c.tail)
      BY <1>1
    <2>2. Position(c) = (all - left) + 1 /\ Position(e) = (all - (left - 1)) + 1
      BY <1>1, <2>1 DEF Position
    <2>3. Position(e) = n + 1
      BY <1>3, <2>1, <2>2
    <2> QED BY <1>3, <2>3 DEF Expects
  <1>5. Succeeds(c.call, n)
    BY <1>2, <1>3 DEF Follows, Succeeds
  <1>6. \A j \in 1 .. Position(e) - 1 : Succeeds(e.call, j)
    <2>1. \A j \in 1 .. (n + 1) - 1 : j = n \/ j \in 1 .. n - 1
      BY <1>3
    <2> QED BY <1>2, <1>3, <1>4, <1>5, <2>1
  <1>7. \A k \in DOMAIN e.tail : e.tail[k] = e.call.text[Position(e) - 1 + k]
    <2> TAKE k \in DOMAIN e.tail
    <2>1. /\ k \in Nat /\ k + 1 \in DOMAIN c.tail
          /\ n - 1 + (k + 1) = (n + 1) - 1 + k
      <3>1. PICK m \in Nat : m = Len(c.tail)
        BY <1>1
      <3>2. DOMAIN c.tail = 1 .. m /\ DOMAIN e.tail = 1 .. m - 1
        BY <1>1, <3>1
      <3> QED BY <3>2
    <2>2. c.tail[k + 1] = c.call.text[n - 1 + (k + 1)]
      <3>1. \A i \in DOMAIN c.tail :
              c.tail[i] = c.call.text[Position(c) - 1 + i]
        BY DEF Follows
      <3> QED BY <1>3, <2>1, <3>1
    <2> QED BY <1>1, <1>4, <2>1, <2>2
  <1>8. Len(e.tail) <= Len(e.call.text)
    <2>1. Len(c.tail) <= Len(c.call.text) /\ Len(c.call.text) \in Nat
      BY <1>1 DEF Follows
    <2> QED BY <1>1, <2>1
  <1>9. /\ e.bindings = BindingsOf(e.call, n + 1)
        /\ ~e.call.named => Taken(e.call, n + 1) <= Len(e.call.bindings)
    BY <1>4 DEF Follows
  <1> QED BY <1>4, <1>6, <1>7, <1>8, <1>9 DEF Follows

(* No rows, and one row more. *)
LEMMA RowsUpToZero ==
  ASSUME NEW level
  PROVE  RowsUpTo(level, 0) = <<>>
  <1>1. 1 .. 0 = {}
    OBVIOUS
  <1>2. RowsUpTo(level, 0) \in Seq({[level |-> level, row |-> 1]})
    <2>1. RowsUpTo(level, 0) \in [1 .. 0 -> {[level |-> level, row |-> 1]}]
      BY <1>1 DEF RowsUpTo
    <2> QED BY <2>1
  <1>3. DOMAIN RowsUpTo(level, 0) = {}
    BY <1>1 DEF RowsUpTo
  <1> QED BY <1>2, <1>3

(* The next row is appended to those before. *)
LEMMA RowsUpToNext ==
  ASSUME NEW level \in 1 .. MaxDepth, NEW n \in Nat
  PROVE  Append(RowsUpTo(level, n), [level |-> level, row |-> n + 1]) =
           RowsUpTo(level, n + 1)
  <1>1. ASSUME NEW m \in Nat
        PROVE  /\ RowsUpTo(level, m) \in Seq(Rows) /\ Len(RowsUpTo(level, m)) = m
               /\ \A i \in 1 .. m :
                    RowsUpTo(level, m)[i] = [level |-> level, row |-> i]
    <2>1. \A i \in 1 .. m : [level |-> level, row |-> i] \in Rows
      BY DEF Rows
    <2>2. RowsUpTo(level, m) \in [1 .. m -> Rows]
      BY <2>1 DEF RowsUpTo
    <2>3. RowsUpTo(level, m) \in Seq(Rows) /\ Len(RowsUpTo(level, m)) = m
      BY <2>2
    <2>4. \A i \in 1 .. m :
            RowsUpTo(level, m)[i] = [level |-> level, row |-> i]
      BY DEF RowsUpTo
    <2> QED BY <2>3, <2>4
  <1>2. PICK q \in Seq(Rows) :
          /\ q = RowsUpTo(level, n) /\ Len(q) = n
          /\ \A i \in 1 .. n : q[i] = [level |-> level, row |-> i]
    BY <1>1
  <1>3. PICK r \in Rows : r = [level |-> level, row |-> n + 1]
    <2>1. [level |-> level, row |-> n + 1] \in Rows
      BY DEF Rows
    <2> QED BY <2>1
  <1>4. PICK p \in Seq(Rows) :
          /\ p = RowsUpTo(level, n + 1) /\ Len(p) = n + 1
          /\ \A i \in 1 .. n + 1 : p[i] = [level |-> level, row |-> i]
    <2>1. n + 1 \in Nat
      OBVIOUS
    <2> QED BY <1>1, <2>1
  <1>5. PICK t \in Seq(Rows) :
          /\ t = Append(q, r) /\ Len(t) = n + 1 /\ t[n + 1] = r
          /\ \A i \in 1 .. n : t[i] = q[i]
    <2>1. /\ Append(q, r) \in Seq(Rows) /\ Len(Append(q, r)) = Len(q) + 1
          /\ Append(q, r)[Len(q) + 1] = r
          /\ \A i \in 1 .. Len(q) : Append(q, r)[i] = q[i]
      OBVIOUS
    <2> QED BY <1>2, <2>1
  <1>6. \A i \in 1 .. n + 1 : t[i] = p[i]
    <2> TAKE i \in 1 .. n + 1
    <2>1. i = n + 1 \/ i \in 1 .. n
      OBVIOUS
    <2> QED BY <1>2, <1>3, <1>4, <1>5, <2>1
  <1>7. t = p
    BY <1>4, <1>5, <1>6, SeqEqual
  <1> QED BY <1>2, <1>3, <1>4, <1>5, <1>7

(* What is left to show of a step. *)
LEMMA OwnInvFromParts ==
  ASSUME \A i \in DOMAIN stack' : ~stack'[i].moved =>
           /\ Follows(stack'[i]) /\ db' # NoHandle
           /\ stack'[i].at # "prepare" =>
                /\ stack'[i].on = db' /\ db' \in Handles
                /\ openState'[db'] = "open",
         /\ stack' # <<>> /\ stack'[1].at # "prepare" /\ ~stack'[1].nested
         /\ ~stack'[1].moved
         => query_result' = RowsUpTo(Len(stack'),
                              Head(stack'[1].tail).rows - stack'[1].left)
  PROVE  OwnInv'
  BY DEF OwnInv, Stays, Top, Open

(* The innermost call goes on. *)
LEMMA OwnReplace ==
  ASSUME ShapeInv, OwnInv, stack # <<>>,
         NEW e \in Frames, FrameFits(e), Replace(e), db' = db,
         \A h \in Handles : openState[h] = "open" => openState'[h] = "open",
         ~e.moved =>
           /\ Follows(e) /\ db # NoHandle
           /\ e.at # "prepare" => e.on = db /\ db \in Open,
         e.at # "prepare" /\ ~e.nested /\ ~e.moved =>
           query_result' = RowsUpTo(Len(stack), Head(e.tail).rows - e.left)
  PROVE  OwnInv'
  <1>1. PICK t \in Seq(Frames) :
          /\ t = stack' /\ t # <<>> /\ t[1] = e /\ Len(t) = Len(stack)
          /\ DOMAIN t = DOMAIN stack
          /\ \A i \in DOMAIN stack : i > 1 => t[i] = stack[i]
    BY ReplaceKeeps DEF ShapeInv, Top
  <1>2. ASSUME NEW i \in DOMAIN t, ~t[i].moved
        PROVE  /\ Follows(t[i]) /\ db # NoHandle
               /\ t[i].at # "prepare" =>
                    t[i].on = db /\ db \in Handles /\ openState'[db] = "open"
    <2>1. CASE i = 1
      BY <1>1, <1>2, <2>1 DEF Open
    <2>2. CASE i > 1
      <3>1. t[i] = stack[i] /\ i \in DOMAIN stack
        BY <1>1, <2>2
      <3> QED BY <1>2, <3>1 DEF OwnInv, Stays, Open
    <2>3. i = 1 \/ i > 1
      OBVIOUS
    <2> QED BY <2>1, <2>2, <2>3
  <1> QED BY <1>1, <1>2, OwnInvFromParts

(* The innermost call ends. *)
LEMMA OwnReturn ==
  ASSUME ShapeInv, OwnInv, stack # <<>>, NEW v, Return(v), db' = db,
         \A h \in Handles : openState[h] = "open" => openState'[h] = "open"
  PROVE  OwnInv'
  <1>1. PICK t \in Seq(Frames) :
          /\ t = stack'
          /\ \A i \in DOMAIN t : i + 1 \in DOMAIN stack /\ t[i] = stack[i + 1]
          /\ \A i \in DOMAIN t : t[i].at = "step" /\ t[i].nested
    BY ReturnKeeps
  <1>2. ASSUME NEW i \in DOMAIN t, ~t[i].moved
        PROVE  /\ Follows(t[i]) /\ db # NoHandle
               /\ t[i].at # "prepare" =>
                    t[i].on = db /\ db \in Handles /\ openState'[db] = "open"
    <2>1. PICK j \in DOMAIN stack : t[i] = stack[j]
      BY <1>1
    <2> QED BY <1>2, <2>1 DEF OwnInv, Stays, Open
  <1>3. t # <<>> => t[1].nested
    <2>1. t # <<>> => 1 \in DOMAIN t
      OBVIOUS
    <2> QED BY <1>1, <2>1
  <1> QED BY <1>1, <1>2, <1>3, OwnInvFromParts

(* What OutcomeIsOwn and ResultIsExact say of a call that returns. *)
Outcome ==
  IF db \notin Open
  THEN returned' = "false" /\ error_message' # "ok"
  ELSE IF Displaced
  THEN /\ error_message' = errCode[db]
       /\ returned' = IF errCode[db] = "ok" THEN "true" ELSE "false"
  ELSE /\ LastOutcome
       /\ ~Top.moved => /\ returned' = ReferenceValue(Top.call)
                        /\ error_message' = ReferenceMessage(Top.call)

Result ==
  ~Top.nested /\ ~Top.moved /\ db \in Open
    => query_result' = RowsUpTo(Len(stack), ReferenceRows(Top.call))

(* The caller's code opens, closes and calls. *)
LEMMA OpenOwn ==
  ASSUME PipeInv, OwnInv, open_db
  PROVE  OwnInv' /\ ~Returns
  <1>1. stack' = stack /\ db = NoHandle
    BY DEF open_db
  <1>2. PICK s \in Seq(Frames) : s = stack /\ s = stack'
    BY <1>1 DEF PipeInv, ShapeInv
  <1>3. \A i \in DOMAIN s : s[i].moved
    BY <1>1, <1>2 DEF OwnInv, Stays
  <1>4. s # <<>> => s[1].moved
    BY <1>3
  <1>5. ~Returns
    BY <1>1, <1>2 DEF Returns
  <1> QED BY <1>2, <1>3, <1>4, <1>5, OwnInvFromParts

(* close_db(): all calls lose their connection, and none returns. *)
LEMMA CloseOwn ==
  ASSUME PipeInv, OwnInv, close_db
  PROVE  OwnInv' /\ ~Returns
  <1>1. PICK s \in Seq(Frames) : s = stack
    BY DEF PipeInv, ShapeInv
  <1>2. PICK t : t = Moved(s) /\ t = stack'
    BY <1>1 DEF close_db
  <1>3. /\ Moved(s) \in Seq(Frames) /\ Len(Moved(s)) = Len(s)
        /\ DOMAIN Moved(s) = DOMAIN s
        /\ \A i \in DOMAIN s : Moved(s)[i].moved
    BY MovedFacts
  <1>4. /\ t \in Seq(Frames) /\ Len(t) = Len(s)
        /\ \A i \in DOMAIN t : t[i].moved
    BY <1>2, <1>3, Zenon
  <1>5. t # <<>> => t[1].moved
    BY <1>4
  <1>6. ~Returns
    <2>1. Len(s) \in Nat
      BY <1>1
    <2> QED BY <1>1, <1>2, <1>4, <2>1 DEF Returns
  <1> QED BY <1>2, <1>4, <1>5, <1>6, OwnInvFromParts

(* A call begins where its reference does. *)
LEMMA CallOwn ==
  ASSUME PipeInv, OwnInv, query_with_bindings
  PROVE  OwnInv' /\ ~Returns
  <1>1. PICK s \in Seq(Frames) : s = stack
    BY DEF PipeInv, ShapeInv
  <1>0. PICK call \in Calls :
          stack' = <<[call |-> call, tail |-> call.text, bindings |-> call.bindings,
                      at |-> "prepare", on |-> NoHandle, left |-> 0,
                      nested |-> FALSE, moved |-> db = NoHandle]>> \o Nested(s)
    BY <1>1 DEF query_with_bindings, Nested
  <1>2. PICK e :
          /\ e = [call |-> call, tail |-> call.text, bindings |-> call.bindings,
                  at |-> "prepare", on |-> NoHandle, left |-> 0,
                  nested |-> FALSE, moved |-> db = NoHandle]
          /\ stack' = <<e>> \o Nested(s)
    BY <1>0
  <1>3. db' = db /\ openState' = openState
    BY DEF query_with_bindings
  <1>4. /\ e \in Frames /\ e.at = "prepare" /\ e.tail = e.call.text
        /\ e.bindings = e.call.bindings /\ (~e.moved => db # NoHandle)
    <2>1. /\ call.text \in Seq(Statement) \ {<<>>} /\ call.named \in BOOLEAN
          /\ call.bindings \in IF call.named THEN Named ELSE Seq(Values)
      BY CallsAssumption
    <2> QED BY <1>2, <2>1 DEF Frames
  <1>5. Follows(e)
    BY <1>4, FollowsStart
  <1>6. PICK t : t = <<e>> \o Nested(s) /\ t = stack'
    BY <1>2
  <1>7. IsNested(s, e, t)
    <2>1. t = <<e>> \o Nested(s)
      BY <1>6
    <2> QED BY <1>4, <2>1, NestFacts
  <1>8. ASSUME NEW i \in DOMAIN t, ~t[i].moved
        PROVE  /\ Follows(t[i]) /\ db # NoHandle
               /\ t[i].at # "prepare" =>
                    t[i].on = db /\ db \in Handles /\ openState[db] = "open"
    <2>1. CASE i = 1
      BY <1>4, <1>5, <1>7, <1>8, <2>1 DEF IsNested
    <2>2. CASE i > 1
      <3>1. PICK j \in DOMAIN s :
              /\ t[i].at = s[j].at /\ t[i].on = s[j].on
              /\ t[i].tail = s[j].tail /\ t[i].left = s[j].left
              /\ t[i].call = s[j].call /\ t[i].bindings = s[j].bindings
              /\ t[i].moved = s[j].moved
        BY <1>7, <2>2 DEF IsNested
      <3>2. Stays(s[j])
        BY <1>1, <1>8, <3>1 DEF OwnInv
      <3>3. Follows(t[i])
        BY <3>1, <3>2, FollowsSame DEF Stays
      <3> QED BY <3>1, <3>2, <3>3 DEF Stays, Open
    <2>3. i = 1 \/ i > 1
      BY <1>7 DEF IsNested
    <2> QED BY <2>1, <2>2, <2>3
  <1>9. ~Returns
    <2>1. Len(s) \in Nat
      OBVIOUS
    <2> QED BY <1>1, <1>6, <1>7, <2>1 DEF Returns, IsNested
  <1>10. t[1].at = "prepare"
    BY <1>4, <1>7 DEF IsNested
  <1> QED BY <1>3, <1>6, <1>8, <1>9, <1>10, OwnInvFromParts

(* The innermost call. *)
LEMMA TopOwn ==
  ASSUME ShapeInv, OwnInv, stack # <<>>, ~Top.moved
  PROVE  /\ Follows(Top) /\ db # NoHandle
         /\ Top.at # "prepare" => Top.on = db /\ db \in Open
  BY TopFacts DEF OwnInv, Stays, Top

(* Without an open connection the call fails, and says so. *)
LEMMA MisuseOwn ==
  ASSUME PipeInv, OwnInv, PrepareMisuse
  PROVE  OwnInv' /\ Outcome /\ Result
  <1>1. TypeOK /\ ShapeInv /\ StatementsInv /\ stack # <<>>
    BY DEF PipeInv, PrepareMisuse, At
  <1>2. /\ db \notin Open /\ error_message' = ErrorOf(db, errCode)
        /\ Return(FALSE) /\ db' = db /\ openState' = openState
    BY DEF PrepareMisuse
  <1>3. error_message' # "ok"
    <2>1. CASE db = NoHandle
      BY <1>2, <2>1 DEF ErrorOf
    <2>2. CASE db # NoHandle
      <3>1. db \in Handles
        BY <1>1, <2>2 DEF TypeOK
      <3>2. openState[db] \in {"open", "sick"} /\ openState[db] # "open"
        BY <1>1, <1>2, <3>1 DEF StatementsInv, Open
      <3>3. errCode[db] = "cantopen"
        BY <1>1, <3>1, <3>2 DEF StatementsInv
      <3> QED BY <1>2, <2>2, <3>3 DEF ErrorOf
    <2> QED BY <2>1, <2>2
  <1>4. OwnInv'
    BY <1>1, <1>2, OwnReturn
  <1> QED BY <1>2, <1>3, <1>4 DEF Outcome, Result, Return

(* A malformed statement is the last its reference comes to. *)
LEMMA FailedOwn ==
  ASSUME PipeInv, OwnInv, PrepareFailed
  PROVE  OwnInv' /\ Outcome /\ Result
  <1>1. TypeOK /\ ShapeInv /\ StatementsInv /\ stack # <<>>
    BY DEF PipeInv, PrepareFailed, At
  <1>2. /\ db \in Open /\ error_message' = "error" /\ query_result' = <<>>
        /\ Return(FALSE) /\ db' = db /\ openState' = openState
        /\ Head(Top.tail).malformed
    BY DEF PrepareFailed
  <1>3. OwnInv'
    BY <1>1, <1>2, OwnReturn
  <1>4. ASSUME ~Top.moved
        PROVE  /\ ReferenceValue(Top.call) = "false"
               /\ ReferenceMessage(Top.call) = "error"
               /\ ReferenceRows(Top.call) = 0
    <2>0. PICK c \in Frames : c = Top /\ Follows(c) /\ c.call \in Calls
      BY <1>1, <1>4, TopOwn, TopFacts, FrameFields
    <2>1. PICK n :
            c = Top /\ Follows(c) /\ n = Position(c) /\ c.call \in Calls
      BY <2>0
    <2>2. /\ n \in DOMAIN c.call.text /\ Head(c.tail) = c.call.text[n]
          /\ \A j \in 1 .. n - 1 : Succeeds(c.call, j)
      BY <2>1, PositionFacts
    <2>3. ~Runs(c.call, n) /\ ~Succeeds(c.call, n) /\ c.call.text[n].malformed
      BY <1>2, <2>1, <2>2 DEF Runs, Succeeds
    <2>4. LastRun(c.call) = n
      BY <2>1, <2>2, <2>3, LastRunIs
    <2> QED BY <2>1, <2>3, <2>4
            DEF ReferenceValue, ReferenceMessage, ReferenceRows
  <1>5. ~Displaced /\ LastOutcome
    <2>1. Top.at = "prepare" /\ Top.on = NoHandle
      BY <1>1, TopFacts DEF PrepareFailed, At, FrameFits
    <2> QED BY <1>2, <2>1 DEF Displaced, LastOutcome, Return
  <1> QED BY <1>2, <1>3, <1>4, <1>5, RowsUpToZero DEF Outcome, Result, Return

(* A well-formed statement is prepared on the connection of the object. *)
LEMMA PrepareOwn ==
  ASSUME PipeInv, OwnInv, Prepare
  PROVE  OwnInv' /\ ~Returns
  <1>1. TypeOK /\ ShapeInv /\ StatementsInv /\ stack # <<>> /\ Top.at = "prepare"
    BY DEF PipeInv, Prepare, At
  <1>2. PICK c \in Frames : c = Top /\ FrameFits(c) /\ c.at = "prepare"
    BY <1>1, TopFacts
  <1>3. PICK h \in Handles : h = db /\ db \in Open
    BY DEF Prepare, Open
  <1>4. PICK e : e = AsPrepared(c, h)
    OBVIOUS
  <1>5. /\ Replace(e) /\ db' = db /\ openState' = openState
        /\ query_result' = <<>> /\ ~Head(c.tail).malformed
    BY <1>2, <1>3, <1>4 DEF Prepare, AsPrepared
  <1>6. /\ e \in Frames /\ FrameFits(e) /\ e.at = "bind" /\ e.on = h
        /\ e.left = Head(c.tail).rows /\ e.call = c.call /\ e.tail = c.tail
        /\ e.bindings = c.bindings /\ e.moved = c.moved
    BY <1>2, <1>4, <1>5, PreparedFrame
  <1>7. ASSUME ~e.moved
        PROVE  Follows(e) /\ db # NoHandle
    <2>1. Follows(c) /\ db # NoHandle
      BY <1>1, <1>2, <1>6, <1>7, TopOwn
    <2> QED BY <1>2, <1>5, <1>6, <2>1, FollowsPrepared
  <1>8. query_result' = RowsUpTo(Len(stack), Head(e.tail).rows - e.left)
    <2>1. Head(c.tail).rows \in Nat
      BY FrameFields, TextFacts
    <2>2. Head(e.tail).rows - e.left = 0
      BY <1>6, <2>1
    <2> QED BY <1>5, <2>2, RowsUpToZero
  <1>9. OwnInv'
    BY <1>1, <1>3, <1>5, <1>6, <1>7, <1>8, OwnReplace
  <1>10. Len(stack') = Len(stack) /\ Len(stack) \in Nat
    BY <1>1, <1>5, <1>6, ReplaceKeeps, TopFacts
  <1> QED BY <1>9, <1>10 DEF Returns

(* A statement its bindings do not satisfy is the last its reference comes to. *)
LEMMA RefusedOwn ==
  ASSUME PipeInv, OwnInv, BindRefused
  PROVE  OwnInv' /\ Outcome /\ Result
  <1>1. /\ TypeOK /\ ShapeInv /\ StatementsInv /\ stack # <<>>
        /\ Top.at = "bind" /\ db \in Open /\ Top.on = db /\ error_message = "ok"
    BY DEF PipeInv, PreparedInv, BindRefused, At
  <1>2. /\ error_message' = error_message /\ query_result' = query_result
        /\ Return(FALSE) /\ db' = db /\ Finalize(Top.on, "ok")
        /\ ~Satisfied(Head(Top.tail), Top.call.named, Top.bindings)
    BY DEF BindRefused
  <1>3. \A h \in Handles : openState[h] = "open" => openState'[h] = "open"
    BY <1>1, <1>2, ReturnKeeps, FinalizeKeeps DEF Open
  <1>4. OwnInv'
    BY <1>1, <1>2, <1>3, OwnReturn
  <1>5. ASSUME ~Top.moved
        PROVE  /\ ReferenceValue(Top.call) = "false"
               /\ ReferenceMessage(Top.call) = "ok"
               /\ ReferenceRows(Top.call) = 0
               /\ Head(Top.tail).rows - Top.left = 0
    <2>0. PICK c \in Frames : c = Top /\ Follows(c) /\ c.call \in Calls
      BY <1>1, <1>5, TopOwn, TopFacts, FrameFields
    <2>1. PICK n :
            c = Top /\ Follows(c) /\ n = Position(c) /\ c.call \in Calls
      BY <2>0
    <2>2. /\ n \in DOMAIN c.call.text /\ Head(c.tail) = c.call.text[n]
          /\ \A j \in 1 .. n - 1 : Succeeds(c.call, j)
      BY <2>1, PositionFacts
    <2>3. c.bindings = BindingsOf(c.call, n) /\ ~c.call.text[n].malformed
      BY <1>1, <2>1, <2>2 DEF Follows, Expects
    <2>4. ~Runs(c.call, n) /\ ~Succeeds(c.call, n)
      BY <1>2, <2>1, <2>2, <2>3 DEF BindsAt, Runs, Succeeds
    <2>5. LastRun(c.call) = n
      BY <2>1, <2>2, <2>4, LastRunIs
    <2>6. Head(c.tail).rows - c.left = 0
      <3>1. c.left = Head(c.tail).rows
        BY <1>1, <2>1 DEF Follows
      <3>2. Head(c.tail).rows \in Nat
        BY FrameFields, TextFacts
      <3> QED BY <3>1, <3>2
    <2> QED BY <2>1, <2>3, <2>4, <2>5, <2>6
            DEF ReferenceValue, ReferenceMessage, ReferenceRows
  <1>6. Outcome
    <2>1. ~Displaced
      BY <1>1 DEF Displaced
    <2>2. ~Head(Top.tail).malformed
      BY <1>1, TopFacts DEF FrameFits
    <2>3. LastOutcome
      BY <1>1, <1>2, <2>2 DEF LastOutcome, Return
    <2> QED BY <1>1, <1>2, <1>5, <2>1, <2>3 DEF Outcome, Return
  <1>7. Result
    BY <1>1, <1>2, <1>5 DEF Result, OwnInv
  <1> QED BY <1>4, <1>6, <1>7

(* The statement gets the bindings its reference gives it. *)
LEMMA BindOwn ==
  ASSUME PipeInv, OwnInv, Bind
  PROVE  OwnInv' /\ ~Returns
  <1>1. TypeOK /\ ShapeInv /\ StatementsInv /\ stack # <<>> /\ Top.at = "bind"
    BY DEF PipeInv, Bind, At
  <1>2. PICK c \in Frames : c = Top /\ FrameFits(c) /\ c.at = "bind"
    BY <1>1, TopFacts
  <1>3. PICK e : e = AsBound(c)
    OBVIOUS
  <1>4. /\ Replace(e) /\ db' = db /\ openState' = openState
        /\ query_result' = query_result
        /\ Satisfied(Head(c.tail), c.call.named, c.bindings)
    BY <1>2, <1>3 DEF Bind, AsBound
  <1>5. /\ e \in Frames /\ FrameFits(e) /\ e.at = "step" /\ e.on = c.on
        /\ e.left = c.left /\ e.call = c.call /\ e.tail = c.tail
        /\ e.bindings = Rest(c.call.named, c.bindings,
                             Len(Head(c.tail).params))
        /\ e.nested = c.nested /\ e.moved = c.moved
    BY <1>2, <1>3, BoundFrame
  <1>6. ASSUME ~e.moved
        PROVE  Follows(e) /\ db # NoHandle /\ e.on = db /\ db \in Open
    <2>1. Follows(c) /\ db # NoHandle /\ c.on = db /\ db \in Open
      BY <1>1, <1>2, <1>5, <1>6, TopOwn
    <2> QED BY <1>2, <1>4, <1>5, <2>1, FollowsBound
  <1>7. ~e.nested /\ ~e.moved =>
          query_result' = RowsUpTo(Len(stack), Head(e.tail).rows - e.left)
    BY <1>1, <1>2, <1>4, <1>5 DEF OwnInv
  <1>8. OwnInv'
    BY <1>1, <1>4, <1>5, <1>6, <1>7, OwnReplace
  <1>9. Len(stack') = Len(stack) /\ Len(stack) \in Nat
    BY <1>1, <1>4, <1>5, ReplaceKeeps, TopFacts
  <1> QED BY <1>8, <1>9 DEF Returns

(* A row of the innermost call is appended to query_result. *)
LEMMA RowOwn ==
  ASSUME PipeInv, OwnInv, Row
  PROVE  OwnInv' /\ ~Returns
  <1>1. TypeOK /\ ShapeInv /\ StatementsInv /\ stack # <<>> /\ Top.at = "step"
    BY DEF PipeInv, Row, At
  <1>2. PICK c \in Frames :
          c = Top /\ FrameFits(c) /\ c.at = "step" /\ c.left > 0
    BY <1>1, TopFacts DEF Row
  <1>3. PICK e : e = AsRowTaken(c)
    OBVIOUS
  <1>4. /\ Replace(e) /\ db' = db /\ openState' = openState
        /\ query_result' = Append(query_result,
                             [level |-> Len(stack),
                              row |-> Head(c.tail).rows - c.left + 1])
    BY <1>2, <1>3 DEF Row, AsRowTaken
  <1>5. /\ e \in Frames /\ FrameFits(e) /\ e.at = "step" /\ e.on = c.on
        /\ e.left = c.left - 1 /\ e.call = c.call /\ e.tail = c.tail
        /\ e.bindings = c.bindings
        /\ e.nested = c.nested /\ e.moved = c.moved
    BY <1>2, <1>3, RowFrame
  <1>6. ASSUME ~e.moved
        PROVE  Follows(e) /\ db # NoHandle /\ e.on = db /\ db \in Open
    <2>1. Follows(c) /\ db # NoHandle /\ c.on = db /\ db \in Open
      BY <1>1, <1>2, <1>5, <1>6, TopOwn
    <2> QED BY <1>2, <1>5, <2>1, FollowsSame
  <1>7. ASSUME ~e.nested, ~e.moved
        PROVE  query_result' = RowsUpTo(Len(stack), Head(e.tail).rows - e.left)
    <2>1. Head(c.tail).rows \in Nat /\ c.left \in Nat
      BY FrameFields, TextFacts
    <2>2. PICK n \in Nat :
            /\ n = Head(c.tail).rows - c.left
            /\ n + 1 = Head(c.tail).rows - c.left + 1
            /\ n + 1 = Head(c.tail).rows - (c.left - 1)
      <3>1. Head(c.tail).rows - c.left \in Nat
        BY <1>2, <2>1 DEF FrameFits
      <3>2. Head(c.tail).rows - c.left + 1 = Head(c.tail).rows - (c.left - 1)
        BY <2>1
      <3> QED BY <3>1, <3>2
    <2>3. query_result = RowsUpTo(Len(stack), n)
      BY <1>1, <1>2, <1>5, <1>7, <2>2 DEF OwnInv
    <2>4. PICK level \in 1 .. MaxDepth : level = Len(stack)
      <3>1. Len(stack) \in Nat \ {0}
        BY <1>1, TopFacts
      <3>2. Len(stack) \in 1 .. MaxDepth
        BY <1>1, <3>1, DepthFacts
      <3> QED BY <3>2
    <2>5. Append(RowsUpTo(level, n), [level |-> level, row |-> n + 1]) =
            RowsUpTo(level, n + 1)
      BY RowsUpToNext
    <2>6. query_result' = Append(RowsUpTo(level, n),
                                 [level |-> level, row |-> n + 1])
      BY <1>4, <2>2, <2>3, <2>4
    <2> QED BY <1>5, <2>2, <2>4, <2>5, <2>6
  <1>8. OwnInv'
    BY <1>1, <1>4, <1>5, <1>6, <1>7, OwnReplace
  <1>9. Len(stack') = Len(stack) /\ Len(stack) \in Nat
    BY <1>1, <1>4, <1>5, ReplaceKeeps, TopFacts
  <1> QED BY <1>8, <1>9 DEF Returns

(* A statement ends: the next one follows, or it is the last its reference
   comes to. *)
LEMMA CompleteOwn ==
  ASSUME PipeInv, OwnInv, Complete
  PROVE  OwnInv' /\ (Returns => Outcome /\ Result)
  <1>1. TypeOK /\ ShapeInv /\ StatementsInv /\ stack # <<>> /\ Top.at = "step"
    BY DEF PipeInv, Complete, At
  <1>2. PICK c \in Frames :
          /\ c = Top /\ FrameFits(c) /\ c.at = "step" /\ c.left = 0
          /\ c.on \in Handles
    <2>1. Top \in Frames /\ FrameFits(Top) /\ Top.left = 0
      BY <1>1, TopFacts DEF Complete
    <2>2. Top.on \in Handles
      BY <1>1, <2>1, FrameFields DEF FrameFits
    <2> QED BY <1>1, <2>1, <2>2
  <1>3. PICK code \in {"ok", "error"} : code = Head(c.tail).code
    BY FrameFields, TextFacts
  <1>4. /\ Finalize(c.on, code) /\ db' = db /\ query_result' = query_result
        /\ error_message' = ErrorOf(db, errCode')
        /\ \/ /\ error_message' = "ok" /\ Len(c.tail) > 1
              /\ Replace(AsNext(c))
           \/ /\ ~(error_message' = "ok" /\ Len(c.tail) > 1)
              /\ Return(error_message' = "ok")
    BY <1>2, <1>3 DEF Complete, AsNext
  <1>5. \A h \in Handles : openState[h] = "open" => openState'[h] = "open"
    BY <1>2, <1>4 DEF Finalize, TypeOK, PipeInv
  <1>6. errCode' = [errCode EXCEPT ![c.on] = code]
        /\ errCode \in [Handles -> Codes]
    BY <1>1, <1>4 DEF Finalize, TypeOK
  <1>7. ASSUME ~c.moved
        PROVE  /\ Follows(c) /\ db # NoHandle /\ c.on = db /\ db \in Open
               /\ error_message' = code
    <2>1. Follows(c) /\ db # NoHandle /\ c.on = db /\ db \in Open
      BY <1>1, <1>2, <1>7, TopOwn
    <2>2. errCode'[db] = code
      BY <1>2, <1>6, <2>1
    <2> QED BY <1>4, <2>1, <2>2 DEF ErrorOf
  <1>8. CASE error_message' = "ok" /\ Len(c.tail) > 1 /\ Replace(AsNext(c))
    <2>1. PICK e : e = AsNext(c)
      OBVIOUS
    <2>2. /\ e \in Frames /\ FrameFits(e) /\ e.at = "prepare"
          /\ e.call = c.call /\ e.tail = Tail(c.tail)
          /\ e.bindings = c.bindings /\ e.moved = c.moved
      BY <1>2, <1>8, <2>1, NextFrame
    <2>3. ~e.moved => Follows(e) /\ db # NoHandle
      <3> SUFFICES ASSUME ~e.moved
                   PROVE  Follows(e) /\ db # NoHandle
        OBVIOUS
      <3>1. Follows(c) /\ db # NoHandle /\ Head(c.tail).code = "ok"
        BY <1>3, <1>7, <1>8, <2>2
      <3> QED BY <1>2, <1>8, <2>2, <3>1, FollowsNext
    <2>4. Replace(e)
      BY <1>8, <2>1
    <2>5. OwnInv'
      BY <1>1, <1>4, <1>5, <2>2, <2>3, <2>4, OwnReplace
    <2>6. Len(stack') = Len(stack) /\ Len(stack) \in Nat
      BY <1>1, <2>2, <2>4, ReplaceKeeps, TopFacts
    <2> QED BY <2>5, <2>6 DEF Returns
  <1>9. CASE /\ ~(error_message' = "ok" /\ Len(c.tail) > 1)
             /\ Return(error_message' = "ok")
    <2>1. OwnInv'
      BY <1>1, <1>4, <1>5, <1>9, OwnReturn
    <2>2. ASSUME ~c.moved
          PROVE  /\ returned' = ReferenceValue(c.call)
                 /\ error_message' = ReferenceMessage(c.call)
                 /\ ReferenceRows(c.call) = Head(c.tail).rows
      <3>1. PICK n : n = Position(c) /\ Follows(c) /\ error_message' = code
        BY <1>7, <2>2
      <3>2. /\ n \in DOMAIN c.call.text /\ Head(c.tail) = c.call.text[n]
            /\ c.call \in Calls /\ (Len(c.tail) > 1 <=> n # Len(c.call.text))
            /\ \A j \in 1 .. n - 1 : Succeeds(c.call, j)
        BY <3>1, PositionFacts, FrameFields
      <3>3. Runs(c.call, n) /\ ~c.call.text[n].malformed
        BY <1>2, <3>1 DEF Follows, Runs
      <3>4. Succeeds(c.call, n) <=> code = "ok"
        BY <1>3, <3>2, <3>3 DEF Succeeds
      <3>5. n = Len(c.call.text) \/ ~Succeeds(c.call, n)
        BY <1>9, <3>1, <3>2, <3>4
      <3>6. LastRun(c.call) = n
        BY <3>2, <3>5, LastRunIs
      <3>7. returned' = IF code = "ok" THEN "true" ELSE "false"
        BY <1>9, <3>1 DEF Return
      <3> QED BY <1>3, <3>1, <3>2, <3>3, <3>4, <3>6, <3>7
              DEF ReferenceValue, ReferenceMessage, ReferenceRows
    <2>3. ASSUME db \notin Open
          PROVE  error_message' # "ok"
      <3>1. CASE db = NoHandle
        BY <1>4, <3>1 DEF ErrorOf
      <3>2. CASE db # NoHandle
        <4>1. db \in Handles
          BY <1>1, <3>2 DEF TypeOK
        <4>2. openState[db] = "sick"
          BY <1>1, <2>3, <4>1 DEF StatementsInv, Open
        <4>3. errCode[db] = "cantopen" /\ statements[db] = 0
          BY <1>1, <4>1, <4>2 DEF StatementsInv
        <4>4. statements[c.on] # 0
          <5>1. /\ statements[c.on] = Cardinality(Users(stack, c.on))
                /\ stack \in Seq(Frames)
            BY <1>1, <1>2 DEF StatementsInv, ShapeInv
          <5>2. /\ Cardinality(Users(stack, c.on)) =
                     Cardinality(Below(stack, c.on)) + 1
                /\ Cardinality(Below(stack, c.on)) \in Nat
            BY <1>1, <1>2, <5>1, UsersSplit, UsersAreFinite DEF Top
          <5> QED BY <5>1, <5>2
        <4>5. errCode'[db] = "cantopen"
          BY <1>2, <1>6, <4>1, <4>3, <4>4
        <4> QED BY <1>4, <3>2, <4>5 DEF ErrorOf
      <3> QED BY <3>1, <3>2
    <2>4. Outcome
      <3>1. error_message' # "ok" => returned' = "false"
        BY <1>9 DEF Return
      <3>2. ASSUME db \in Open
            PROVE  db # NoHandle /\ error_message' = errCode'[db]
        <4>1. db # NoHandle
          BY <3>2, NoHandleAssumption DEF Open
        <4> QED BY <1>4, <4>1 DEF ErrorOf
      <3>3. ASSUME db \in Open, Displaced
            PROVE  /\ error_message' = errCode[db]
                   /\ returned' = IF errCode[db] = "ok" THEN "true" ELSE "false"
        <4>1. errCode'[db] = errCode[db]
          BY <1>2, <1>6, <3>3 DEF Displaced, Open
        <4> QED BY <1>9, <3>2, <3>3, <4>1 DEF Return
      <3>4. ASSUME db \in Open, ~Displaced
            PROVE  LastOutcome
        <4>1. errCode'[db] = code
          BY <1>2, <1>6, <3>2, <3>4, NoHandleAssumption DEF Displaced
        <4>2. ~Head(Top.tail).malformed
          BY <1>1, TopFacts DEF FrameFits
        <4>3. error_message' = code
          BY <3>2, <3>4, <4>1
        <4> QED BY <1>1, <1>2, <1>3, <1>9, <4>2, <4>3 DEF LastOutcome, Return
      <3> QED BY <1>2, <2>2, <2>3, <3>1, <3>3, <3>4 DEF Outcome
    <2>5. Result
      <3> SUFFICES ASSUME ~Top.nested, ~Top.moved
                   PROVE  query_result' = RowsUpTo(Len(stack),
                                                   ReferenceRows(Top.call))
        BY DEF Result
      <3>1. query_result = RowsUpTo(Len(stack), Head(c.tail).rows - c.left)
        BY <1>1, <1>2 DEF OwnInv
      <3>2. Head(c.tail).rows - c.left = Head(c.tail).rows
        <4>1. Head(c.tail).rows \in Nat
          BY FrameFields, TextFacts
        <4> QED BY <1>2, <4>1
      <3> QED BY <1>2, <1>4, <2>2, <3>1, <3>2
    <2> QED BY <2>1, <2>4, <2>5
  <1> QED BY <1>4, <1>8, <1>9

(* Every step of the program. *)
LEMMA OwnStep ==
  ASSUME PipeInv, OwnInv, [Next]_vars
  PROVE  OwnInv' /\ (Returns => Outcome /\ Result)
  <1>1. CASE open_db
    BY <1>1, OpenOwn
  <1>2. CASE close_db
    BY <1>2, CloseOwn
  <1>3. CASE query_with_bindings
    BY <1>3, CallOwn
  <1>4. CASE PrepareMisuse
    BY <1>4, MisuseOwn
  <1>5. CASE PrepareFailed
    BY <1>5, FailedOwn
  <1>6. CASE Prepare
    BY <1>6, PrepareOwn
  <1>7. CASE BindRefused
    BY <1>7, RefusedOwn
  <1>8. CASE Bind
    BY <1>8, BindOwn
  <1>9. CASE Row
    BY <1>9, RowOwn
  <1>10. CASE Complete
    BY <1>10, CompleteOwn
  <1>11. CASE UNCHANGED vars
    <2>1. OwnInv'
      BY <1>11 DEF vars, OwnInv, Stays, Top, Open
    <2>2. ~Returns
      <3>1. stack' = stack /\ Len(stack) \in Nat
        BY <1>11 DEF vars, PipeInv, ShapeInv
      <3> QED BY <3>1 DEF Returns
    <2> QED BY <2>1, <2>2
  <1> QED BY <1>1, <1>2, <1>3, <1>4, <1>5, <1>6, <1>7, <1>8, <1>9, <1>10, <1>11
          DEF Next

(* A call whose object stays connected has executed, of its own text and with
   its own bindings, exactly what its reference has at that point. *)
THEOREM OwnInvariant == Spec => [](PipeInv /\ OwnInv)
  <1>1. Init => OwnInv
    <2> SUFFICES ASSUME Init
                 PROVE  OwnInv
      OBVIOUS
    <2>1. stack = <<>>
      BY DEF Init
    <2>2. DOMAIN stack = {}
      BY <2>1
    <2> QED BY <2>1, <2>2 DEF OwnInv
  <1>2. PipeInv /\ OwnInv /\ [Next]_vars => OwnInv'
    BY OwnStep
  <1> QED BY <1>1, <1>2, PipeInvariant, PTL DEF Spec

(* A call returns, and leaves in error_message, what its own statements and
   bindings come to, whatever is nested in it, unless the object has another
   connection by then than the statement it ends with: then it is what that
   connection's last statement came to. *)
THEOREM OutcomesAreOwn == Spec => OutcomeIsOwn
  <1>1. PipeInv /\ OwnInv /\ [Next]_vars => [Returns => Outcome]_vars
    BY OwnStep
  <1>2. Outcome <=>
          IF db \notin Open
          THEN returned' = "false" /\ error_message' # "ok"
          ELSE IF Displaced
          THEN /\ error_message' = errCode[db]
               /\ returned' = IF errCode[db] = "ok" THEN "true" ELSE "false"
          ELSE /\ LastOutcome
               /\ ~Top.moved => /\ returned' = ReferenceValue(Top.call)
                                /\ error_message' = ReferenceMessage(Top.call)
    BY DEF Outcome
  <1> QED BY <1>1, <1>2, OwnInvariant, PTL DEF Spec, OutcomeIsOwn

(* A call nothing is nested in leaves the rows of the last statement it came
   to, and none of any other query. *)
THEOREM ResultsAreExact == Spec => ResultIsExact
  <1>1. PipeInv /\ OwnInv /\ [Next]_vars => [Returns => Result]_vars
    BY OwnStep
  <1>2. (Returns => Result) =>
          (Returns /\ ~Top.nested /\ ~Top.moved /\ db \in Open
             => query_result' = [i \in 1 .. ReferenceRows(Top.call) |->
                                   [level |-> Len(stack), row |-> i]])
    BY DEF Result, RowsUpTo
  <1> QED BY <1>1, <1>2, OwnInvariant, PTL DEF Spec, ResultIsExact
=============================================================================
