-------------------------- MODULE HttpServerProofs --------------------------
(***************************************************************************)
(* The safety properties of HttpServer for any number of connections and   *)
(* handles, whatever is asked for, whatever is cut and whichever streams   *)
(* fail: the types, OwnSocket, and that the server implements              *)
(* RequestResponse.                                                        *)
(*                                                                         *)
(* They rest on what the loops of Encoding compute, for every text:        *)
(* encoding a path and decoding it again gives the path back.  A loop that *)
(* is a function of its own state has a value because it is the value at   *)
(* the end of the run that starts there.                                   *)
(***************************************************************************)
EXTENDS HttpServer, TLAPS, WellFoundedInduction, NaturalsInduction, FiniteSetTheorems,
        SequenceTheorems

-----------------------------------------------------------------------------
(* The naturals *)

\* A set of naturals that is not empty has a least element.
LEMMA LeastNatural ==
    ASSUME NEW T, T \subseteq Nat, T # {}
    PROVE  \E n \in T : \A m \in T : n <= m
<1>1. PICK n \in T : \A m \in T : <<m, n>> \notin OpToRel(<, Nat)
  BY NatLessThanWellFounded, WFMin, Zenon
<1>2. SUFFICES ASSUME NEW m \in T
               PROVE  n <= m
  OBVIOUS
<1>3. <<m, n>> \notin OpToRel(<, Nat)
  BY <1>1
<1>4. <<m, n>> \in Nat \X Nat
  OBVIOUS
<1>5. ~(m < n)
  BY <1>3, <1>4 DEF OpToRel
<1> QED BY <1>5

\* Induction over the naturals, for a set in place of a formula.
LEMMA Induction ==
    ASSUME NEW S, 0 \in S, \A n \in Nat : n \in S => n + 1 \in S
    PROVE  Nat \subseteq S
<1> DEFINE T == Nat \ S
<1>1. SUFFICES ASSUME T # {} PROVE FALSE
  OBVIOUS
<1>2. PICK n \in T : \A m \in T : n <= m
  <2>1. T \subseteq Nat
    OBVIOUS
  <2> HIDE DEF T
  <2> QED BY <1>1, <2>1, LeastNatural
<1>3. n # 0 /\ n - 1 \in Nat /\ ~(n <= n - 1) /\ (n - 1) + 1 = n
  OBVIOUS
<1>4. n - 1 \in S
  BY <1>2, <1>3
<1> QED BY <1>3, <1>4

-----------------------------------------------------------------------------
(* Loops *)

\* A loop is a function of the state that it starts in, be it one that ends or not:
\* what out makes of the final state that its steps lead to.
LoopFunction(S, final, step, out) ==
    CHOOSE f : \A s \in S : f[s] = IF s \in final THEN out[s] ELSE f[step[s]]

LEMMA LoopIsFunction ==
    ASSUME NEW S, NEW final, NEW step, NEW out,
           \A s \in S \ final : step[s] \in S
    PROVE  \A s \in S :
               LoopFunction(S, final, step, out)[s]
                   = IF s \in final THEN out[s] ELSE LoopFunction(S, final, step, out)[step[s]]
<1> DEFINE Runs(s) == {q \in Seq(S) : /\ Len(q) >= 1
                                      /\ q[1] = s
                                      /\ \A i \in 1 .. Len(q) - 1 :
                                            q[i] \notin final /\ q[i + 1] = step[q[i]]}
           Ends(s) == {t \in final : \E q \in Runs(s) : q[Len(q)] = t}
           f == [s \in S |-> out[CHOOSE t : t \in Ends(s)]]
<1>1. ASSUME NEW s \in S, s \in final
      PROVE  Ends(s) = {s}
  <2>1. ASSUME NEW q \in Runs(s) PROVE q[Len(q)] = s
    <3>1. /\ q \in Seq(S) /\ Len(q) >= 1 /\ q[1] = s
          /\ \A i \in 1 .. Len(q) - 1 : q[i] \notin final
      OBVIOUS
    <3>2. Len(q) \in Nat
      BY <3>1
    <3>3. Len(q) = 1
      <4>1. SUFFICES ASSUME Len(q) # 1 PROVE FALSE
        OBVIOUS
      <4>2. \A n \in Nat : n >= 1 /\ n # 1 => 1 \in 1 .. n - 1
        OBVIOUS
      <4>3. 1 \in 1 .. Len(q) - 1
        BY <3>1, <3>2, <4>1, <4>2
      <4> QED BY <1>1, <3>1, <4>3
    <3> QED BY <3>1, <3>3
  <2>2. <<s>> \in Runs(s) /\ Len(<<s>>) = 1 /\ <<s>>[1] = s
    OBVIOUS
  <2> HIDE DEF Runs
  <2> QED BY <1>1, <2>1, <2>2
<1>2. ASSUME NEW s \in S, s \notin final
      PROVE  Ends(s) = Ends(step[s])
  <2>1. ASSUME NEW t \in Ends(s) PROVE t \in Ends(step[s])
    <3>1. PICK q \in Runs(s) : q[Len(q)] = t
      OBVIOUS
    <3>2. /\ q \in Seq(S) /\ Len(q) \in Nat /\ Len(q) >= 1
          /\ q[1] = s
          /\ \A i \in 1 .. Len(q) - 1 : q[i] \notin final /\ q[i + 1] = step[q[i]]
      OBVIOUS
    <3>3. Len(q) # 1
      BY <1>2, <3>1, <3>2
    <3> DEFINE r == Tail(q)
    <3>4. /\ r \in Seq(S) /\ Len(r) = Len(q) - 1
          /\ \A i \in 1 .. Len(r) : r[i] = q[i + 1]
      BY <3>2, <3>3
    <3>5. r[1] = step[s]
      <4>1. 1 \in 1 .. Len(r) /\ 1 \in 1 .. Len(q) - 1
        BY <3>2, <3>3, <3>4
      <4> QED BY <3>2, <3>4, <4>1
    <3>6. r[Len(r)] = t
      BY <3>1, <3>2, <3>3, <3>4
    <3>7. ASSUME NEW i \in 1 .. Len(r) - 1
          PROVE  r[i] \notin final /\ r[i + 1] = step[r[i]]
      <4>1. /\ i \in 1 .. Len(r) /\ i + 1 \in 1 .. Len(r) /\ i + 1 \in 1 .. Len(q) - 1
        BY <3>2, <3>4
      <4> QED BY <3>2, <3>4, <4>1
    <3>8. Len(r) >= 1
      BY <3>2, <3>3, <3>4
    <3>9. r \in Runs(step[s])
      <4> HIDE DEF r
      <4> QED BY <3>4, <3>5, <3>7, <3>8
    <3> QED BY <3>6, <3>9
  <2>2. ASSUME NEW t \in Ends(step[s]) PROVE t \in Ends(s)
    <3>1. PICK q \in Runs(step[s]) : q[Len(q)] = t
      OBVIOUS
    <3>2. /\ q \in Seq(S) /\ Len(q) \in Nat /\ Len(q) >= 1
          /\ q[1] = step[s]
          /\ \A i \in 1 .. Len(q) - 1 : q[i] \notin final /\ q[i + 1] = step[q[i]]
      OBVIOUS
    <3> DEFINE r == <<s>> \o q
    <3>3. /\ r \in Seq(S) /\ Len(r) = Len(q) + 1 /\ r[1] = s
          /\ \A i \in 1 .. Len(q) : r[i + 1] = q[i]
      BY <3>2
    <3>4. r[Len(r)] = t
      BY <3>1, <3>2, <3>3
    <3>5. ASSUME NEW i \in 1 .. Len(r) - 1
          PROVE  r[i] \notin final /\ r[i + 1] = step[r[i]]
      <4>1. i \in 1 .. Len(q)
        BY <3>2, <3>3
      <4>2. CASE i = 1
        BY <1>2, <3>2, <3>3, <4>1, <4>2
      <4>3. CASE i # 1
        <5>1. i - 1 \in 1 .. Len(q) - 1 /\ i - 1 \in 1 .. Len(q) /\ (i - 1) + 1 = i
          BY <3>2, <4>1, <4>3
        <5>2. r[i] = q[i - 1] /\ r[i + 1] = q[i]
          BY <3>3, <4>1, <5>1
        <5> QED BY <3>2, <5>1, <5>2
      <4> QED BY <4>2, <4>3
    <3>6. r \in Runs(s)
      <4> HIDE DEF r
      <4> QED BY <3>2, <3>3, <3>5
    <3> QED BY <3>4, <3>6
  <2> HIDE DEF Ends
  <2> QED BY <2>1, <2>2
<1>3. ASSUME NEW s \in S
      PROVE  f[s] = IF s \in final THEN out[s] ELSE f[step[s]]
  <2> HIDE DEF Ends
  <2>1. CASE s \in final
    <3>1. (CHOOSE t : t \in {s}) = s
      OBVIOUS
    <3> QED BY <1>1, <2>1, <3>1
  <2>2. CASE s \notin final
    BY <1>2, <2>2
  <2> QED BY <2>1, <2>2
<1> HIDE DEF f
<1> QED BY <1>3, Zenon DEF LoopFunction

-----------------------------------------------------------------------------
(* DecodeLoop and EncodeLoop, one turn at a time *)

DecodeEnds(s) == s.i > Len(s.url) \/ (s.url[s.i] = Percent /\ Len(s.url) - s.i < 2)

DecodedByte(s) ==
    IF s.url[s.i] = Plus THEN Space
    ELSE IF s.url[s.i] # Percent THEN s.url[s.i]
    ELSE (HexCharToNumber(s.url[s.i + 1]) * 16 + HexCharToNumber(s.url[s.i + 2])) % 256

DecodeStep(s) == Put(s, DecodedByte(s), IF s.url[s.i] = Percent THEN 3 ELSE 1)

LEMMA HexCharType ==
    ASSUME NEW c \in Byte
    PROVE  HexCharToNumber(c) \in Int
BY DEF HexCharToNumber, Byte

\* The loop never leaves the states it is defined on.
LEMMA DecodeStepType ==
    ASSUME NEW s \in DecodeState, ~DecodeEnds(s)
    PROVE  DecodeStep(s) \in DecodeState
<1>1. /\ s = [url |-> s.url, i |-> s.i, decodedLength |-> s.decodedLength]
      /\ s.url \in Seq(Byte) /\ s.i \in Nat /\ s.decodedLength \in Nat
      /\ s.decodedLength < s.i
  BY DEF DecodeState
<1>2. s.i \in 1 .. Len(s.url) /\ s.decodedLength + 1 \in 1 .. Len(s.url)
  BY <1>1 DEF DecodeEnds
<1>3. DecodedByte(s) \in Byte
  <2>1. s.url[s.i] \in Byte
    BY <1>1, <1>2
  <2>2. CASE s.url[s.i] = Percent
    <3>1. s.i + 1 \in 1 .. Len(s.url) /\ s.i + 2 \in 1 .. Len(s.url)
      BY <1>1, <1>2, <2>2 DEF DecodeEnds
    <3>2. HexCharToNumber(s.url[s.i + 1]) \in Int /\ HexCharToNumber(s.url[s.i + 2]) \in Int
      BY <1>1, <3>1, HexCharType
    <3>3. \A x \in Int, y \in Int : (x * 16 + y) % 256 \in 0 .. 255
      OBVIOUS
    <3>4. DecodedByte(s)
              = (HexCharToNumber(s.url[s.i + 1]) * 16 + HexCharToNumber(s.url[s.i + 2])) % 256
      BY <2>2 DEF DecodedByte, Percent, Plus
    <3> QED BY <3>2, <3>3, <3>4 DEF Byte
  <2>3. CASE s.url[s.i] # Percent
    BY <2>1, <2>3 DEF DecodedByte, Byte, Space, Plus
  <2> QED BY <2>2, <2>3
<1>4. [s.url EXCEPT ![s.decodedLength + 1] = DecodedByte(s)] \in Seq(Byte)
  BY <1>1, <1>2, <1>3
<1>5. /\ s.i + (IF s.url[s.i] = Percent THEN 3 ELSE 1) \in Nat
      /\ s.decodedLength + 1 \in Nat
      /\ s.decodedLength + 1 < s.i + (IF s.url[s.i] = Percent THEN 3 ELSE 1)
  BY <1>1
<1> QED BY <1>4, <1>5 DEF DecodeState, DecodeStep, Put

LEMMA DecodeLoopTurns ==
    ASSUME NEW s \in DecodeState
    PROVE  DecodeLoop[s] = IF DecodeEnds(s) THEN s ELSE DecodeLoop[DecodeStep(s)]
<1> DEFINE final == {t \in DecodeState : DecodeEnds(t)}
           step == [t \in DecodeState |-> DecodeStep(t)]
           out == [t \in DecodeState |-> t]
           Turn(f, t) ==
               IF t.i > Len(t.url) THEN t
               ELSE IF t.url[t.i] = Plus THEN f[Put(t, Space, 1)]
               ELSE IF t.url[t.i] # Percent THEN f[Put(t, t.url[t.i], 1)]
               ELSE IF Len(t.url) - t.i < 2 THEN t
               ELSE f[Put(t, (HexCharToNumber(t.url[t.i + 1]) * 16
                                + HexCharToNumber(t.url[t.i + 2])) % 256, 3)]
<1>1. \A t \in DecodeState \ final : step[t] \in DecodeState
  BY DecodeStepType
<1> DEFINE loop == LoopFunction(DecodeState, final, step, out)
           f == [t \in DecodeState |-> loop[t]]
<1>2. \A t \in DecodeState : loop[t] = IF t \in final THEN out[t] ELSE loop[step[t]]
  <2> HIDE DEF final, step, out
  <2> QED BY <1>1, LoopIsFunction
<1>3. ASSUME NEW g, NEW t \in DecodeState
      PROVE  Turn(g, t) = IF DecodeEnds(t) THEN t ELSE g[DecodeStep(t)]
  <2>1. CASE t.i > Len(t.url)
    BY <2>1 DEF DecodeEnds
  <2>2. CASE ~(t.i > Len(t.url)) /\ t.url[t.i] = Plus
    <3>1. t.url[t.i] # Percent
      BY <2>2 DEF Percent, Plus
    <3> QED BY <2>2, <3>1 DEF DecodeEnds, DecodeStep, DecodedByte
  <2>3. CASE ~(t.i > Len(t.url)) /\ t.url[t.i] # Plus /\ t.url[t.i] # Percent
    BY <2>3 DEF DecodeEnds, DecodeStep, DecodedByte
  <2>4. CASE ~(t.i > Len(t.url)) /\ t.url[t.i] # Plus /\ t.url[t.i] = Percent
    BY <2>4 DEF DecodeEnds, DecodeStep, DecodedByte
  <2> QED BY <2>1, <2>2, <2>3, <2>4
<1>4. f = [t \in DecodeState |-> Turn(f, t)]
  <2>1. ASSUME NEW t \in DecodeState PROVE f[t] = Turn(f, t)
    <3>1. f[t] = IF t \in final THEN out[t] ELSE f[step[t]]
      <4> HIDE DEF final, step, out, loop
      <4> QED BY <1>1, <1>2
    <3>2. /\ t \in final <=> DecodeEnds(t)
          /\ out[t] = t /\ step[t] = DecodeStep(t)
      OBVIOUS
    <3> HIDE DEF final, step, out, Turn, f
    <3> QED BY <1>3, <3>1, <3>2
  <2>2. f = [t \in DecodeState |-> f[t]]
    OBVIOUS
  <2> HIDE DEF Turn, f
  <2> QED BY <2>1, <2>2
<1>5. DecodeLoop = [t \in DecodeState |-> Turn(DecodeLoop, t)]
  <2> HIDE DEF f
  <2>1. \E g : g = [t \in DecodeState |-> Turn(g, t)]
    <3> HIDE DEF Turn
    <3> QED BY <1>4, Zenon
  <2> QED BY <2>1, Zenon DEF DecodeLoop
<1>6. DecodeLoop[s] = Turn(DecodeLoop, s)
  <2> HIDE DEF Turn
  <2> QED BY <1>5
<1> HIDE DEF Turn
<1> QED BY <1>3, <1>6

EncodeStep(s) ==
    LET c == s.url[s.index]
    IN  IF NeedsUrlEncoding(c)
        THEN [url |-> [s.url EXCEPT ![s.encodedIndex] = HexDigitToHexChar(c % 16),
                                    ![s.encodedIndex - 1] = HexDigitToHexChar(c \div 16),
                                    ![s.encodedIndex - 2] = Percent],
              index |-> s.index - 1, encodedIndex |-> s.encodedIndex - 3]
        ELSE [url |-> [s.url EXCEPT ![s.encodedIndex] = c],
              index |-> s.index - 1, encodedIndex |-> s.encodedIndex - 1]

LEMMA HexDigitType ==
    ASSUME NEW c \in Byte
    PROVE  /\ HexDigitToHexChar(c % 16) \in Byte
           /\ HexDigitToHexChar(c \div 16) \in Byte
<1>1. c % 16 \in 0 .. 15 /\ c \div 16 \in 0 .. 15
  BY DEF Byte
<1> QED BY <1>1 DEF HexDigitToHexChar, Byte

LEMMA EncodeStepType ==
    ASSUME NEW s \in EncodeState, s.index # 0
    PROVE  EncodeStep(s) \in EncodeState
<1>1. /\ s.url \in Seq(Byte) /\ s.index \in Nat /\ s.encodedIndex \in Int
      /\ s.index <= Len(s.url)
  BY DEF EncodeState
<1> DEFINE c == s.url[s.index]
<1>2. c \in Byte
  <2>1. s.index \in 1 .. Len(s.url)
    BY <1>1
  <2> QED BY <1>1, <2>1
<1>3. ASSUME NEW u \in Seq(Byte), NEW e \in Int, NEW b \in Byte
      PROVE  [u EXCEPT ![e] = b] \in Seq(Byte) /\ Len([u EXCEPT ![e] = b]) = Len(u)
  <2>1. CASE e \in 1 .. Len(u)
    BY <2>1, ExceptSeq
  <2>2. CASE e \notin 1 .. Len(u)
    <3>1. [u EXCEPT ![e] = b] = u
      BY <2>2
    <3> QED BY <3>1
  <2> QED BY <2>1, <2>2
<1>4. Percent \in Byte
  BY DEF Percent, Byte
<1>5. HexDigitToHexChar(c % 16) \in Byte /\ HexDigitToHexChar(c \div 16) \in Byte
  BY <1>2, HexDigitType
<1>6. s.index - 1 \in Nat /\ s.index - 1 <= Len(s.url)
      /\ s.encodedIndex - 1 \in Int /\ s.encodedIndex - 2 \in Int /\ s.encodedIndex - 3 \in Int
  BY <1>1
<1> DEFINE u1 == [s.url EXCEPT ![s.encodedIndex] = HexDigitToHexChar(c % 16)]
           u2 == [u1 EXCEPT ![s.encodedIndex - 1] = HexDigitToHexChar(c \div 16)]
           u3 == [u2 EXCEPT ![s.encodedIndex - 2] = Percent]
<1>7. u1 \in Seq(Byte) /\ Len(u1) = Len(s.url)
  <2> HIDE DEF c
  <2> QED BY <1>1, <1>3, <1>5
<1>8. u2 \in Seq(Byte) /\ Len(u2) = Len(s.url)
  <2> HIDE DEF c, u1
  <2> QED BY <1>3, <1>5, <1>6, <1>7
<1>9. u3 \in Seq(Byte) /\ Len(u3) = Len(s.url)
  <2> HIDE DEF c, u2
  <2> QED BY <1>3, <1>4, <1>6, <1>8
<1>10. CASE NeedsUrlEncoding(c)
  <2>1. EncodeStep(s) = [url |-> u3, index |-> s.index - 1, encodedIndex |-> s.encodedIndex - 3]
    BY <1>10 DEF EncodeStep
  <2> HIDE DEF u3
  <2> QED BY <1>6, <1>9, <2>1 DEF EncodeState
<1>11. CASE ~NeedsUrlEncoding(c)
  <2> DEFINE u == [s.url EXCEPT ![s.encodedIndex] = c]
  <2>1. EncodeStep(s) = [url |-> u, index |-> s.index - 1, encodedIndex |-> s.encodedIndex - 1]
    BY <1>11 DEF EncodeStep
  <2>2. u \in Seq(Byte) /\ Len(u) = Len(s.url)
    BY <1>1, <1>2, <1>3
  <2> HIDE DEF u
  <2> QED BY <1>6, <2>1, <2>2 DEF EncodeState
<1> QED BY <1>10, <1>11

LEMMA EncodeLoopTurns ==
    ASSUME NEW s \in EncodeState
    PROVE  EncodeLoop[s] = IF s.index = 0 THEN s.url ELSE EncodeLoop[EncodeStep(s)]
<1> DEFINE final == {t \in EncodeState : t.index = 0}
           step == [t \in EncodeState |-> EncodeStep(t)]
           out == [t \in EncodeState |-> t.url]
           Turn(f, t) ==
               LET c == t.url[t.index]
               IN  IF t.index = 0 THEN t.url
                   ELSE IF NeedsUrlEncoding(c)
                   THEN f[[url |-> [t.url EXCEPT ![t.encodedIndex] = HexDigitToHexChar(c % 16),
                                                 ![t.encodedIndex - 1] = HexDigitToHexChar(c \div 16),
                                                 ![t.encodedIndex - 2] = Percent],
                           index |-> t.index - 1, encodedIndex |-> t.encodedIndex - 3]]
                   ELSE f[[url |-> [t.url EXCEPT ![t.encodedIndex] = c],
                           index |-> t.index - 1, encodedIndex |-> t.encodedIndex - 1]]
<1>1. \A t \in EncodeState \ final : step[t] \in EncodeState
  BY EncodeStepType
<1> DEFINE loop == LoopFunction(EncodeState, final, step, out)
           f == [t \in EncodeState |-> loop[t]]
<1>2. \A t \in EncodeState : loop[t] = IF t \in final THEN out[t] ELSE loop[step[t]]
  <2> HIDE DEF final, step, out
  <2> QED BY <1>1, LoopIsFunction
<1>3. ASSUME NEW g, NEW t \in EncodeState
      PROVE  Turn(g, t) = IF t.index = 0 THEN t.url ELSE g[EncodeStep(t)]
  BY DEF EncodeStep
<1>4. f = [t \in EncodeState |-> Turn(f, t)]
  <2>1. ASSUME NEW t \in EncodeState PROVE f[t] = Turn(f, t)
    <3>1. f[t] = IF t \in final THEN out[t] ELSE f[step[t]]
      <4> HIDE DEF final, step, out, loop
      <4> QED BY <1>1, <1>2
    <3>2. /\ t \in final <=> t.index = 0
          /\ out[t] = t.url /\ step[t] = EncodeStep(t)
      OBVIOUS
    <3> HIDE DEF final, step, out, Turn, f
    <3> QED BY <1>3, <3>1, <3>2
  <2>2. f = [t \in EncodeState |-> f[t]]
    OBVIOUS
  <2> HIDE DEF Turn, f
  <2> QED BY <2>1, <2>2
<1>5. EncodeLoop = [t \in EncodeState |-> Turn(EncodeLoop, t)]
  <2> HIDE DEF f
  <2>1. \E g : g = [t \in EncodeState |-> Turn(g, t)]
    <3> HIDE DEF Turn
    <3> QED BY <1>4, Zenon
  <2> QED BY <2>1, Zenon DEF EncodeLoop
<1>6. EncodeLoop[s] = Turn(EncodeLoop, s)
  <2> HIDE DEF Turn
  <2> QED BY <1>5
<1> HIDE DEF Turn
<1> QED BY <1>3, <1>6

-----------------------------------------------------------------------------
(* What the loops compute *)

\* Where the encoding of the first k characters of p ends.
Offset(p, k) == k + 2 * Cardinality({i \in 1 .. k : NeedsUrlEncoding(p[i])})

\* The encoding of the kth character stands in u where it belongs.
Encodes(u, p, k) ==
    IF NeedsUrlEncoding(p[k])
    THEN /\ u[Offset(p, k) - 2] = Percent
         /\ u[Offset(p, k) - 1] = HexDigitToHexChar(p[k] \div 16)
         /\ u[Offset(p, k)] = HexDigitToHexChar(p[k] % 16)
    ELSE u[Offset(p, k)] = p[k]

IsEncodingOf(u, p) ==
    /\ u \in Seq(Byte)
    /\ Len(u) = Offset(p, Len(p))
    /\ \A k \in 1 .. Len(p) : Encodes(u, p, k)

LEMMA OffsetType ==
    ASSUME NEW p, NEW k \in Nat
    PROVE  /\ Offset(p, k) \in Nat
           /\ k <= Offset(p, k)
<1> DEFINE I == {i \in 1 .. k : NeedsUrlEncoding(p[i])}
<1>1. IsFiniteSet(1 .. k)
  BY FS_Interval
<1>2. IsFiniteSet(I)
  <2>1. I \subseteq 1 .. k
    OBVIOUS
  <2> HIDE DEF I
  <2> QED BY <1>1, <2>1, FS_Subset
<1>3. Cardinality(I) \in Nat
  <2> HIDE DEF I
  <2> QED BY <1>2, FS_CardinalityType
<1>4. Offset(p, k) = k + 2 * Cardinality(I)
  BY DEF Offset
<1> HIDE DEF I
<1> QED BY <1>3, <1>4

LEMMA OffsetZero == \A p : Offset(p, 0) = 0
<1> SUFFICES ASSUME NEW p PROVE Offset(p, 0) = 0
  OBVIOUS
<1>1. {i \in 1 .. 0 : NeedsUrlEncoding(p[i])} = {}
  OBVIOUS
<1>2. Cardinality({}) = 0
  BY FS_EmptySet
<1> QED BY <1>1, <1>2 DEF Offset

LEMMA OffsetNext ==
    ASSUME NEW p, NEW k \in Nat
    PROVE  Offset(p, k + 1) = Offset(p, k) + (IF NeedsUrlEncoding(p[k + 1]) THEN 3 ELSE 1)
<1> DEFINE I(n) == {i \in 1 .. n : NeedsUrlEncoding(p[i])}
<1>1. IsFiniteSet(I(k)) /\ Cardinality(I(k)) \in Nat
  <2>1. I(k) \subseteq 1 .. k /\ IsFiniteSet(1 .. k)
    BY FS_Interval
  <2> HIDE DEF I
  <2> QED BY <2>1, FS_Subset, FS_CardinalityType
<1>2. Offset(p, k) = k + 2 * Cardinality(I(k)) /\ Offset(p, k + 1) = k + 1 + 2 * Cardinality(I(k + 1))
  BY DEF Offset
<1>3. CASE NeedsUrlEncoding(p[k + 1])
  <2>1. I(k + 1) = I(k) \cup {k + 1} /\ k + 1 \notin I(k)
    BY <1>3
  <2>2. Cardinality(I(k + 1)) = Cardinality(I(k)) + 1
    <3> HIDE DEF I
    <3> QED BY <1>1, <2>1, FS_AddElement
  <2> HIDE DEF I
  <2> QED BY <1>1, <1>2, <1>3, <2>2
<1>4. CASE ~NeedsUrlEncoding(p[k + 1])
  <2>1. I(k + 1) = I(k)
    BY <1>4
  <2> HIDE DEF I
  <2> QED BY <1>1, <1>2, <1>4, <2>1
<1> QED BY <1>3, <1>4

LEMMA OffsetGrows ==
    ASSUME NEW p, NEW k \in Nat, NEW n \in Nat, k <= n
    PROVE  Offset(p, k) <= Offset(p, n)
<1> DEFINE S == {d \in Nat : Offset(p, k) <= Offset(p, k + d)}
<1>1. 0 \in S
  BY OffsetType
<1>2. ASSUME NEW d \in Nat, d \in S
      PROVE  d + 1 \in S
  <2>1. Offset(p, k + (d + 1)) = Offset(p, k + d)
                                     + (IF NeedsUrlEncoding(p[(k + d) + 1]) THEN 3 ELSE 1)
    <3>1. k + d \in Nat /\ k + (d + 1) = (k + d) + 1
      OBVIOUS
    <3> QED BY <3>1, OffsetNext
  <2>2. Offset(p, k) \in Nat /\ Offset(p, k + d) \in Nat
    BY OffsetType
  <2> QED BY <1>2, <2>1, <2>2
<1>3. Nat \subseteq S
  <2> HIDE DEF S
  <2> QED BY <1>1, <1>2, Induction
<1>4. n - k \in Nat /\ k + (n - k) = n
  OBVIOUS
<1> QED BY <1>3, <1>4

\* The places of the (k + 1)th character's encoding: after those of the first k, and
\* before all that come later.
LEMMA BlockPlaces ==
    ASSUME NEW p \in Seq(Byte), NEW k \in Nat, k < Len(p)
    PROVE  /\ k + 1 \in 1 .. Len(p)
           /\ Offset(p, k) \in Nat /\ k <= Offset(p, k)
           /\ Offset(p, k + 1) \in Nat /\ Offset(p, Len(p)) \in Nat
           /\ Offset(p, k + 1) <= Offset(p, Len(p))
           /\ NeedsUrlEncoding(p[k + 1]) => Offset(p, k + 1) = Offset(p, k) + 3
           /\ ~NeedsUrlEncoding(p[k + 1]) => Offset(p, k + 1) = Offset(p, k) + 1
<1>1. Len(p) \in Nat /\ k + 1 \in Nat /\ k + 1 <= Len(p)
  OBVIOUS
<1> QED BY <1>1, OffsetType, OffsetNext, OffsetGrows

\* A text that differs only before the place of the jth character still encodes it.
LEMMA EncodesElsewhere ==
    ASSUME NEW p \in Seq(Byte), NEW u, NEW v, NEW k \in Nat, NEW j \in 1 .. Len(p), k < j,
           \A n \in 1 .. Offset(p, Len(p)) : n > Offset(p, k) => v[n] = u[n],
           Encodes(u, p, j)
    PROVE  Encodes(v, p, j)
<1>1. /\ j - 1 \in Nat /\ j - 1 < Len(p) /\ (j - 1) + 1 = j /\ k <= j - 1
  OBVIOUS
<1>2. /\ Offset(p, j - 1) \in Nat /\ Offset(p, j) \in Nat /\ Offset(p, Len(p)) \in Nat
      /\ Offset(p, j) <= Offset(p, Len(p))
      /\ NeedsUrlEncoding(p[j]) => Offset(p, j) = Offset(p, j - 1) + 3
      /\ ~NeedsUrlEncoding(p[j]) => Offset(p, j) = Offset(p, j - 1) + 1
  BY <1>1, BlockPlaces
<1>3. Offset(p, k) \in Nat /\ Offset(p, k) <= Offset(p, j - 1)
  BY <1>1, OffsetType, OffsetGrows
<1>4. CASE NeedsUrlEncoding(p[j])
  <2>1. \A n \in {Offset(p, j) - 2, Offset(p, j) - 1, Offset(p, j)} :
            n \in 1 .. Offset(p, Len(p)) /\ n > Offset(p, k)
    BY <1>2, <1>3, <1>4
  <2> QED BY <1>4, <2>1 DEF Encodes
<1>5. CASE ~NeedsUrlEncoding(p[j])
  <2>1. Offset(p, j) \in 1 .. Offset(p, Len(p)) /\ Offset(p, j) > Offset(p, k)
    BY <1>2, <1>3, <1>5
  <2> QED BY <1>5, <2>1 DEF Encodes
<1> QED BY <1>4, <1>5

\* The states of EncodeLoop: the first k characters are still to be encoded.
EncodedFrom(s, p, k) ==
    /\ s \in EncodeState
    /\ s.index = k /\ s.encodedIndex = Offset(p, k)
    /\ Len(s.url) = Offset(p, Len(p))
    /\ \A j \in 1 .. k : s.url[j] = p[j]
    /\ \A j \in k + 1 .. Len(p) : Encodes(s.url, p, j)

LEMMA EncodeTurn ==
    ASSUME NEW p \in Seq(Byte), NEW k \in Nat, k < Len(p), NEW s, EncodedFrom(s, p, k + 1)
    PROVE  EncodedFrom(EncodeStep(s), p, k)
<1> DEFINE c == p[k + 1]
           e == Offset(p, k + 1)
           t == EncodeStep(s)
<1>1. /\ s \in EncodeState /\ s.index = k + 1 /\ s.encodedIndex = e
      /\ s.url \in Seq(Byte) /\ Len(s.url) = Offset(p, Len(p))
      /\ \A j \in 1 .. k + 1 : s.url[j] = p[j]
      /\ \A j \in k + 2 .. Len(p) : Encodes(s.url, p, j)
  BY DEF EncodedFrom, EncodeState
<1>2. t \in EncodeState
  BY <1>1, EncodeStepType
<1>3. /\ k + 1 \in 1 .. Len(p)
      /\ Offset(p, k) \in Nat /\ k <= Offset(p, k)
      /\ e \in Nat /\ Offset(p, Len(p)) \in Nat
      /\ e <= Offset(p, Len(p))
      /\ NeedsUrlEncoding(c) => e = Offset(p, k) + 3
      /\ ~NeedsUrlEncoding(c) => e = Offset(p, k) + 1
  BY BlockPlaces
<1>4. s.url[s.index] = c
  BY <1>1, <1>3
<1>5. /\ t.index = k /\ t.encodedIndex = Offset(p, k)
      /\ Len(t.url) = Len(s.url)
      /\ \A n \in 1 .. Len(s.url) : n <= Offset(p, k) \/ n > e => t.url[n] = s.url[n]
      /\ Encodes(t.url, p, k + 1)
  <2> HIDE DEF c, e
  <2>1. CASE NeedsUrlEncoding(c)
    <3>1. t = [url |-> [s.url EXCEPT ![e] = HexDigitToHexChar(c % 16),
                                     ![e - 1] = HexDigitToHexChar(c \div 16),
                                     ![e - 2] = Percent],
               index |-> k, encodedIndex |-> e - 3]
      BY <1>1, <1>4, <2>1 DEF EncodeStep
    <3>2. e \in 1 .. Len(s.url) /\ e - 1 \in 1 .. Len(s.url) /\ e - 2 \in 1 .. Len(s.url)
          /\ e - 3 = Offset(p, k)
      BY <1>1, <1>3, <2>1
    <3> DEFINE u1 == [s.url EXCEPT ![e] = HexDigitToHexChar(c % 16)]
               u2 == [u1 EXCEPT ![e - 1] = HexDigitToHexChar(c \div 16)]
               u3 == [u2 EXCEPT ![e - 2] = Percent]
    <3>a. e # e - 1 /\ e # e - 2 /\ e - 1 # e - 2
      BY <1>3
    <3>b. /\ DOMAIN u1 = 1 .. Len(s.url) /\ u1[e] = HexDigitToHexChar(c % 16)
          /\ \A n \in 1 .. Len(s.url) : n # e => u1[n] = s.url[n]
      BY <1>1, <3>2
    <3>c. /\ DOMAIN u2 = 1 .. Len(s.url) /\ u2[e - 1] = HexDigitToHexChar(c \div 16)
          /\ \A n \in 1 .. Len(s.url) : n # e - 1 => u2[n] = u1[n]
      <4> HIDE DEF u1
      <4> QED BY <3>2, <3>b
    <3>d. /\ DOMAIN u3 = 1 .. Len(s.url) /\ u3[e - 2] = Percent
          /\ \A n \in 1 .. Len(s.url) : n # e - 2 => u3[n] = u2[n]
      <4> HIDE DEF u2
      <4> QED BY <3>2, <3>c
    <3>e. t.url = u3
      BY <3>1
    <3>f. Len(t.url) = Len(s.url)
      BY <1>1, <1>2, <3>d, <3>e DEF EncodeState
    <3>3. /\ Len(t.url) = Len(s.url)
          /\ t.url[e - 2] = Percent /\ t.url[e - 1] = HexDigitToHexChar(c \div 16)
          /\ t.url[e] = HexDigitToHexChar(c % 16)
          /\ \A n \in 1 .. Len(s.url) : n \notin {e, e - 1, e - 2} => t.url[n] = s.url[n]
      <4> HIDE DEF u1, u2, u3, t
      <4> QED BY <3>2, <3>a, <3>b, <3>c, <3>d, <3>e, <3>f
    <3>4. \A n \in 1 .. Len(s.url) : n <= Offset(p, k) \/ n > e => n \notin {e, e - 1, e - 2}
      BY <1>3, <3>2
    <3> QED BY <2>1, <3>1, <3>2, <3>3, <3>4 DEF Encodes, c, e
  <2>2. CASE ~NeedsUrlEncoding(c)
    <3>1. t = [url |-> [s.url EXCEPT ![e] = c], index |-> k, encodedIndex |-> e - 1]
      BY <1>1, <1>4, <2>2 DEF EncodeStep
    <3>2. e \in 1 .. Len(s.url) /\ e - 1 = Offset(p, k)
      BY <1>1, <1>3, <2>2
    <3>3. /\ Len(t.url) = Len(s.url)
          /\ t.url[e] = c
          /\ \A n \in 1 .. Len(s.url) : n # e => t.url[n] = s.url[n]
      BY <1>1, <3>1, <3>2
    <3>4. \A n \in 1 .. Len(s.url) : n <= Offset(p, k) \/ n > e => n # e
      BY <1>3, <3>2
    <3> QED BY <2>2, <3>1, <3>2, <3>3, <3>4 DEF Encodes, c, e
  <2> QED BY <2>1, <2>2
<1>6. ASSUME NEW j \in 1 .. k
      PROVE  t.url[j] = p[j]
  <2>1. j \in 1 .. Len(s.url) /\ j <= Offset(p, k) /\ j \in 1 .. k + 1
    BY <1>1, <1>3
  <2> HIDE DEF t, e
  <2> QED BY <1>1, <1>5, <2>1
<1>7. ASSUME NEW j \in k + 1 .. Len(p)
      PROVE  Encodes(t.url, p, j)
  <2>1. CASE j = k + 1
    BY <1>5, <2>1
  <2>2. CASE j # k + 1
    <3>1. j \in k + 2 .. Len(p) /\ j \in 1 .. Len(p) /\ k + 1 < j /\ k + 1 \in Nat
      BY <2>2
    <3>2. Encodes(s.url, p, j)
      BY <1>1, <3>1
    <3>3. \A n \in 1 .. Offset(p, Len(p)) : n > Offset(p, k + 1) => t.url[n] = s.url[n]
      <4> HIDE DEF t
      <4> QED BY <1>1, <1>5
    <3> HIDE DEF t
    <3> QED BY <3>1, <3>2, <3>3, EncodesElsewhere
  <2> QED BY <2>1, <2>2
<1>8. EncodedFrom(t, p, k)
  <2> HIDE DEF t, e
  <2> QED BY <1>1, <1>2, <1>5, <1>6, <1>7 DEF EncodedFrom
<1> QED BY <1>8

\* What EncodeUrl returns.
LEMMA EncodeUrlEncodes ==
    ASSUME NEW p \in Seq(Byte)
    PROVE  IsEncodingOf(EncodeUrl(p), p)
<1> DEFINE S == {k \in Nat : k <= Len(p) =>
                     \A s : EncodedFrom(s, p, k) => IsEncodingOf(EncodeLoop[s], p)}
<1>1. 0 \in S
  <2>1. ASSUME NEW s, EncodedFrom(s, p, 0)
        PROVE  IsEncodingOf(EncodeLoop[s], p)
    <3>1. EncodeLoop[s] = s.url /\ s.url \in Seq(Byte)
      BY <2>1, EncodeLoopTurns DEF EncodedFrom, EncodeState
    <3>2. \A j \in 1 .. Len(p) : j \in 0 + 1 .. Len(p)
      OBVIOUS
    <3> QED BY <2>1, <3>1, <3>2 DEF EncodedFrom, IsEncodingOf
  <2> QED BY <2>1
<1>2. ASSUME NEW k \in Nat, k \in S
      PROVE  k + 1 \in S
  <2>1. SUFFICES ASSUME k + 1 <= Len(p), NEW s, EncodedFrom(s, p, k + 1)
                 PROVE  IsEncodingOf(EncodeLoop[s], p)
    OBVIOUS
  <2>2. k < Len(p) /\ k <= Len(p)
    BY <2>1
  <2>3. EncodedFrom(EncodeStep(s), p, k)
    BY <2>1, <2>2, EncodeTurn
  <2>4. EncodeLoop[s] = EncodeLoop[EncodeStep(s)]
    BY <2>1, EncodeLoopTurns DEF EncodedFrom
  <2> QED BY <1>2, <2>2, <2>3, <2>4
<1>3. Len(p) \in S
  <2>1. Nat \subseteq S
    <3> HIDE DEF S
    <3> QED BY <1>1, <1>2, Induction
  <2> QED BY <2>1
<1> DEFINE n == Len(p)
           encodedLength == Offset(p, n)
           s == [url |-> [i \in 1 .. encodedLength |-> IF i <= Len(p) THEN p[i] ELSE 0],
                 index |-> n, encodedIndex |-> encodedLength]
<1>4. EncodeUrl(p) = EncodeLoop[s]
  <2>1. DOMAIN p = 1 .. Len(p)
    OBVIOUS
  <2>2. Quantify(DOMAIN p, LAMBDA i : NeedsUrlEncoding(p[i]))
            = Cardinality({i \in 1 .. Len(p) : NeedsUrlEncoding(p[i])})
    BY <2>1 DEF Quantify
  <2> QED BY <2>2 DEF EncodeUrl, Offset
<1>5. EncodedFrom(s, p, n)
  <2>1. n \in Nat /\ encodedLength \in Nat /\ n <= encodedLength
    BY OffsetType
  <2>2. s.url \in Seq(Byte) /\ Len(s.url) = encodedLength
    <3> HIDE DEF encodedLength
    <3>1. ASSUME NEW i \in 1 .. encodedLength
          PROVE  (IF i <= Len(p) THEN p[i] ELSE 0) \in Byte
      <4>1. i <= Len(p) => i \in 1 .. Len(p)
        BY <2>1
      <4>2. i <= Len(p) => p[i] \in Byte
        BY <4>1
      <4>3. 0 \in Byte
        BY DEF Byte
      <4> QED BY <4>2, <4>3
    <3> QED BY <2>1, <3>1
  <2>3. \A j \in 1 .. n : s.url[j] = p[j]
    <3> HIDE DEF encodedLength
    <3> QED BY <2>1
  <2>4. s \in EncodeState
    <3> HIDE DEF encodedLength
    <3> QED BY <2>1, <2>2 DEF EncodeState
  <2>5. n + 1 .. Len(p) = {}
    OBVIOUS
  <2> QED BY <2>2, <2>3, <2>4, <2>5 DEF EncodedFrom
<1> HIDE DEF s
<1> QED BY <1>3, <1>4, <1>5

\* A link holds nothing that ends a request's path, nor what browsers change.
LEMMA EncodedIsPlain ==
    ASSUME NEW p \in Seq(Byte), NEW u, IsEncodingOf(u, p)
    PROVE  \A n \in 1 .. Len(u) : u[n] \in Unreserved \cup {Percent}
<1> DEFINE S == {k \in Nat : k <= Len(p) =>
                     \A n \in 1 .. Offset(p, k) : u[n] \in Unreserved \cup {Percent}}
<1>1. 0 \in S
  <2>1. 1 .. Offset(p, 0) = {}
    BY OffsetZero
  <2> QED BY <2>1
<1>2. ASSUME NEW k \in Nat, k \in S
      PROVE  k + 1 \in S
  <2>1. SUFFICES ASSUME k + 1 <= Len(p), NEW n \in 1 .. Offset(p, k + 1)
                 PROVE  u[n] \in Unreserved \cup {Percent}
    OBVIOUS
  <2>2. k < Len(p) /\ k <= Len(p)
    BY <2>1
  <2>3. /\ k + 1 \in 1 .. Len(p)
        /\ Offset(p, k) \in Nat /\ Offset(p, k + 1) \in Nat
        /\ NeedsUrlEncoding(p[k + 1]) => Offset(p, k + 1) = Offset(p, k) + 3
        /\ ~NeedsUrlEncoding(p[k + 1]) => Offset(p, k + 1) = Offset(p, k) + 1
    BY <2>2, BlockPlaces
  <2>4. Encodes(u, p, k + 1)
    BY <2>3 DEF IsEncodingOf
  <2>5. CASE n <= Offset(p, k)
    <3>1. n \in 1 .. Offset(p, k)
      BY <2>3, <2>5
    <3> QED BY <1>2, <2>2, <3>1
  <2>6. CASE ~(n <= Offset(p, k)) /\ NeedsUrlEncoding(p[k + 1])
    <3>1. n \in {Offset(p, k + 1) - 2, Offset(p, k + 1) - 1, Offset(p, k + 1)}
      BY <2>3, <2>6
    <3>2. p[k + 1] \in Byte
      BY <2>3
    <3>3. \A d \in 0 .. 15 : HexDigitToHexChar(d) \in Unreserved
      BY DEF HexDigitToHexChar, Unreserved, Digits, Capitals
    <3>4. \A c \in Byte : c % 16 \in 0 .. 15 /\ c \div 16 \in 0 .. 15
      BY DEF Byte
    <3>5. p[k + 1] % 16 \in 0 .. 15 /\ p[k + 1] \div 16 \in 0 .. 15
      BY <3>2, <3>4
    <3> QED BY <2>4, <2>6, <3>1, <3>3, <3>5 DEF Encodes
  <2>7. CASE ~(n <= Offset(p, k)) /\ ~NeedsUrlEncoding(p[k + 1])
    <3>1. n = Offset(p, k + 1)
      BY <2>3, <2>7
    <3> QED BY <2>4, <2>7, <3>1 DEF Encodes, NeedsUrlEncoding
  <2> QED BY <2>5, <2>6, <2>7
<1>3. Len(p) \in S
  <2>1. Nat \subseteq S
    <3> HIDE DEF S
    <3> QED BY <1>1, <1>2, Induction
  <2> QED BY <2>1
<1> QED BY <1>3 DEF IsEncodingOf

\* Two digits give back the byte that they were made of.
LEMMA DigitsDecode ==
    ASSUME NEW c \in Byte
    PROVE  (HexCharToNumber(HexDigitToHexChar(c \div 16)) * 16
                + HexCharToNumber(HexDigitToHexChar(c % 16))) % 256 = c
<1>1. \A d \in 0 .. 15 : HexCharToNumber(HexDigitToHexChar(d)) = d
  BY DEF HexDigitToHexChar, HexCharToNumber
<1>2. c % 16 \in 0 .. 15 /\ c \div 16 \in 0 .. 15
  BY DEF Byte
<1>3. ((c \div 16) * 16 + (c % 16)) % 256 = c
  BY DEF Byte
<1> QED BY <1>1, <1>2, <1>3

\* The states of DecodeLoop: the first k characters are decoded, and what is left
\* of the encoding is not overwritten yet.
DecodedUpTo(s, p, k) ==
    /\ s \in DecodeState
    /\ s.decodedLength = k /\ s.i = Offset(p, k) + 1
    /\ Len(s.url) = Offset(p, Len(p))
    /\ \A j \in 1 .. k : s.url[j] = p[j]
    /\ \A j \in k + 1 .. Len(p) : Encodes(s.url, p, j)

LEMMA DecodeTurn ==
    ASSUME NEW p \in Seq(Byte), NEW k \in Nat, k < Len(p), NEW s, DecodedUpTo(s, p, k)
    PROVE  ~DecodeEnds(s) /\ DecodedUpTo(DecodeStep(s), p, k + 1)
<1> DEFINE c == p[k + 1]
           e == Offset(p, k + 1)
           t == DecodeStep(s)
<1>1. /\ s \in DecodeState /\ s.decodedLength = k /\ s.i = Offset(p, k) + 1
      /\ s.url \in Seq(Byte) /\ Len(s.url) = Offset(p, Len(p))
      /\ \A j \in 1 .. k : s.url[j] = p[j]
      /\ \A j \in k + 1 .. Len(p) : Encodes(s.url, p, j)
  BY DEF DecodedUpTo, DecodeState
<1>2. /\ k + 1 \in 1 .. Len(p) /\ k + 1 \in k + 1 .. Len(p)
      /\ Offset(p, k) \in Nat /\ k <= Offset(p, k)
      /\ e \in Nat /\ Offset(p, Len(p)) \in Nat
      /\ e <= Offset(p, Len(p))
      /\ NeedsUrlEncoding(c) => e = Offset(p, k) + 3
      /\ ~NeedsUrlEncoding(c) => e = Offset(p, k) + 1
  BY BlockPlaces
<1>3. c \in Byte /\ Encodes(s.url, p, k + 1)
  BY <1>1, <1>2
<1>4. /\ ~DecodeEnds(s) /\ DecodedByte(s) = c
      /\ s.i + (IF s.url[s.i] = Percent THEN 3 ELSE 1) = e + 1
  <2>1. CASE NeedsUrlEncoding(c)
    <3>1. /\ s.i = e - 2 /\ s.i + 1 = e - 1 /\ s.i + 2 = e /\ s.i + 3 = e + 1
          /\ ~(s.i > Len(s.url)) /\ ~(Len(s.url) - s.i < 2)
      BY <1>1, <1>2, <2>1
    <3>2. /\ s.url[s.i] = Percent
          /\ s.url[s.i + 1] = HexDigitToHexChar(c \div 16)
          /\ s.url[s.i + 2] = HexDigitToHexChar(c % 16)
      BY <1>3, <2>1, <3>1 DEF Encodes
    <3>3. DecodedByte(s)
              = (HexCharToNumber(s.url[s.i + 1]) * 16 + HexCharToNumber(s.url[s.i + 2])) % 256
      BY <3>2 DEF DecodedByte, Percent, Plus
    <3>4. DecodedByte(s) = c
      BY <1>3, <3>2, <3>3, DigitsDecode
    <3> QED BY <3>1, <3>2, <3>4 DEF DecodeEnds
  <2>2. CASE ~NeedsUrlEncoding(c)
    <3>1. s.i = e /\ s.i + 1 = e + 1 /\ ~(s.i > Len(s.url))
      BY <1>1, <1>2, <2>2
    <3>2. s.url[s.i] = c
      BY <1>3, <2>2, <3>1 DEF Encodes
    <3>3. c # Percent /\ c # Plus
      <4>1. \A x \in Unreserved : x # Percent /\ x # Plus
        BY DEF Unreserved, Digits, Capitals, SmallLetters, Percent, Plus
      <4> QED BY <2>2, <4>1 DEF NeedsUrlEncoding
    <3> QED BY <3>1, <3>2, <3>3 DEF DecodeEnds, DecodedByte
  <2> QED BY <2>1, <2>2
<1>5. t \in DecodeState
  BY <1>1, <1>4, DecodeStepType
<1>6. t = [url |-> [s.url EXCEPT ![k + 1] = c], i |-> e + 1, decodedLength |-> k + 1]
  BY <1>1, <1>4 DEF DecodeStep, Put
<1>7. k + 1 \in 1 .. Len(s.url) /\ k + 1 <= e
  <2> HIDE DEF e
  <2> QED BY <1>1, <1>2
<1>8. /\ Len(t.url) = Len(s.url) /\ t.url[k + 1] = c
      /\ \A n \in 1 .. Len(s.url) : n # k + 1 => t.url[n] = s.url[n]
  <2> HIDE DEF t, c, e
  <2> QED BY <1>1, <1>6, <1>7
<1>9. ASSUME NEW j \in 1 .. k + 1
      PROVE  t.url[j] = p[j]
  <2>1. CASE j = k + 1
    BY <1>8, <2>1
  <2>2. CASE j # k + 1
    <3>1. j \in 1 .. k /\ j \in 1 .. Len(s.url)
      BY <1>7, <2>2
    <3> HIDE DEF t
    <3> QED BY <1>1, <1>8, <2>2, <3>1
  <2> QED BY <2>1, <2>2
<1>10. ASSUME NEW j \in k + 2 .. Len(p)
       PROVE  Encodes(t.url, p, j)
  <2>1. j \in k + 1 .. Len(p) /\ j \in 1 .. Len(p) /\ k + 1 < j /\ k + 1 \in Nat
    OBVIOUS
  <2>2. Encodes(s.url, p, j)
    BY <1>1, <2>1
  <2>3. \A n \in 1 .. Offset(p, Len(p)) : n > Offset(p, k + 1) => t.url[n] = s.url[n]
    <3>1. \A n \in 1 .. Offset(p, Len(p)) : n > e => n # k + 1
      <4> HIDE DEF e
      <4> QED BY <1>2, <1>7
    <3> HIDE DEF t
    <3> QED BY <1>1, <1>8, <3>1
  <2> HIDE DEF t
  <2> QED BY <2>1, <2>2, <2>3, EncodesElsewhere
<1>11. DecodedUpTo(t, p, k + 1)
  <2>1. \A j \in (k + 1) + 1 .. Len(p) : j \in k + 2 .. Len(p)
    OBVIOUS
  <2>2. t.decodedLength = k + 1 /\ t.i = e + 1
    BY <1>6
  <2> HIDE DEF t, c
  <2> QED BY <1>1, <1>5, <1>8, <1>9, <1>10, <2>1, <2>2 DEF DecodedUpTo
<1> QED BY <1>4, <1>11

LEMMA DecodeUrlDecodes ==
    ASSUME NEW p \in Seq(Byte), NEW u, IsEncodingOf(u, p)
    PROVE  DecodeUrl(u) = p
<1> DEFINE Result(s) == SubSeq(DecodeLoop[s].url, 1, DecodeLoop[s].decodedLength)
           S == {d \in Nat : d <= Len(p) =>
                     \A s : DecodedUpTo(s, p, Len(p) - d) => Result(s) = p}
<1>1. 0 \in S
  <2>1. ASSUME NEW s, DecodedUpTo(s, p, Len(p))
        PROVE  Result(s) = p
    <3>1. /\ s \in DecodeState /\ s.decodedLength = Len(p) /\ s.i = Offset(p, Len(p)) + 1
          /\ s.url \in Seq(Byte) /\ Len(s.url) = Offset(p, Len(p))
          /\ \A j \in 1 .. Len(p) : s.url[j] = p[j]
      BY <2>1 DEF DecodedUpTo, DecodeState
    <3>2. Len(p) \in Nat /\ Offset(p, Len(p)) \in Nat /\ Len(p) <= Offset(p, Len(p))
      BY OffsetType
    <3>3. DecodeLoop[s] = s
      BY <3>1, <3>2, DecodeLoopTurns DEF DecodeEnds
    <3>4. SubSeq(s.url, 1, Len(p)) = p
      BY <3>1, <3>2
    <3> QED BY <3>1, <3>3, <3>4
  <2>2. Len(p) - 0 = Len(p)
    OBVIOUS
  <2> HIDE DEF Result
  <2> QED BY <2>1, <2>2
<1>2. ASSUME NEW d \in Nat, d \in S
      PROVE  d + 1 \in S
  <2>1. SUFFICES ASSUME d + 1 <= Len(p), NEW s, DecodedUpTo(s, p, Len(p) - (d + 1))
                 PROVE  Result(s) = p
    <3> HIDE DEF Result
    <3> QED OBVIOUS
  <2> DEFINE k == Len(p) - (d + 1)
  <2>2. k \in Nat /\ k < Len(p) /\ d <= Len(p) /\ k + 1 = Len(p) - d
    BY <2>1
  <2>3. ~DecodeEnds(s) /\ DecodedUpTo(DecodeStep(s), p, k + 1)
    <3> HIDE DEF k
    <3> QED BY <2>1, <2>2, DecodeTurn DEF k
  <2>4. DecodeLoop[s] = DecodeLoop[DecodeStep(s)]
    BY <2>1, <2>3, DecodeLoopTurns DEF DecodedUpTo
  <2>5. Result(DecodeStep(s)) = p
    <3> HIDE DEF Result, k
    <3> QED BY <1>2, <2>2, <2>3
  <2> QED BY <2>4, <2>5
<1>3. Len(p) \in S
  <2>1. Nat \subseteq S
    <3> HIDE DEF S
    <3> QED BY <1>1, <1>2, Induction
  <2> HIDE DEF S
  <2> QED BY <2>1
<1> DEFINE s == [url |-> u, i |-> 1, decodedLength |-> 0]
<1>4. DecodedUpTo(s, p, 0)
  <2>1. s \in DecodeState
    BY DEF DecodeState, IsEncodingOf
  <2>2. Offset(p, 0) + 1 = 1
    BY OffsetZero
  <2>3. \A j \in 0 + 1 .. Len(p) : j \in 1 .. Len(p)
    OBVIOUS
  <2> QED BY <2>1, <2>2, <2>3 DEF DecodedUpTo, IsEncodingOf
<1>5. DecodeUrl(u) = Result(s)
  BY DEF DecodeUrl
<1>6. Len(p) - Len(p) = 0 /\ Len(p) <= Len(p)
  OBVIOUS
<1> HIDE DEF s, Result
<1> QED BY <1>3, <1>4, <1>5, <1>6

\* Whatever a path is made of, the link of EncodeUrlInline is decoded to it by
\* DecodeUrlInline.
THEOREM LinksDecode == \A p \in Seq(Byte) : DecodeUrl(EncodeUrl(p)) = p
BY EncodeUrlEncodes, DecodeUrlDecodes

\* DecodeUrl makes a text of any text.
LEMMA DecodeUrlType ==
    ASSUME NEW u \in Seq(Byte)
    PROVE  DecodeUrl(u) \in Seq(Byte)
<1> DEFINE S == {d \in Nat : \A s \in DecodeState :
                     Len(s.url) + 1 - s.i <= d /\ s.decodedLength <= Len(s.url)
                         => /\ DecodeLoop[s] \in DecodeState
                            /\ DecodeLoop[s].decodedLength <= Len(DecodeLoop[s].url)}
<1>1. 0 \in S
  <2>1. ASSUME NEW s \in DecodeState, Len(s.url) + 1 - s.i <= 0
        PROVE  DecodeLoop[s] = s
    <3>1. s.url \in Seq(Byte) /\ s.i \in Nat /\ Len(s.url) \in Nat
      BY DEF DecodeState
    <3>2. s.i > Len(s.url)
      BY <2>1, <3>1
    <3> QED BY <3>2, DecodeLoopTurns DEF DecodeEnds
  <2> QED BY <2>1
<1>2. ASSUME NEW d \in Nat, d \in S
      PROVE  d + 1 \in S
  <2>1. SUFFICES ASSUME NEW s \in DecodeState, Len(s.url) + 1 - s.i <= d + 1,
                        s.decodedLength <= Len(s.url)
                 PROVE  /\ DecodeLoop[s] \in DecodeState
                        /\ DecodeLoop[s].decodedLength <= Len(DecodeLoop[s].url)
    OBVIOUS
  <2>2. CASE DecodeEnds(s)
    <3>1. DecodeLoop[s] = s
      BY <2>2, DecodeLoopTurns
    <3> QED BY <2>1, <3>1
  <2>3. CASE ~DecodeEnds(s)
    <3> DEFINE t == DecodeStep(s)
    <3>1. t \in DecodeState /\ DecodeLoop[s] = DecodeLoop[t]
      BY <2>3, DecodeStepType, DecodeLoopTurns
    <3>2. /\ s.url \in Seq(Byte) /\ s.i \in Nat /\ s.decodedLength \in Nat
          /\ s.decodedLength < s.i /\ Len(s.url) \in Nat /\ ~(s.i > Len(s.url))
      BY <2>3 DEF DecodeState, DecodeEnds
    <3>3. /\ t.i = s.i + 3 \/ t.i = s.i + 1
          /\ t.decodedLength = s.decodedLength + 1
          /\ Len(t.url) = Len(s.url)
      BY <3>2 DEF DecodeStep, Put
    <3>4. Len(t.url) + 1 - t.i <= d /\ t.decodedLength <= Len(t.url)
      <4> HIDE DEF t
      <4>1. \A length, i, n \in Nat :
                length + 1 - i <= d + 1 /\ n < i /\ ~(i > length)
                    => /\ length + 1 - (i + 3) <= d /\ length + 1 - (i + 1) <= d
                       /\ n + 1 <= length
        OBVIOUS
      <4>2. /\ Len(s.url) + 1 - (s.i + 3) <= d /\ Len(s.url) + 1 - (s.i + 1) <= d
            /\ s.decodedLength + 1 <= Len(s.url)
        BY <2>1, <3>2, <4>1
      <4> QED BY <3>3, <4>2
    <3> HIDE DEF t
    <3> QED BY <1>2, <3>1, <3>4
  <2> QED BY <2>2, <2>3
<1> DEFINE s == [url |-> u, i |-> 1, decodedLength |-> 0]
<1>3. s \in DecodeState /\ Len(s.url) + 1 - s.i <= Len(u) /\ s.decodedLength <= Len(s.url)
  BY DEF DecodeState
<1>4. Len(u) \in S
  <2>1. Nat \subseteq S
    <3> HIDE DEF S
    <3> QED BY <1>1, <1>2, Induction
  <2> HIDE DEF S
  <2> QED BY <2>1
<1> DEFINE end == DecodeLoop[s]
<1>5. end \in DecodeState /\ end.decodedLength <= Len(end.url)
  <2> HIDE DEF s
  <2> QED BY <1>3, <1>4
<1>6. DecodeUrl(u) = SubSeq(end.url, 1, end.decodedLength)
  BY DEF DecodeUrl
<1> HIDE DEF end
<1>7. /\ end.url \in Seq(Byte) /\ end.decodedLength \in Nat /\ Len(end.url) \in Nat
  BY <1>5 DEF DecodeState
<1> QED BY <1>5, <1>6, <1>7

\* A text without plus signs and percent signs stands for itself.
LEMMA PlainDecodes ==
    ASSUME NEW u \in Seq(Byte), \A n \in 1 .. Len(u) : u[n] \notin {Plus, Percent}
    PROVE  DecodeUrl(u) = u
<1> DEFINE State(k) == [url |-> u, i |-> k + 1, decodedLength |-> k]
           S == {d \in Nat : d <= Len(u) => DecodeLoop[State(Len(u) - d)] = State(Len(u))}
<1>1. \A k \in Nat : State(k) \in DecodeState
  BY DEF DecodeState
<1>2. 0 \in S
  <2>1. Len(u) \in Nat /\ Len(u) - 0 = Len(u) /\ Len(u) + 1 > Len(u)
    OBVIOUS
  <2>2. DecodeEnds(State(Len(u)))
    BY <2>1 DEF DecodeEnds
  <2>3. DecodeLoop[State(Len(u))] = State(Len(u))
    <3> HIDE DEF State
    <3> QED BY <1>1, <2>1, <2>2, DecodeLoopTurns
  <2> HIDE DEF State
  <2> QED BY <2>1, <2>3
<1>3. ASSUME NEW d \in Nat, d \in S
      PROVE  d + 1 \in S
  <2>1. SUFFICES ASSUME d + 1 <= Len(u)
                 PROVE  DecodeLoop[State(Len(u) - (d + 1))] = State(Len(u))
    <3> HIDE DEF State
    <3> QED OBVIOUS
  <2> DEFINE k == Len(u) - (d + 1)
  <2>2. k \in Nat /\ k + 1 \in 1 .. Len(u) /\ k + 1 = Len(u) - d /\ d <= Len(u)
    BY <2>1
  <2> HIDE DEF k
  <2>3. u[k + 1] # Plus /\ u[k + 1] # Percent
    BY <2>2
  <2>4. ~DecodeEnds(State(k))
    BY <2>2, <2>3 DEF DecodeEnds
  <2>5. DecodeStep(State(k)) = State(k + 1)
    <3>1. [u EXCEPT ![k + 1] = u[k + 1]] = u
      BY <2>2
    <3> QED BY <2>2, <2>3, <3>1 DEF DecodeStep, DecodedByte, Put
  <2>6. DecodeLoop[State(k)] = DecodeLoop[State(k + 1)]
    <3> HIDE DEF State
    <3> QED BY <1>1, <2>2, <2>4, <2>5, DecodeLoopTurns
  <2> HIDE DEF State
  <2> QED BY <1>3, <2>2, <2>6 DEF k
<1>4. Len(u) \in S
  <2>1. Nat \subseteq S
    <3> HIDE DEF S
    <3> QED BY <1>2, <1>3, Induction
  <2> HIDE DEF S
  <2> QED BY <2>1
<1>5. Len(u) - Len(u) = 0 /\ Len(u) <= Len(u)
  OBVIOUS
<1>6. DecodeLoop[State(0)] = State(Len(u))
  <2> HIDE DEF State
  <2> QED BY <1>4, <1>5
<1>7. State(0) = [url |-> u, i |-> 1, decodedLength |-> 0]
  OBVIOUS
<1>8. DecodeUrl(u) = SubSeq(DecodeLoop[State(0)].url, 1, DecodeLoop[State(0)].decodedLength)
  <2> HIDE DEF State
  <2> QED BY <1>7 DEF DecodeUrl
<1>9. SubSeq(u, 1, Len(u)) = u
  OBVIOUS
<1> QED BY <1>6, <1>8, <1>9

-----------------------------------------------------------------------------
(* The texts of requests *)

LEMMA LeastOf ==
    ASSUME NEW S, S \subseteq Nat, S # {}
    PROVE  Min(S) \in S /\ \A m \in S : Min(S) <= m
<1>1. \E n \in S : \A m \in S : n <= m
  BY LeastNatural
<1> QED BY <1>1, Zenon DEF Min

LEMMA SubText ==
    ASSUME NEW text \in Bytes, NEW m \in 1 .. Len(text) + 1, NEW n \in 0 .. Len(text)
    PROVE  SubSeq(text, m, n) \in Bytes
BY DEF Bytes

LEMMA FirstPart ==
    ASSUME NEW text \in Bytes, NEW n \in 0 .. Len(text)
    PROVE  /\ SubSeq(text, 1, n) \in Bytes
           /\ Len(SubSeq(text, 1, n)) = n
           /\ \A i \in 1 .. n : SubSeq(text, 1, n)[i] = text[i]
BY DEF Bytes

\* Two texts one after the other.
LEMMA Joined ==
    ASSUME NEW s \in Bytes, NEW t \in Bytes
    PROVE  /\ s \o t \in Bytes
           /\ Len(s \o t) = Len(s) + Len(t)
           /\ \A i \in 1 .. Len(s) : (s \o t)[i] = s[i]
           /\ \A i \in 1 .. Len(t) : (s \o t)[Len(s) + i] = t[i]
BY DEF Bytes

\* A text in which one character is replaced by another.
Replace(u, old, new) == [i \in DOMAIN u |-> IF u[i] = old THEN new ELSE u[i]]

LEMMA Replaced ==
    ASSUME NEW u \in Bytes, NEW old, NEW new \in Byte
    PROVE  /\ Replace(u, old, new) \in Bytes /\ Len(Replace(u, old, new)) = Len(u)
           /\ \A i \in 1 .. Len(u) : Replace(u, old, new)[i] = IF u[i] = old THEN new ELSE u[i]
<1>1. PICK v : v = Replace(u, old, new)
  OBVIOUS
<1>2. DOMAIN u = 1 .. Len(u) /\ Len(u) \in Nat /\ \A i \in 1 .. Len(u) : u[i] \in Byte
  BY DEF Bytes
<1>3. /\ v = [i \in 1 .. Len(u) |-> v[i]]
      /\ \A i \in 1 .. Len(u) : v[i] = (IF u[i] = old THEN new ELSE u[i]) /\ v[i] \in Byte
  BY <1>1, <1>2 DEF Replace
<1>4. v \in Seq(Byte) /\ Len(v) = Len(u)
  BY <1>2, <1>3
<1> QED BY <1>1, <1>3, <1>4 DEF Bytes

LEMMA ParseRequestType ==
    ASSUME NEW data \in Bytes, Len(data) >= 1
    PROVE  ParseRequest(data) \in Bytes
<1> DEFINE found == {i \in 1 .. Len(data) - 1 : data[i] = 13}
<1>1. Len(data) \in Nat /\ Len(data) - 1 \in 0 .. Len(data)
  BY DEF Bytes
<1>2. found # {} => Min(found) - 1 \in 0 .. Len(data)
  <2>1. found \subseteq Nat /\ \A i \in found : i - 1 \in 0 .. Len(data)
    BY <1>1
  <2> HIDE DEF found
  <2> QED BY <2>1, LeastOf
<1>3. FindNextCharacter(data, 13) \in 0 .. Len(data)
  BY <1>1, <1>2 DEF FindNextCharacter
<1> QED BY <1>3, FirstPart DEF ParseRequest

LEMMA VersionSpaceType ==
    ASSUME NEW requestType \in Bytes
    PROVE  VersionSpace(requestType) \in 0 .. Len(requestType)
<1> DEFINE S == {i \in 6 .. Len(requestType) : requestType[i] = Space} \cup {Len(requestType)}
<1>1. S \subseteq 0 .. Len(requestType) /\ S # {} /\ 0 .. Len(requestType) \subseteq Nat
  BY DEF Bytes
<1>2. Min(S) \in S
  <2> HIDE DEF S
  <2> QED BY <1>1, LeastOf
<1> HIDE DEF S
<1> QED BY <1>1, <1>2 DEF VersionSpace, S

LEMMA RequestedPathType ==
    ASSUME NEW requestType \in Bytes
    PROVE  RequestedPath[requestType] \in Bytes
<1> DEFINE link == SubSeq(requestType, 6, VersionSpace(requestType) - 1)
           path == DecodeUrl(link)
           result == [i \in DOMAIN path |-> IF path[i] = Slash THEN Backslash ELSE path[i]]
<1>1. link \in Bytes
  <2>1. VersionSpace(requestType) \in 0 .. Len(requestType) /\ Len(requestType) \in Nat
    BY VersionSpaceType DEF Bytes
  <2>2. CASE VersionSpace(requestType) - 1 < 6
    <3>1. VersionSpace(requestType) - 1 < 6 - 1 \/ VersionSpace(requestType) = 6
      BY <2>1, <2>2
    <3> QED BY <2>1, <2>2, <3>1 DEF Bytes
  <2>3. CASE ~(VersionSpace(requestType) - 1 < 6)
    BY <2>1, <2>3, SubText
  <2> QED BY <2>2, <2>3
<1>2. path \in Bytes
  <2> HIDE DEF link
  <2> QED BY <1>1, DecodeUrlType DEF Bytes
<1>3. result \in Bytes
  <2>1. Backslash \in Byte
    BY DEF Byte, Backslash
  <2>2. Replace(path, Slash, Backslash) \in Bytes
    <3> HIDE DEF path
    <3> QED BY <1>2, <2>1, Replaced
  <2> HIDE DEF path
  <2> QED BY <2>2 DEF Replace
<1>4. RequestedPath[requestType] = result
  BY DEF RequestedPath
<1> QED BY <1>3, <1>4

\* The link as a browser sends it.
Slashed(link) == Replace(link, Backslash, Slash)

LEMMA SlashedType ==
    ASSUME NEW link \in Bytes
    PROVE  /\ Slashed(link) \in Bytes /\ Len(Slashed(link)) = Len(link) /\ Len(link) \in Nat
           /\ \A i \in 1 .. Len(link) :
                 Slashed(link)[i] = IF link[i] = Backslash THEN Slash ELSE link[i]
<1>1. Slash \in Byte
  BY DEF Byte, Slash
<1>2. Len(link) \in Nat
  BY DEF Bytes
<1> QED BY <1>1, <1>2, Replaced DEF Slashed

\* The bytes of a request for a link.
LEMMA RequestTextIs ==
    ASSUME NEW link \in Bytes
    PROVE  /\ RequestText(link) \in Bytes
           /\ Len(RequestText(link)) = Len(link) + 20
           /\ RequestText(link)[1] = 71
           /\ \A i \in 1 .. 5 : RequestText(link)[i] # 13
           /\ \A i \in 1 .. Len(link) : RequestText(link)[5 + i] = Slashed(link)[i]
           /\ RequestText(link)[Len(link) + 6] = Space
           /\ RequestText(link)[Len(link) + 7] = 72 /\ RequestText(link)[Len(link) + 8] = 49
           /\ RequestText(link)[Len(link) + 9] = 13
<1>0. PICK n : n = Len(link)
  OBVIOUS
<1>1. PICK s : s = Slashed(link)
  OBVIOUS
<1>2. s \in Bytes /\ Len(s) = n /\ n \in Nat
  BY <1>0, <1>1, SlashedType
<1>3. PICK a : a = <<71, 69, 84, Space, Slash>>
  OBVIOUS
<1>4. PICK b : b = <<Space, 72, 49, 13, 10>>
  OBVIOUS
<1>5. PICK c : c = <<65, 45, 69, Colon, Space, 103, 13, 10, 13, 10>>
  OBVIOUS
<1>6. PICK text : text = a \o s \o b \o c
  OBVIOUS
<1>7. RequestText(link) = text
  BY <1>1, <1>3, <1>4, <1>5, <1>6, Zenon DEF RequestText, Slashed, Replace
<1>8. a \in Bytes /\ Len(a) = 5 /\ a[1] = 71 /\ \A i \in 1 .. 5 : a[i] # 13
  BY <1>3 DEF Bytes, Byte, Space, Slash
<1>9. b \in Bytes /\ Len(b) = 5 /\ b[1] = Space /\ b[2] = 72 /\ b[3] = 49 /\ b[4] = 13
  BY <1>4 DEF Bytes, Byte, Space
<1>10. c \in Bytes /\ Len(c) = 10
  BY <1>5 DEF Bytes, Byte, Space, Colon
<1>11. /\ text \in Bytes /\ Len(text) = n + 20
       /\ \A i \in 1 .. 5 : text[i] = a[i]
       /\ \A i \in 1 .. n : text[5 + i] = s[i]
       /\ \A i \in 1 .. 5 : text[n + 5 + i] = b[i]
  <2>0. a \in Bytes /\ b \in Bytes /\ s \in Bytes
    BY <1>2, <1>8, <1>9
  <2>1. PICK as : as = a \o s
    OBVIOUS
  <2>2. PICK l \in Nat : l = 5 + n
    BY <1>2
  <2>3. /\ as \in Bytes /\ Len(as) = l
        /\ \A i \in 1 .. 5 : as[i] = a[i]
        /\ \A i \in 1 .. n : as[5 + i] = s[i]
    <3>1. /\ a \o s \in Bytes
          /\ Len(a \o s) = Len(a) + Len(s)
          /\ \A i \in 1 .. Len(a) : (a \o s)[i] = a[i]
          /\ \A i \in 1 .. Len(s) : (a \o s)[Len(a) + i] = s[i]
      BY <2>0, Joined, Zenon
    <3> QED BY <1>2, <1>8, <2>1, <2>2, <3>1
  <2>4. PICK asb : asb = as \o b
    OBVIOUS
  <2>5. PICK m \in Nat : m = l + 5
    OBVIOUS
  <2>6. /\ asb \in Bytes /\ Len(asb) = m
        /\ \A i \in 1 .. l : asb[i] = as[i]
        /\ \A i \in 1 .. 5 : asb[l + i] = b[i]
    <3>1. /\ as \o b \in Bytes
          /\ Len(as \o b) = Len(as) + Len(b)
          /\ \A i \in 1 .. Len(as) : (as \o b)[i] = as[i]
          /\ \A i \in 1 .. Len(b) : (as \o b)[Len(as) + i] = b[i]
      <4>1. as \in Bytes
        BY <2>3
      <4> QED BY <2>0, <4>1, Joined, Zenon
    <3> QED BY <1>9, <2>3, <2>4, <2>5, <3>1
  <2>7. text = asb \o c
    BY <1>6, <2>1, <2>4
  <2>8. /\ text \in Bytes /\ Len(text) = m + 10
        /\ \A i \in 1 .. m : text[i] = asb[i]
    <3>1. /\ asb \o c \in Bytes
          /\ Len(asb \o c) = Len(asb) + Len(c)
          /\ \A i \in 1 .. Len(asb) : (asb \o c)[i] = asb[i]
          /\ \A i \in 1 .. Len(c) : (asb \o c)[Len(asb) + i] = c[i]
      BY <1>10, <2>6, Joined, Zenon
    <3> QED BY <1>10, <2>5, <2>6, <2>7, <3>1
  <2>9. \A i \in 1 .. 5 : text[i] = a[i]
    <3>1. \A i \in 1 .. 5 : i \in 1 .. l /\ i \in 1 .. m
      BY <1>2, <2>2, <2>5
    <3> QED BY <2>3, <2>6, <2>8, <3>1
  <2>10. \A i \in 1 .. n : text[5 + i] = s[i]
    <3>1. \A i \in 1 .. n : 5 + i \in 1 .. l /\ 5 + i \in 1 .. m
      BY <1>2, <2>2, <2>5
    <3>2. \A i \in 1 .. n : as[5 + i] = s[i]
      BY <2>3
    <3>3. \A i \in 1 .. n : asb[5 + i] = as[5 + i]
      BY <2>6, <3>1
    <3>4. \A i \in 1 .. n : text[5 + i] = asb[5 + i]
      BY <2>8, <3>1
    <3> QED BY <3>2, <3>3, <3>4
  <2>11. \A i \in 1 .. 5 : text[n + 5 + i] = b[i]
    <3>1. \A i \in 1 .. 5 : n + 5 + i = l + i /\ l + i \in 1 .. m
      BY <1>2, <2>2, <2>5
    <3> QED BY <2>6, <2>8, <3>1
  <2>12. m + 10 = n + 20
    BY <1>2, <2>2, <2>5
  <2> QED BY <2>8, <2>9, <2>10, <2>11, <2>12
<1>12. n + 6 = n + 5 + 1 /\ n + 7 = n + 5 + 2 /\ n + 8 = n + 5 + 3 /\ n + 9 = n + 5 + 4
  BY <1>2
<1>13. text[1] = 71 /\ \A i \in 1 .. 5 : text[i] # 13
  BY <1>8, <1>11
<1>14. text[n + 6] = Space /\ text[n + 7] = 72 /\ text[n + 8] = 49 /\ text[n + 9] = 13
  BY <1>9, <1>11, <1>12
<1> QED BY <1>0, <1>1, <1>7, <1>11, <1>13, <1>14, Zenon

\* The server finds the link in the request, with slashes for backslashes, if there is
\* neither a space nor a carriage return in it.
LEMMA RequestIsParsed ==
    ASSUME NEW link \in Bytes, \A i \in 1 .. Len(link) : link[i] \notin {13, Space}
    PROVE  /\ ParseRequest(RequestText(link)) \in Bytes
           /\ IsRequest(ParseRequest(RequestText(link)))
           /\ SubSeq(ParseRequest(RequestText(link)), 6,
                     VersionSpace(ParseRequest(RequestText(link))) - 1) = Slashed(link)
<1>1. PICK n : n = Len(link)
  OBVIOUS
<1>2. PICK text : text = RequestText(link)
  OBVIOUS
<1>3. PICK slashed : slashed = Slashed(link)
  OBVIOUS
<1>4. /\ text \in Bytes /\ Len(text) = n + 20 /\ text[1] = 71
      /\ \A i \in 1 .. 5 : text[i] # 13
      /\ \A i \in 1 .. n : text[5 + i] = slashed[i]
      /\ text[n + 6] = Space
      /\ text[n + 7] = 72 /\ text[n + 8] = 49
      /\ text[n + 9] = 13
  <2>1. /\ RequestText(link) \in Bytes /\ Len(RequestText(link)) = Len(link) + 20
        /\ RequestText(link)[1] = 71
        /\ \A i \in 1 .. 5 : RequestText(link)[i] # 13
        /\ \A i \in 1 .. Len(link) : RequestText(link)[5 + i] = Slashed(link)[i]
        /\ RequestText(link)[Len(link) + 6] = Space
        /\ RequestText(link)[Len(link) + 7] = 72 /\ RequestText(link)[Len(link) + 8] = 49
        /\ RequestText(link)[Len(link) + 9] = 13
    BY RequestTextIs, Zenon
  <2> QED BY <1>1, <1>2, <1>3, <2>1
<1>5. slashed \in Bytes /\ Len(slashed) = n /\ n \in Nat
      /\ \A i \in 1 .. n : slashed[i] \notin {13, Space}
  BY <1>1, <1>3, SlashedType DEF Slash, Space
<1>6. \A i \in 1 .. n + 8 : text[i] # 13
  <2>1. SUFFICES ASSUME NEW i \in 1 .. n + 8
                 PROVE  text[i] # 13
    OBVIOUS
  <2>2. CASE i \in 1 .. 5
    BY <1>4, <2>2
  <2>3. CASE i \in n + 6 .. n + 8
    <3>1. i = n + 6 \/ i = n + 7 \/ i = n + 8
      BY <1>5, <2>3
    <3>2. Space # 13
      BY DEF Space
    <3> QED BY <1>4, <3>1, <3>2
  <2>4. CASE i \in 6 .. n + 5
    <3>1. PICK j \in 1 .. n : i = 5 + j
      <4>1. i - 5 \in 1 .. n /\ i = 5 + (i - 5)
        BY <1>5, <2>4
      <4> QED BY <4>1
    <3>2. text[5 + j] = slashed[j] /\ slashed[j] # 13
      BY <1>4, <1>5
    <3> QED BY <3>1, <3>2
  <2>5. i \in 1 .. 5 \/ i \in 6 .. n + 5 \/ i \in n + 6 .. n + 8
    <3>1. n \in Nat
      BY <1>5
    <3> QED BY <2>1, <3>1
  <2> QED BY <2>2, <2>3, <2>4, <2>5, Zenon
<1>7. FindNextCharacter(text, 13) = n + 8
  <2> DEFINE found == {i \in 1 .. Len(text) - 1 : text[i] = 13}
  <2>1. n + 9 \in found /\ found \subseteq Nat
    BY <1>4, <1>5
  <2>2. \A i \in found : n + 9 <= i
    BY <1>4, <1>5, <1>6
  <2>3. Min(found) = n + 9
    <3> HIDE DEF found
    <3>1. PICK k : k = Min(found)
      OBVIOUS
    <3>2. k \in found /\ k \in Nat /\ \A m \in found : k <= m
      BY <2>1, <3>1, LeastOf
    <3>3. k <= n + 9 /\ n + 9 <= k
      BY <2>1, <2>2, <3>2
    <3>4. k = n + 9
      BY <1>5, <3>2, <3>3
    <3> QED BY <3>1, <3>4
  <2>4. FindNextCharacter(text, 13) = Min(found) - 1
    BY <2>1, Zenon DEF FindNextCharacter
  <2>5. (n + 9) - 1 = n + 8
    BY <1>5
  <2> QED BY <2>3, <2>4, <2>5, Zenon
<1>8. PICK requestType : requestType = SubSeq(text, 1, n + 8)
  OBVIOUS
<1>9. ParseRequest(text) = requestType
  BY <1>7, <1>8, Zenon DEF ParseRequest
<1>10. /\ requestType \in Bytes /\ Len(requestType) = n + 8
       /\ \A i \in 1 .. n + 8 : requestType[i] = text[i]
  <2>1. n + 8 \in 0 .. Len(text)
    BY <1>4, <1>5
  <2> QED BY <1>4, <1>8, <2>1, FirstPart
<1>11. \A i \in 1 .. n : requestType[5 + i] = slashed[i]
  <2>1. \A i \in 1 .. n : 5 + i \in 1 .. n + 8
    BY <1>5
  <2> QED BY <1>4, <1>10, <2>1
<1>12. requestType[1] = 71 /\ requestType[n + 6] = Space
  <2>1. 1 \in 1 .. n + 8 /\ n + 6 \in 1 .. n + 8
    BY <1>5
  <2> QED BY <1>4, <1>10, <2>1
<1>13. IsGet(requestType)
  BY <1>5, <1>10, <1>12 DEF IsGet
<1>14. VersionSpace(requestType) = n + 6
  <2> DEFINE S == {i \in 6 .. Len(requestType) : requestType[i] = Space} \cup {Len(requestType)}
  <2>1. n + 6 \in S /\ S \subseteq Nat
    BY <1>5, <1>10, <1>12
  <2>2. ASSUME NEW i \in S
        PROVE  n + 6 <= i
    <3>1. i = n + 8 \/ (i \in 6 .. n + 8 /\ requestType[i] = Space)
      BY <1>10 DEF S
    <3>2. CASE i = n + 8
      BY <1>5, <3>2
    <3>3. CASE i \in 6 .. n + 8 /\ requestType[i] = Space
      <4>1. (i - 5 \in 1 .. n /\ 5 + (i - 5) = i) \/ n + 6 <= i
        BY <1>5, <3>3
      <4>2. ~(i - 5 \in 1 .. n /\ 5 + (i - 5) = i)
        BY <1>5, <1>11, <3>3
      <4> QED BY <4>1, <4>2
    <3> QED BY <3>1, <3>2, <3>3
  <2> HIDE DEF S
  <2>3. PICK k : k = Min(S)
    OBVIOUS
  <2>4. k \in S /\ k \in Nat /\ \A m \in S : k <= m
    BY <2>1, <2>3, LeastOf
  <2>5. k <= n + 6 /\ n + 6 <= k
    BY <2>1, <2>2, <2>4
  <2>6. k = n + 6
    BY <1>5, <2>4, <2>5
  <2> QED BY <2>3, <2>6, Zenon DEF VersionSpace, S
<1>15. IsRequest(requestType)
  BY <1>5, <1>10, <1>13, <1>14 DEF IsRequest
<1>16. SubSeq(requestType, 6, n + 5) = slashed
  <2>1. /\ SubSeq(requestType, 6, n + 5) \in Seq(Byte)
        /\ Len(SubSeq(requestType, 6, n + 5)) = n
        /\ \A i \in 1 .. n : SubSeq(requestType, 6, n + 5)[i] = requestType[5 + i]
    BY <1>5, <1>10 DEF Bytes
  <2> QED BY <1>5, <1>11, <2>1, SeqEqual DEF Bytes
<1>17. VersionSpace(requestType) - 1 = n + 5
  BY <1>5, <1>14
<1> QED BY <1>2, <1>3, <1>9, <1>10, <1>15, <1>16, <1>17

\* What a browser asks for is what the server looks for.
LEMMA PathArrives ==
    ASSUME NEW path \in Target
    PROVE  /\ RequestText(LinkTo(path)) \in Bytes
           /\ IsRequest(ParseRequest(RequestText(LinkTo(path))))
           /\ RequestedPath[ParseRequest(RequestText(LinkTo(path)))] = path
<1>1. path \in Bytes /\ \A i \in DOMAIN path : path[i] # Slash
  BY TargetAssumption
<1>2. path \in Seq(Byte) /\ Len(path) \in Nat /\ DOMAIN path = 1 .. Len(path)
  BY <1>1 DEF Bytes
<1>3. PICK link : link = LinkTo(path)
  OBVIOUS
<1>4. /\ link \in Bytes /\ \A i \in 1 .. Len(link) : link[i] \notin {13, Space}
      /\ DecodeUrl(Slashed(link)) \in {path, Slashed(path)}
  <2>1. CASE path \in Volume
    <3>1. link = path
      BY <1>3, <2>1 DEF LinkTo
    <3>2. \A i \in 1 .. Len(path) : path[i] \notin {13, Space, Plus, Percent}
      BY <1>2, <2>1, VolumeAssumption
    <3>3. PICK slashed : slashed = Slashed(path)
      OBVIOUS
    <3>4. slashed \in Seq(Byte) /\ Len(slashed) = Len(path)
          /\ \A i \in 1 .. Len(slashed) : slashed[i] \notin {Plus, Percent}
      BY <1>1, <3>2, <3>3, SlashedType DEF Bytes, Slash, Plus, Percent
    <3>5. DecodeUrl(slashed) = slashed
      BY <3>4, PlainDecodes
    <3> QED BY <1>1, <3>1, <3>2, <3>3, <3>5
  <2>2. CASE path \notin Volume
    <3>1. link = EncodeUrl(path)
      BY <1>3, <2>2 DEF LinkTo
    <3>2. IsEncodingOf(link, path)
      BY <1>2, <3>1, EncodeUrlEncodes
    <3>3. link \in Seq(Byte) /\ \A i \in 1 .. Len(link) : link[i] \in Unreserved \cup {Percent}
      BY <1>2, <3>2, EncodedIsPlain DEF IsEncodingOf
    <3>4. \A x \in Unreserved \cup {Percent} : x \notin {13, Space, Backslash}
      BY DEF Unreserved, Digits, Capitals, SmallLetters, Percent, Space, Backslash
    <3>5. Slashed(link) = link
      <4>1. link \in Bytes
        BY <3>3 DEF Bytes
      <4>2. \A i \in 1 .. Len(link) : Slashed(link)[i] = link[i]
        BY <3>3, <3>4, <4>1, SlashedType
      <4>3. Slashed(link) \in Seq(Byte) /\ Len(Slashed(link)) = Len(link)
        BY <4>1, SlashedType DEF Bytes
      <4> QED BY <3>3, <4>2, <4>3, SeqEqual
    <3>6. DecodeUrl(Slashed(link)) = path
      BY <1>2, <3>1, <3>5, LinksDecode
    <3> QED BY <3>3, <3>4, <3>6 DEF Bytes
  <2> QED BY <2>1, <2>2
<1>5. PICK requestType : requestType = ParseRequest(RequestText(link))
  OBVIOUS
<1>6. /\ requestType \in Bytes /\ IsRequest(requestType)
      /\ SubSeq(requestType, 6, VersionSpace(requestType) - 1) = Slashed(link)
  BY <1>4, <1>5, RequestIsParsed, Zenon
<1>7. RequestText(link) \in Bytes
  BY <1>4, RequestTextIs, Zenon
<1>8. PICK decoded : decoded = DecodeUrl(Slashed(link))
  OBVIOUS
<1>9. RequestedPath[requestType]
          = [i \in DOMAIN decoded |-> IF decoded[i] = Slash THEN Backslash ELSE decoded[i]]
  BY <1>6, <1>8, Zenon DEF RequestedPath
<1>10. /\ DOMAIN decoded = DOMAIN path
       /\ \A i \in DOMAIN path : (IF decoded[i] = Slash THEN Backslash ELSE decoded[i]) = path[i]
  <2>1. CASE decoded = path
    BY <1>1, <2>1
  <2>2. CASE decoded = Slashed(path)
    <3>1. \A i \in DOMAIN path : Slashed(path)[i] = IF path[i] = Backslash THEN Slash ELSE path[i]
      BY DEF Slashed, Replace
    <3>2. DOMAIN Slashed(path) = DOMAIN path
      BY DEF Slashed, Replace
    <3> QED BY <1>1, <2>2, <3>1, <3>2
  <2> QED BY <1>4, <1>8, <2>1, <2>2
<1>11. path = [i \in DOMAIN path |-> path[i]]
  BY <1>2
<1>12. RequestedPath[requestType] = path
  BY <1>9, <1>10, <1>11
<1> QED BY <1>3, <1>5, <1>6, <1>7, <1>12

-----------------------------------------------------------------------------
(* What is on the wire *)

\* The bytes of the first k requests, which FlattenSeq puts one after the other.
IsFlat(w, f, k) == f = [i \in 1 .. k |-> IF i = 1 THEN w[i] ELSE f[i - 1] \o w[i]]

LEMMA FlatExists ==
    ASSUME NEW w \in Seq(Bytes)
    PROVE  \A k \in Nat : \E f : IsFlat(w, f, k)
<1> DEFINE S == {k \in Nat : \E f : IsFlat(w, f, k)}
<1>1. 0 \in S
  <2>1. IsFlat(w, [i \in 1 .. 0 |-> <<>>], 0)
    BY DEF IsFlat
  <2> QED BY <2>1
<1>2. ASSUME NEW k \in Nat, k \in S
      PROVE  k + 1 \in S
  <2>1. PICK f : IsFlat(w, f, k)
    BY <1>2
  <2>2. PICK g : g = [i \in 1 .. k + 1 |-> IF i = 1 THEN w[i] ELSE f[i - 1] \o w[i]]
    OBVIOUS
  <2>3. \A i \in 1 .. k : f[i] = IF i = 1 THEN w[i] ELSE f[i - 1] \o w[i]
    BY <2>1 DEF IsFlat
  <2>4. \A i \in 1 .. k : g[i] = f[i]
    <3>1. \A i \in 1 .. k : i \in 1 .. k + 1
      BY <1>2
    <3> QED BY <2>2, <2>3, <3>1, Zenon
  <2>5. ASSUME NEW i \in 1 .. k + 1
        PROVE  g[i] = IF i = 1 THEN w[i] ELSE g[i - 1] \o w[i]
    <3>1. i = 1 \/ i - 1 \in 1 .. k
      BY <1>2
    <3> QED BY <2>2, <2>4, <3>1, Zenon
  <2>6. g = [i \in 1 .. k + 1 |-> IF i = 1 THEN w[i] ELSE g[i - 1] \o w[i]]
    <3>1. g = [i \in 1 .. k + 1 |-> g[i]]
      BY <2>2
    <3> QED BY <2>5, <3>1, Zenon
  <2>7. k + 1 \in Nat
    BY <1>2
  <2> QED BY <2>6, <2>7 DEF IsFlat
<1>3. Nat \subseteq S
  <2> HIDE DEF S
  <2> QED BY <1>1, <1>2, Induction
<1> QED BY <1>3

LEMMA FlatGrows ==
    ASSUME NEW w \in Seq(Bytes), w # <<>>, NEW f, IsFlat(w, f, Len(w))
    PROVE  \A k \in 1 .. Len(w) :
               /\ f[k] \in Bytes
               /\ Len(w[1]) <= Len(f[k])
               /\ SubSeq(f[k], 1, Len(w[1])) = w[1]
<1>1. Len(w) \in Nat /\ Len(w) >= 1 /\ \A i \in 1 .. Len(w) : w[i] \in Bytes
  OBVIOUS
<1>2. \A i \in 1 .. Len(w) : f[i] = IF i = 1 THEN w[i] ELSE f[i - 1] \o w[i]
  BY DEF IsFlat
<1> DEFINE first == w[1]
           Good(k) == /\ f[k] \in Bytes
                      /\ Len(first) <= Len(f[k])
                      /\ SubSeq(f[k], 1, Len(first)) = first
           S == {k \in Nat : k + 1 \in 1 .. Len(w) => Good(k + 1)}
<1>3. first \in Bytes
  BY <1>1
<1>4. 0 \in S
  <2>1. f[1] = first
    BY <1>1, <1>2
  <2>2. SubSeq(first, 1, Len(first)) = first
    BY <1>3 DEF Bytes
  <2>3. Len(first) <= Len(first)
    BY <1>3 DEF Bytes
  <2>4. Good(0 + 1)
    <3> HIDE DEF first
    <3> QED BY <1>3, <2>1, <2>2, <2>3
  <2> HIDE DEF Good
  <2> QED BY <2>4
<1>5. ASSUME NEW k \in Nat, k \in S
      PROVE  k + 1 \in S
  <2> SUFFICES ASSUME (k + 1) + 1 \in 1 .. Len(w)
               PROVE  Good((k + 1) + 1)
    OBVIOUS
  <2>1. k + 1 \in 1 .. Len(w) /\ (k + 1) + 1 # 1 /\ ((k + 1) + 1) - 1 = k + 1
    BY <1>1
  <2>2. Good(k + 1)
    BY <1>5, <2>1
  <2>3. f[(k + 1) + 1] = f[k + 1] \o w[(k + 1) + 1]
    BY <1>2, <2>1
  <2>4. PICK s, t, u : s = f[k + 1] /\ t = w[(k + 1) + 1] /\ u = f[(k + 1) + 1]
    OBVIOUS
  <2>5. s \in Bytes /\ t \in Bytes /\ u = s \o t
    BY <1>1, <2>2, <2>3, <2>4
  <2>6. Len(first) <= Len(s) /\ SubSeq(s, 1, Len(first)) = first
    BY <2>2, <2>4
  <2>7. /\ u \in Bytes /\ Len(u) = Len(s) + Len(t)
        /\ \A i \in 1 .. Len(s) : u[i] = s[i]
    BY <2>5, Joined, Zenon
  <2> HIDE DEF first
  <2>8. Len(first) \in Nat /\ Len(s) \in Nat /\ Len(t) \in Nat /\ Len(u) \in Nat
    BY <1>3, <2>5, <2>7 DEF Bytes
  <2>9. Len(first) <= Len(u) /\ Len(first) \in 0 .. Len(u) /\ Len(first) \in 0 .. Len(s)
    BY <2>6, <2>7, <2>8
  <2>10. SubSeq(u, 1, Len(first)) = first
    <3>1. /\ SubSeq(u, 1, Len(first)) \in Bytes
          /\ Len(SubSeq(u, 1, Len(first))) = Len(first)
          /\ \A i \in 1 .. Len(first) : SubSeq(u, 1, Len(first))[i] = u[i]
      BY <2>7, <2>9, FirstPart
    <3>2. /\ \A i \in 1 .. Len(first) : SubSeq(s, 1, Len(first))[i] = s[i]
      BY <2>5, <2>9, FirstPart
    <3>3. \A i \in 1 .. Len(first) : i \in 1 .. Len(s)
      BY <2>6, <2>8
    <3>4. \A i \in 1 .. Len(first) : SubSeq(u, 1, Len(first))[i] = first[i]
      BY <2>6, <2>7, <3>1, <3>2, <3>3
    <3> QED BY <1>3, <3>1, <3>4, SeqEqual DEF Bytes
  <2> QED BY <2>4, <2>7, <2>9, <2>10
<1>6. Nat \subseteq S
  <2> HIDE DEF S
  <2> QED BY <1>4, <1>5, Induction
<1>7. SUFFICES ASSUME NEW k \in 1 .. Len(w)
               PROVE  Good(k)
  OBVIOUS
<1>8. k - 1 \in Nat /\ (k - 1) + 1 = k
  BY <1>1
<1>9. k - 1 \in S
  BY <1>6, <1>8
<1> HIDE DEF Good
<1> QED BY <1>8, <1>9

\* All requests on the wire, of which the first is the first.
LEMMA WireType ==
    ASSUME NEW w \in Seq(Bytes)
    PROVE  /\ w = <<>> => FlattenSeq(w) = <<>>
           /\ w # <<>> => /\ FlattenSeq(w) \in Bytes
                          /\ Head(w) \in Bytes
                          /\ Len(Head(w)) <= Len(FlattenSeq(w))
                          /\ SubSeq(FlattenSeq(w), 1, Len(Head(w))) = Head(w)
<1>1. CASE w = <<>>
  BY <1>1 DEF FlattenSeq
<1>2. CASE w # <<>>
  <2> DEFINE g == CHOOSE g : g = [i \in 1 .. Len(w) |-> IF i = 1 THEN w[i] ELSE g[i - 1] \o w[i]]
  <2>1. Len(w) # 0 /\ Len(w) \in Nat /\ Len(w) \in 1 .. Len(w) /\ Head(w) = w[1] /\ w[1] \in Bytes
    BY <1>2
  <2>2. \E f : f = [i \in 1 .. Len(w) |-> IF i = 1 THEN w[i] ELSE f[i - 1] \o w[i]]
    BY <2>1, FlatExists DEF IsFlat
  <2>3. g = [i \in 1 .. Len(w) |-> IF i = 1 THEN w[i] ELSE g[i - 1] \o w[i]]
    BY <2>2, Zenon
  <2>4. FlattenSeq(w) = g[Len(w)]
    BY <2>1, Zenon DEF FlattenSeq
  <2> HIDE DEF g
  <2>5. IsFlat(w, g, Len(w))
    BY <2>3, Zenon DEF IsFlat
  <2>6. /\ g[Len(w)] \in Bytes
        /\ Len(w[1]) <= Len(g[Len(w)])
        /\ SubSeq(g[Len(w)], 1, Len(w[1])) = w[1]
    BY <1>2, <2>1, <2>5, FlatGrows, Zenon
  <2> QED BY <1>2, <2>1, <2>4, <2>6, Zenon
<1> QED BY <1>1, <1>2

-----------------------------------------------------------------------------
(* Types *)

Threads == [pc : {"none", "recv", "execute", "abandon", "close", "ended"},
            socket : Handle \cup {None}, path : Bytes]

Kinds == {"builtin", "notFound", "file", "partial", "page"}

\* The part of TypeOK about the threads.
ThreadsOK ==
    /\ thread \in [Connection -> Threads]
    /\ \A c \in Connection : Running(c) => thread[c].socket \in Handle

\* A thread that moves on with a handle, or ends.
LEMMA ThreadType ==
    ASSUME TypeOK, NEW c \in Connection, NEW t \in Threads,
           t.pc \in {"none", "ended"} \/ t.socket \in Handle,
           thread' = [thread EXCEPT ![c] = t]
    PROVE  ThreadsOK'
<1>1. thread \in [Connection -> Threads]
  BY DEF TypeOK, Threads
<1>2. thread'[c] = t /\ \A d \in Connection \ {c} : thread'[d] = thread[d]
  BY <1>1
<1>3. ASSUME NEW d \in Connection, Running(d)'
      PROVE  thread'[d].socket \in Handle
  <2>1. CASE d = c
    BY <1>2, <1>3, <2>1 DEF Running
  <2>2. CASE d # c
    BY <1>2, <1>3, <2>2 DEF Running, TypeOK
  <2> QED BY <2>1, <2>2
<1>4. thread' \in [Connection -> Threads]
  BY <1>1
<1> QED BY <1>3, <1>4 DEF ThreadsOK

LEMMA GotoType ==
    ASSUME TypeOK, NEW c \in Connection, Running(c),
           NEW pc \in {"none", "recv", "execute", "abandon", "close", "ended"}, Goto(c, pc)
    PROVE  ThreadsOK'
<1>1. thread[c] \in Threads /\ thread[c].socket \in Handle
  BY DEF TypeOK, Threads
<1>2. [thread[c] EXCEPT !.pc = pc] \in Threads /\ [thread[c] EXCEPT !.pc = pc].socket \in Handle
  BY <1>1 DEF Threads
<1>3. thread' = [thread EXCEPT ![c] = [thread[c] EXCEPT !.pc = pc]]
  BY DEF Goto
<1> QED BY <1>2, <1>3, ThreadType

LEMMA InitType == Init => TypeOK
<1> SUFFICES ASSUME Init PROVE TypeOK
  OBVIOUS
<1>1. NoThread \in Threads
  BY DEF NoThread, Threads, Bytes
<1>2. 0 \in 0 .. MaxCuts
  BY BoundsAssumption
<1>3. \A c \in Connection : ~Running(c)
  BY DEF Init, Running, NoThread
<1> QED BY <1>1, <1>2, <1>3 DEF Init, TypeOK, Threads

LEMMA AcceptType ==
    ASSUME TypeOK, NEW c \in Connection, Accept(c)
    PROVE  TypeOK'
<1>1. PICK h \in Handle :
          /\ socket' = [socket EXCEPT ![h] = c]
          /\ thread' = [thread EXCEPT ![c] = [pc |-> "recv", socket |-> h, path |-> <<>>]]
          /\ isOpen' = [isOpen EXCEPT ![c] = TRUE]
          /\ atRisk' = IF \E b \in Connection : Running(b) /\ thread[b].socket = h
                       THEN atRisk \cup {c} ELSE atRisk
          /\ UNCHANGED <<sent, wire, answers, cuts, exact>>
  BY DEF Accept
<1>2. [pc |-> "recv", socket |-> h, path |-> <<>>] \in Threads
  BY DEF Threads, Bytes
<1>3. ThreadsOK'
  BY <1>1, <1>2, ThreadType
<1>4. socket' \in [Handle -> Connection \cup {None}] /\ isOpen' \in [Connection -> BOOLEAN]
  BY <1>1 DEF TypeOK
<1>5. atRisk' \subseteq Connection
  BY <1>1 DEF TypeOK
<1> QED BY <1>1, <1>3, <1>4, <1>5 DEF TypeOK, ThreadsOK, Threads

LEMMA BrowserType ==
    ASSUME TypeOK, NEW c \in Connection, Request(c) \/ Disconnect(c)
    PROVE  TypeOK'
<1>1. CASE Request(c)
  <2>1. PICK path \in Target :
            /\ sent' = [sent EXCEPT ![c] = Append(@, path)]
            /\ wire' = [wire EXCEPT ![c] = Append(@, RequestText(LinkTo(path)))]
    BY <1>1 DEF Request
  <2>2. UNCHANGED <<isOpen, answers, socket, thread, cuts, exact, atRisk>>
    BY <1>1 DEF Request
  <2>3. PICK text \in Bytes : text = RequestText(LinkTo(path))
    BY PathArrives
  <2>4. Append(wire[c], text) \in Seq(Bytes) /\ Append(sent[c], path) \in Seq(Target)
    BY DEF TypeOK
  <2>5. sent' \in [Connection -> Seq(Target)] /\ wire' \in [Connection -> Seq(Bytes)]
    BY <2>1, <2>3, <2>4 DEF TypeOK
  <2> QED BY <2>2, <2>5 DEF TypeOK, Running
<1>2. CASE Disconnect(c)
  BY <1>2 DEF Disconnect, TypeOK, Running
<1> QED BY <1>1, <1>2

\* What Receive does with n bytes of what is on the wire of connection d.
Receives(c, d, bytes, n) ==
    /\ IF n = Len(bytes) \/ n = kDataBufferSize THEN UNCHANGED cuts
       ELSE cuts < MaxCuts /\ cuts' = cuts + 1
    /\ \E requestType \in {ParseRequest(SubSeq(bytes, 1, n))} :
          HandleRequest(c, requestType)
    /\ exact' = [exact EXCEPT ![d] = @ /\ n = Len(Head(wire[d]))]
    /\ wire' = [wire EXCEPT ![d] =
          IF n = Len(Head(@)) THEN Tail(@)
          ELSE IF n < Len(bytes) THEN <<SubSeq(bytes, n + 1, Len(bytes))>>
          ELSE <<>>]

\* The same, without what stays on the wire if n is not the length of a request.
Takes(c, d, n) ==
    /\ n \in 1 .. Len(FlattenSeq(wire[d]))
    /\ \E requestType \in Bytes :
          /\ requestType = ParseRequest(SubSeq(FlattenSeq(wire[d]), 1, n))
          /\ HandleRequest(c, requestType)
    /\ exact' = [exact EXCEPT ![d] = @ /\ n = Len(Head(wire[d]))]
    /\ \E w \in Seq(Bytes) :
          /\ wire' = [wire EXCEPT ![d] = w]
          /\ n = Len(Head(wire[d])) => w = Tail(wire[d])

LEMMA Received ==
    ASSUME TypeOK, NEW c \in Connection, Receive(c)
    PROVE  /\ Running(c) /\ thread[c].socket \in Handle
           /\ UNCHANGED <<sent, isOpen, answers, socket, atRisk>>
           /\ cuts' \in 0 .. MaxCuts
           /\ \E d \in Connection, n \in Nat : d = Peer(c) /\ wire[d] # <<>> /\ Takes(c, d, n)
<1>1. /\ Running(c) /\ Peer(c) # None
      /\ UNCHANGED <<sent, isOpen, answers, socket, atRisk>>
  BY DEF Receive, At, Running
<1>2. thread[c].socket \in Handle
  BY <1>1 DEF TypeOK
<1>a. PICK d \in {Peer(c)} :
         \E bytes \in {FlattenSeq(wire[d])} :
            \E n \in 1 .. Min({Len(bytes), kDataBufferSize}) : Receives(c, d, bytes, n)
  BY Zenon DEF Receive, Receives
<1>4. PICK bytes \in {FlattenSeq(wire[d])} :
         \E n \in 1 .. Min({Len(bytes), kDataBufferSize}) : Receives(c, d, bytes, n)
  BY <1>a
<1>5. PICK n \in 1 .. Min({Len(bytes), kDataBufferSize}) : Receives(c, d, bytes, n)
  BY <1>4
<1>3. d \in Connection /\ wire[d] \in Seq(Bytes)
  BY <1>1, <1>2 DEF TypeOK, Peer
<1>6. bytes = <<>> \/ bytes \in Bytes
  BY <1>3, <1>4, WireType
<1>7. Len(bytes) \in Nat
  BY <1>6 DEF Bytes
<1>8. n \in 1 .. Len(bytes)
  <2>1. PICK k : k = Min({Len(bytes), kDataBufferSize})
    OBVIOUS
  <2>2. kDataBufferSize \in Nat
    BY BoundsAssumption
  <2>3. k \in Nat /\ k <= Len(bytes)
    <3>1. {Len(bytes), kDataBufferSize} \subseteq Nat /\ {Len(bytes), kDataBufferSize} # {}
      BY <1>7, <2>2
    <3>2. k \in {Len(bytes), kDataBufferSize} /\ \A m \in {Len(bytes), kDataBufferSize} : k <= m
      BY <2>1, <3>1, LeastOf, Zenon
    <3> QED BY <3>1, <3>2
  <2>4. n \in 1 .. k
    BY <1>5, <2>1
  <2> QED BY <1>7, <2>3, <2>4
<1>9. bytes \in Bytes
  BY <1>6, <1>7, <1>8 DEF Bytes
<1>10. wire[d] # <<>>
  BY <1>3, <1>4, <1>7, <1>8, WireType
<1>11. cuts' \in 0 .. MaxCuts
  <2>1. MaxCuts \in Nat /\ cuts \in 0 .. MaxCuts
    BY BoundsAssumption DEF TypeOK
  <2>2. cuts' = cuts \/ (cuts < MaxCuts /\ cuts' = cuts + 1)
    BY <1>5 DEF Receives
  <2> QED BY <2>1, <2>2
<1>12. ParseRequest(SubSeq(bytes, 1, n)) \in Bytes
  <2>1. PICK data : data = SubSeq(bytes, 1, n)
    OBVIOUS
  <2>2. n \in 0 .. Len(bytes) /\ n >= 1
    BY <1>7, <1>8
  <2>3. data \in Bytes /\ Len(data) = n
    BY <1>9, <2>1, <2>2, FirstPart
  <2> QED BY <2>1, <2>2, <2>3, ParseRequestType
<1>13. \E w \in Seq(Bytes) :
          /\ wire' = [wire EXCEPT ![d] = w]
          /\ n = Len(Head(wire[d])) => w = Tail(wire[d])
  <2>1. n < Len(bytes) => <<SubSeq(bytes, n + 1, Len(bytes))>> \in Seq(Bytes)
    <3>1. n + 1 \in 1 .. Len(bytes) + 1 /\ Len(bytes) \in 0 .. Len(bytes)
      BY <1>7, <1>8
    <3>2. SubSeq(bytes, n + 1, Len(bytes)) \in Bytes
      BY <1>9, <3>1, SubText
    <3> QED BY <3>2
  <2>2. <<>> \in Seq(Bytes) /\ Tail(wire[d]) \in Seq(Bytes)
    BY <1>3, <1>10
  <2>3. PICK w : w = IF n = Len(Head(wire[d])) THEN Tail(wire[d])
                     ELSE IF n < Len(bytes) THEN <<SubSeq(bytes, n + 1, Len(bytes))>>
                     ELSE <<>>
    OBVIOUS
  <2>4. w \in Seq(Bytes) /\ (n = Len(Head(wire[d])) => w = Tail(wire[d]))
    BY <2>1, <2>2, <2>3, Zenon
  <2>5. wire' = [wire EXCEPT ![d] = w]
    BY <1>5, <2>3, Zenon DEF Receives
  <2> QED BY <2>4, <2>5
<1>14. \E requestType \in Bytes :
          /\ requestType = ParseRequest(SubSeq(FlattenSeq(wire[d]), 1, n))
          /\ HandleRequest(c, requestType)
  BY <1>4, <1>5, <1>12, Zenon DEF Receives
<1>15. n \in 1 .. Len(FlattenSeq(wire[d])) /\ n \in Nat
  BY <1>4, <1>8
<1>16. exact' = [exact EXCEPT ![d] = @ /\ n = Len(Head(wire[d]))]
  BY <1>5, Zenon DEF Receives
<1>17. Takes(c, d, n)
  BY <1>13, <1>14, <1>15, <1>16, Zenon DEF Takes
<1> QED BY <1>1, <1>2, <1>3, <1>10, <1>11, <1>15, <1>17, Zenon

LEMMA ReceiveType ==
    ASSUME TypeOK, NEW c \in Connection, Receive(c)
    PROVE  TypeOK'
<1>1. /\ Running(c) /\ thread[c].socket \in Handle
      /\ UNCHANGED <<sent, isOpen, answers, socket, atRisk>>
      /\ cuts' \in 0 .. MaxCuts
  BY Received, Zenon
<1>2. PICK d \in Connection, n \in Nat : wire[d] # <<>> /\ Takes(c, d, n)
  BY Received, Zenon
<1>4. exact' \in [Connection -> BOOLEAN]
  BY <1>2 DEF TypeOK, Takes
<1>5. wire' \in [Connection -> Seq(Bytes)]
  <2>1. PICK w \in Seq(Bytes) : wire' = [wire EXCEPT ![d] = w]
    BY <1>2 DEF Takes
  <2> QED BY <2>1 DEF TypeOK
<1>6. ThreadsOK'
  <2>1. PICK requestType \in Bytes : HandleRequest(c, requestType)
    BY <1>2 DEF Takes
  <2>2. CASE IsRequest(requestType)
    <3>1. PICK t : t = [pc |-> "execute", socket |-> thread[c].socket,
                        path |-> RequestedPath[requestType]]
      OBVIOUS
    <3>2. RequestedPath[requestType] \in Bytes
      BY RequestedPathType
    <3>3. t \in Threads /\ t.socket \in Handle
      BY <1>1, <3>1, <3>2 DEF Threads
    <3>4. thread' = [thread EXCEPT ![c] = t]
      BY <2>1, <2>2, <3>1 DEF HandleRequest
    <3> QED BY <3>3, <3>4, ThreadType
  <2>3. CASE ~IsRequest(requestType)
    <3>1. thread' = thread
      BY <2>1, <2>3 DEF HandleRequest
    <3> QED BY <3>1 DEF TypeOK, ThreadsOK, Threads, Running
  <2> QED BY <2>2, <2>3
<1> QED BY <1>1, <1>4, <1>5, <1>6 DEF TypeOK, ThreadsOK, Threads

\* An answer goes to the connection that the handle stands for, if to any.
LEMMA SendType ==
    ASSUME TypeOK, NEW c \in Connection, NEW kind \in Kinds, Send(c, kind)
    PROVE  answers' \in [Connection -> Seq([path : Bytes, kind : Kinds])]
<1>1. CASE Peer(c) = None
  BY <1>1 DEF Send, TypeOK, Kinds
<1>2. CASE Peer(c) # None
  <2>1. PICK d, a : d = Peer(c) /\ a = [path |-> thread[c].path, kind |-> kind]
    OBVIOUS
  <2>2. a \in [path : Bytes, kind : Kinds]
    BY <2>1 DEF TypeOK
  <2>3. answers' = [answers EXCEPT ![d] = Append(@, a)]
    BY <1>2, <2>1 DEF Send
  <2>4. answers \in [Connection -> Seq([path : Bytes, kind : Kinds])]
    BY DEF TypeOK, Kinds
  <2>5. PICK Answer : Answer = [path : Bytes, kind : Kinds]
    OBVIOUS
  <2>6. answers \in [Connection -> Seq(Answer)] /\ a \in Answer
    BY <2>2, <2>4, <2>5
  <2>7. \A e \in Connection : Append(answers[e], a) \in Seq(Answer)
    BY <2>6
  <2>8. answers' \in [Connection -> Seq(Answer)]
    BY <2>3, <2>6, <2>7
  <2> QED BY <2>5, <2>8
<1> QED BY <1>1, <1>2

LEMMA ThreadStepType ==
    ASSUME TypeOK, NEW c \in Connection, ThreadStep(c)
    PROVE  TypeOK'
<1>1. CASE Receive(c)
  BY <1>1, ReceiveType
<1>2. CASE ReceiveNothing(c)
  <2>1. /\ Running(c) /\ Goto(c, "close")
        /\ UNCHANGED <<browser, answers, socket, cuts, exact, atRisk>>
    BY <1>2 DEF ReceiveNothing, At, Running
  <2>2. ThreadsOK'
    BY <2>1, GotoType
  <2> QED BY <2>1, <2>2 DEF TypeOK, ThreadsOK, Threads, browser
<1>3. CASE SendResponse(c) \/ StreamFile(c) \/ StreamFileThrows(c)
  <2>1. PICK kind \in Kinds : Send(c, kind)
    BY <1>3 DEF SendResponse, StreamFile, StreamFileThrows, AnswerKind, Kinds
  <2>2. PICK pc \in {"recv", "abandon"} : Goto(c, pc)
    BY <1>3 DEF SendResponse, StreamFile, StreamFileThrows
  <2>3. Running(c) /\ UNCHANGED <<browser, socket, cuts, exact, atRisk>>
    BY <1>3 DEF SendResponse, StreamFile, StreamFileThrows, At, Running
  <2>4. ThreadsOK'
    BY <2>2, <2>3, GotoType
  <2>5. answers' \in [Connection -> Seq([path : Bytes, kind : Kinds])]
    BY <2>1, SendType
  <2> QED BY <2>3, <2>4, <2>5 DEF TypeOK, ThreadsOK, Threads, Kinds, browser
<1>4. CASE AbandonSocket(c)
  <2>1. /\ Running(c) /\ Goto(c, "recv")
        /\ socket' = [socket EXCEPT ![thread[c].socket] = None]
        /\ atRisk' = atRisk \cup {c}
        /\ UNCHANGED <<browser, answers, cuts, exact>>
    BY <1>4 DEF AbandonSocket, At, Running
  <2>2. ThreadsOK'
    BY <2>1, GotoType
  <2>3. socket' \in [Handle -> Connection \cup {None}] /\ atRisk' \subseteq Connection
    BY <2>1 DEF TypeOK
  <2> QED BY <2>1, <2>2, <2>3 DEF TypeOK, ThreadsOK, Threads, browser
<1>5. CASE CloseSocket(c)
  <2>1. /\ socket' = [socket EXCEPT ![thread[c].socket] = None]
        /\ thread' = [thread EXCEPT ![c] = [NoThread EXCEPT !.pc = "ended"]]
        /\ UNCHANGED <<browser, answers, cuts, exact, atRisk>>
    BY <1>5 DEF CloseSocket
  <2>2. PICK t : t = [pc |-> "ended", socket |-> None, path |-> <<>>]
    OBVIOUS
  <2>5. t \in Threads /\ t.pc = "ended"
    BY <2>2 DEF Threads, Bytes
  <2>6. thread' = [thread EXCEPT ![c] = t]
    <3>1. [NoThread EXCEPT !.pc = "ended"] = t
      BY <2>2 DEF NoThread
    <3> QED BY <2>1, <3>1
  <2>3. ThreadsOK'
    BY <2>5, <2>6, ThreadType
  <2>4. socket' \in [Handle -> Connection \cup {None}]
    BY <2>1 DEF TypeOK
  <2> QED BY <2>1, <2>3, <2>4 DEF TypeOK, ThreadsOK, Threads, browser
<1> QED BY <1>1, <1>2, <1>3, <1>4, <1>5 DEF ThreadStep

\* Every variable has its type; in particular what a thread looks for and what it
\* answers about is a text, whatever bytes it received.
THEOREM TypeIsCorrect == Spec => []TypeOK
<1>1. TypeOK /\ [Next]_vars => TypeOK'
  <2>1. SUFFICES ASSUME TypeOK, [Next]_vars
                 PROVE  TypeOK'
    OBVIOUS
  <2>2. CASE UNCHANGED vars
    BY <2>1, <2>2 DEF vars, browser, TypeOK, Running
  <2>3. ASSUME NEW c \in Connection,
               Accept(c) \/ Request(c) \/ Disconnect(c) \/ ThreadStep(c)
        PROVE  TypeOK'
    BY <2>1, <2>3, AcceptType, BrowserType, ThreadStepType
  <2> QED BY <2>1, <2>2, <2>3 DEF Next
<1> QED BY InitType, <1>1, PTL DEF Spec

-----------------------------------------------------------------------------
(* The inductive invariant: what OwnSocket needs of the types *)

\* The path of a thread is left out: it is what DecodeUrl makes of a request.
ThreadsTyped ==
    /\ socket \in [Handle -> Connection \cup {None}]
    /\ DOMAIN thread = Connection
    /\ \A c \in Connection :
          /\ thread[c] = [pc |-> thread[c].pc, socket |-> thread[c].socket,
                          path |-> thread[c].path]
          /\ Running(c) => thread[c].socket \in Handle

IInv == ThreadsTyped /\ OwnSocket

LEMMA InitInv == Init => IInv
BY HandleAssumption DEF Init, IInv, ThreadsTyped, OwnSocket, NoThread, Running

-----------------------------------------------------------------------------
(* The steps of a thread *)

\* A step that keeps the sockets, and the handles and the life of every thread.
LEMMA QuietStep ==
    ASSUME IInv, UNCHANGED <<socket, atRisk>>,
           DOMAIN thread' = Connection,
           \A c \in Connection :
               /\ thread'[c] = [pc |-> thread'[c].pc, socket |-> thread[c].socket,
                                path |-> thread'[c].path]
               /\ Running(c)' <=> Running(c)
    PROVE  IInv'
<1>1. \A c \in Connection : thread'[c].socket = thread[c].socket
  OBVIOUS
<1>2. ThreadsTyped'
  BY <1>1 DEF IInv, ThreadsTyped
<1>3. OwnSocket'
  BY <1>1 DEF IInv, ThreadsTyped, OwnSocket, Peer
<1> QED BY <1>2, <1>3 DEF IInv

\* Another program counter for a running thread, and perhaps another path.
LEMMA ThreadMoves ==
    ASSUME IInv, UNCHANGED <<socket, atRisk>>,
           NEW c \in Connection, Running(c), NEW pc, NEW path,
           pc \notin {"none", "ended"},
           thread' = [thread EXCEPT ![c] = [pc |-> pc, socket |-> thread[c].socket, path |-> path]]
    PROVE  IInv'
<1>1. DOMAIN thread' = Connection
  BY DEF IInv, ThreadsTyped
<1>2. ASSUME NEW d \in Connection
      PROVE  /\ thread'[d] = [pc |-> thread'[d].pc, socket |-> thread[d].socket,
                              path |-> thread'[d].path]
             /\ Running(d)' <=> Running(d)
  <2>1. CASE d = c
    <3>1. thread'[d] = [pc |-> pc, socket |-> thread[c].socket, path |-> path]
      BY <2>1 DEF IInv, ThreadsTyped
    <3> QED BY <3>1, <2>1 DEF Running
  <2>2. CASE d # c
    <3>1. thread'[d] = thread[d]
      BY <2>2 DEF IInv, ThreadsTyped
    <3>2. thread[d] = [pc |-> thread[d].pc, socket |-> thread[d].socket, path |-> thread[d].path]
      BY DEF IInv, ThreadsTyped
    <3> QED BY <3>1, <3>2 DEF Running
  <2> QED BY <2>1, <2>2
<1> QED BY <1>1, <1>2, QuietStep

\* Goto is such a move.
LEMMA GotoMoves ==
    ASSUME IInv, UNCHANGED <<socket, atRisk>>,
           NEW c \in Connection, Running(c), NEW pc, pc \notin {"none", "ended"}, Goto(c, pc)
    PROVE  IInv'
<1>1. thread[c] = [pc |-> thread[c].pc, socket |-> thread[c].socket, path |-> thread[c].path]
  BY DEF IInv, ThreadsTyped
<1>2. thread' = [thread EXCEPT ![c] = [thread[c] EXCEPT !.pc = pc]]
  BY DEF Goto
<1>3. [thread[c] EXCEPT !.pc = pc]
          = [pc |-> pc, socket |-> thread[c].socket, path |-> thread[c].path]
  BY <1>1
<1> QED BY <1>2, <1>3, ThreadMoves

\* A thread that closes the handle it holds: no thread that is not at risk loses its
\* socket.
LEMMA HandleCloses ==
    ASSUME IInv, NEW c \in Connection, Running(c),
           socket' = [socket EXCEPT ![thread[c].socket] = None],
           DOMAIN thread' = Connection,
           \A d \in Connection \ {c} : thread'[d] = thread[d],
           thread'[c] = [pc |-> thread'[c].pc, socket |-> thread'[c].socket,
                         path |-> thread'[c].path],
           \/ ~Running(c)' /\ atRisk' = atRisk
           \/ thread'[c].socket = thread[c].socket /\ Running(c)' /\ atRisk' = atRisk \cup {c}
    PROVE  IInv'
<1>1. thread[c].socket \in Handle
  BY DEF IInv, ThreadsTyped
<1>2. /\ socket' \in [Handle -> Connection \cup {None}]
      /\ socket'[thread[c].socket] = None
      /\ \A h \in Handle \ {thread[c].socket} : socket'[h] = socket[h]
  BY <1>1 DEF IInv, ThreadsTyped
<1>3. \A d \in Connection \ {c} : Running(d)' <=> Running(d)
  BY DEF Running
<1>4. ThreadsTyped'
  <2>1. ASSUME NEW d \in Connection
        PROVE  /\ thread'[d] = [pc |-> thread'[d].pc, socket |-> thread'[d].socket,
                                path |-> thread'[d].path]
               /\ Running(d)' => thread'[d].socket \in Handle
    BY <1>1, <1>3 DEF IInv, ThreadsTyped
  <2> QED BY <1>2, <2>1 DEF ThreadsTyped
<1>5. ASSUME NEW h \in Handle, socket'[h] # None
      PROVE  Running(socket[h])' /\ thread'[socket'[h]].socket = h
  <2>1. h # thread[c].socket /\ socket'[h] = socket[h]
    BY <1>2, <1>5
  <2>2. Running(socket[h]) /\ thread[socket[h]].socket = h /\ socket[h] \in Connection
    BY <1>5, <2>1 DEF IInv, OwnSocket, ThreadsTyped
  <2>3. socket[h] # c
    BY <2>1, <2>2
  <2>4. thread'[socket'[h]] = thread[socket[h]]
    BY <2>1, <2>2, <2>3
  <2> QED BY <2>1, <2>2, <2>4 DEF Running
<1>6. ASSUME NEW d \in Connection \ atRisk', Running(d)'
      PROVE  /\ socket'[thread'[d].socket] = d
             /\ \A e \in Connection \ {d} : Running(e)' => thread'[e].socket # thread'[d].socket
  <2>1. d # c /\ d \notin atRisk /\ Running(d) /\ thread'[d] = thread[d]
    BY <1>3, <1>6
  <2>2. /\ socket[thread[d].socket] = d
        /\ \A e \in Connection \ {d} : Running(e) => thread[e].socket # thread[d].socket
        /\ thread[d].socket \in Handle
    BY <2>1 DEF IInv, OwnSocket, ThreadsTyped, Peer
  <2>3. thread[d].socket # thread[c].socket
    BY <2>1, <2>2
  <2>4. socket'[thread'[d].socket] = d
    BY <1>2, <2>1, <2>2, <2>3
  <2>5. ASSUME NEW e \in Connection \ {d}, Running(e)'
        PROVE  thread'[e].socket # thread'[d].socket
    BY <1>3, <2>1, <2>2, <2>3, <2>5
  <2> QED BY <2>4, <2>5
<1>7. OwnSocket'
  BY <1>5, <1>6 DEF OwnSocket, Peer
<1> QED BY <1>4, <1>7 DEF IInv

-----------------------------------------------------------------------------
(* The other actions *)

\* The handle that a new connection gets is free, and if a thread holds it still the
\* new connection is at risk.
LEMMA AcceptInv ==
    ASSUME IInv, NEW c \in Connection, Accept(c)
    PROVE  IInv'
<1>1. PICK h \in Handle :
          /\ thread[c].pc = "none" /\ socket[h] = None
          /\ socket' = [socket EXCEPT ![h] = c]
          /\ thread' = [thread EXCEPT ![c] = [pc |-> "recv", socket |-> h, path |-> <<>>]]
          /\ atRisk' = IF \E b \in Connection : Running(b) /\ thread[b].socket = h
                       THEN atRisk \cup {c} ELSE atRisk
  BY DEF Accept
<1>2. /\ socket' \in [Handle -> Connection \cup {None}]
      /\ socket'[h] = c
      /\ \A k \in Handle \ {h} : socket'[k] = socket[k]
  BY <1>1 DEF IInv, ThreadsTyped
<1>3. /\ DOMAIN thread' = Connection
      /\ thread'[c] = [pc |-> "recv", socket |-> h, path |-> <<>>]
      /\ \A d \in Connection \ {c} : thread'[d] = thread[d]
  BY <1>1 DEF IInv, ThreadsTyped
<1>4. /\ ~Running(c) /\ Running(c)'
      /\ \A d \in Connection \ {c} : Running(d)' <=> Running(d)
  BY <1>1, <1>3 DEF Running
<1>5. ThreadsTyped'
  <2>1. ASSUME NEW d \in Connection
        PROVE  /\ thread'[d] = [pc |-> thread'[d].pc, socket |-> thread'[d].socket,
                                path |-> thread'[d].path]
               /\ Running(d)' => thread'[d].socket \in Handle
    BY <1>3, <1>4 DEF IInv, ThreadsTyped
  <2> QED BY <1>2, <1>3, <2>1 DEF ThreadsTyped
<1>6. ASSUME NEW k \in Handle, socket'[k] # None
      PROVE  Running(socket[k])' /\ thread'[socket'[k]].socket = k
  <2>1. CASE k = h
    BY <1>2, <1>3, <2>1 DEF Running
  <2>2. CASE k # h
    <3>1. socket'[k] = socket[k] /\ socket[k] \in Connection
      BY <1>2, <1>6, <2>2 DEF IInv, ThreadsTyped
    <3>2. Running(socket[k]) /\ thread[socket[k]].socket = k
      BY <1>6, <3>1 DEF IInv, OwnSocket
    <3>3. socket[k] # c
      BY <1>4, <3>2
    <3>4. thread'[socket'[k]] = thread[socket[k]]
      BY <1>3, <3>1, <3>3
    <3> QED BY <3>1, <3>2, <3>4 DEF Running
  <2> QED BY <2>1, <2>2
<1>7. ASSUME NEW d \in Connection \ atRisk', Running(d)'
      PROVE  /\ socket'[thread'[d].socket] = d
             /\ \A e \in Connection \ {d} : Running(e)' => thread'[e].socket # thread'[d].socket
  <2>1. d \notin atRisk
    BY <1>1, <1>7
  <2>2. CASE d = c
    <3>1. \A b \in Connection : Running(b) => thread[b].socket # h
      BY <1>1, <1>7, <2>2
    <3> QED BY <1>2, <1>3, <1>4, <2>2, <3>1
  <2>3. CASE d # c
    <3>1. /\ thread'[d] = thread[d]
          /\ socket[thread[d].socket] = d
          /\ \A e \in Connection \ {d} : Running(e) => thread[e].socket # thread[d].socket
          /\ thread[d].socket \in Handle
      BY <1>3, <1>4, <1>7, <2>1, <2>3 DEF IInv, OwnSocket, ThreadsTyped, Peer
    <3>2. thread[d].socket # h
      BY <1>1, <3>1, HandleAssumption
    <3> QED BY <1>2, <1>3, <1>4, <3>1, <3>2
  <2> QED BY <2>2, <2>3
<1>8. OwnSocket'
  BY <1>6, <1>7 DEF OwnSocket, Peer
<1> QED BY <1>5, <1>8 DEF IInv

\* What the browser does.
LEMMA BrowserInv ==
    ASSUME IInv, NEW c \in Connection, Request(c) \/ Disconnect(c)
    PROVE  IInv'
<1>1. UNCHANGED <<socket, thread, atRisk>>
  BY DEF Request, Disconnect
<1> QED BY <1>1 DEF IInv, ThreadsTyped, OwnSocket, Running, Peer

LEMMA ReceiveInv ==
    ASSUME IInv, NEW c \in Connection, Receive(c)
    PROVE  IInv'
<1>1. Running(c) /\ UNCHANGED <<socket, atRisk>>
  BY DEF Receive, At, Running
<1>2. PICK requestType : HandleRequest(c, requestType)
  BY DEF Receive
<1>3. CASE IsRequest(requestType)
  <2>1. thread' = [thread EXCEPT ![c] = [pc |-> "execute", socket |-> thread[c].socket,
                                         path |-> RequestedPath[requestType]]]
    BY <1>2, <1>3 DEF HandleRequest
  <2>2. "execute" \notin {"none", "ended"}
    OBVIOUS
  <2> QED BY <1>1, <2>1, <2>2, ThreadMoves, Zenon
<1>4. CASE ~IsRequest(requestType)
  <2>1. thread' = thread
    BY <1>2, <1>4 DEF HandleRequest
  <2> QED BY <1>1, <2>1 DEF IInv, ThreadsTyped, OwnSocket, Running, Peer
<1> QED BY <1>3, <1>4

LEMMA ThreadInv ==
    ASSUME IInv, NEW c \in Connection, ThreadStep(c)
    PROVE  IInv'
<1>1. CASE Receive(c)
  BY <1>1, ReceiveInv
<1>2. CASE ReceiveNothing(c)
  <2>1. Running(c) /\ Goto(c, "close") /\ UNCHANGED <<socket, atRisk>>
    BY <1>2 DEF ReceiveNothing, At, Running
  <2> QED BY <2>1, GotoMoves
<1>3. CASE SendResponse(c) \/ StreamFile(c)
  <2>1. Running(c) /\ Goto(c, "recv") /\ UNCHANGED <<socket, atRisk>>
    BY <1>3 DEF SendResponse, StreamFile, At, Running
  <2> QED BY <2>1, GotoMoves
<1>4. CASE StreamFileThrows(c)
  <2>1. Running(c) /\ Goto(c, "abandon") /\ UNCHANGED <<socket, atRisk>>
    BY <1>4 DEF StreamFileThrows, At, Running
  <2> QED BY <2>1, GotoMoves
<1>5. CASE AbandonSocket(c)
  <2>1. /\ Running(c) /\ Goto(c, "recv")
        /\ socket' = [socket EXCEPT ![thread[c].socket] = None]
        /\ atRisk' = atRisk \cup {c}
    BY <1>5 DEF AbandonSocket, At, Running
  <2>2. thread[c] = [pc |-> thread[c].pc, socket |-> thread[c].socket, path |-> thread[c].path]
    BY DEF IInv, ThreadsTyped
  <2>3. thread' = [thread EXCEPT ![c] = [thread[c] EXCEPT !.pc = "recv"]]
    BY <2>1 DEF Goto
  <2>4. [thread[c] EXCEPT !.pc = "recv"]
            = [pc |-> "recv", socket |-> thread[c].socket, path |-> thread[c].path]
    BY <2>2
  <2>5. /\ DOMAIN thread' = Connection
        /\ \A d \in Connection \ {c} : thread'[d] = thread[d]
        /\ thread'[c] = [pc |-> "recv", socket |-> thread[c].socket, path |-> thread[c].path]
    BY <2>3, <2>4 DEF IInv, ThreadsTyped
  <2>6. Running(c)'
    BY <2>5 DEF Running
  <2>7. thread'[c] = [pc |-> thread'[c].pc, socket |-> thread'[c].socket, path |-> thread'[c].path]
    BY <2>5
  <2>8. thread'[c].socket = thread[c].socket
    BY <2>5
  <2> QED BY <2>1, <2>5, <2>6, <2>7, <2>8, HandleCloses, Zenon
<1>6. CASE CloseSocket(c)
  <2>1. /\ Running(c)
        /\ socket' = [socket EXCEPT ![thread[c].socket] = None]
        /\ thread' = [thread EXCEPT ![c] = [NoThread EXCEPT !.pc = "ended"]]
        /\ atRisk' = atRisk
    BY <1>6 DEF CloseSocket, At, Running
  <2>2. /\ DOMAIN thread' = Connection
        /\ \A d \in Connection \ {c} : thread'[d] = thread[d]
        /\ thread'[c] = [pc |-> "ended", socket |-> None, path |-> <<>>]
    BY <2>1 DEF IInv, ThreadsTyped, NoThread
  <2>3. ~Running(c)'
    BY <2>2 DEF Running
  <2> QED BY <2>1, <2>2, <2>3, HandleCloses
<1> QED BY <1>1, <1>2, <1>3, <1>4, <1>5, <1>6 DEF ThreadStep

-----------------------------------------------------------------------------
\* Handles are neither lost nor shared (the two sides of Server::Run's single
\* closesocket), except by the connections that the second close, after a failed
\* stream, puts at risk.
THEOREM SocketsAreOwned == Spec => []OwnSocket
<1>1. IInv /\ [Next]_vars => IInv'
  <2>1. SUFFICES ASSUME IInv, [Next]_vars
                 PROVE  IInv'
    OBVIOUS
  <2>2. CASE UNCHANGED vars
    BY <2>1, <2>2 DEF vars, IInv, ThreadsTyped, OwnSocket, Running, Peer
  <2>3. ASSUME NEW c \in Connection,
               Accept(c) \/ Request(c) \/ Disconnect(c) \/ ThreadStep(c)
        PROVE  IInv'
    BY <2>1, <2>3, AcceptInv, BrowserInv, ThreadInv
  <2> QED BY <2>1, <2>2, <2>3 DEF Next
<1>2. IInv => OwnSocket
  BY DEF IInv
<1> QED BY InitInv, <1>1, <1>2, PTL DEF Spec

-----------------------------------------------------------------------------
(* The server implements RequestResponse *)

\* The requests of connection c that were received.
ReceivedOf(c) == Len(sent[c]) - Len(wire[c])

\* On a connection in step the wire holds the last requests, none of them in part;
\* its thread works on the last one that was received, if that has no answer yet.
InOrder(c) ==
    /\ Len(wire[c]) <= Len(sent[c])
    /\ \A i \in 1 .. Len(wire[c]) : wire[c][i] = RequestText(LinkTo(sent[c][ReceivedOf(c) + i]))
    /\ thread[c].pc \in {"none", "recv"} => Len(answers[c]) = ReceivedOf(c)
    /\ thread[c].pc = "execute" => /\ Len(answers[c]) + 1 = ReceivedOf(c)
                                   /\ thread[c].path = sent[c][ReceivedOf(c)]

StepInv == \A c \in Connection : InStep(c) => InOrder(c)

Inv == TypeOK /\ OwnSocket /\ StepInv

\* The sequences of a connection.
LEMMA Lengths ==
    ASSUME TypeOK, NEW c \in Connection
    PROVE  /\ sent[c] \in Seq(Target) /\ wire[c] \in Seq(Bytes)
           /\ Len(sent[c]) \in Nat /\ Len(wire[c]) \in Nat /\ Len(answers[c]) \in Nat
           /\ ReceivedOf(c) \in Int
<1>1. /\ sent[c] \in Seq(Target) /\ wire[c] \in Seq(Bytes)
      /\ answers[c] \in Seq([path : Bytes, kind : Kinds])
  BY DEF TypeOK, Kinds
<1>2. Len(answers[c]) \in Nat
  <2>1. PICK Answer : Answer = [path : Bytes, kind : Kinds]
    OBVIOUS
  <2>2. answers[c] \in Seq(Answer)
    BY <1>1, <2>1
  <2> QED BY <2>2
<1> QED BY <1>1, <1>2 DEF ReceivedOf

\* The handle of a thread in step is its own; a handle of a connection in step is in no
\* other thread's hands.
LEMMA OwnPeer ==
    ASSUME TypeOK, OwnSocket, NEW c \in Connection, Running(c)
    PROVE  /\ InStep(c) => Peer(c) = c
           /\ \A d \in Connection \ {c} : Peer(c) = d => ~InStep(d)
<1>1. InStep(c) => Peer(c) = c
  BY DEF OwnSocket, InStep
<1>2. ASSUME NEW d \in Connection \ {c}, Peer(c) = d, InStep(d)
      PROVE  FALSE
  <2>1. thread[c].socket \in Handle /\ d # None
    BY HandleAssumption DEF TypeOK
  <2>2. Running(d) /\ thread[d].socket = thread[c].socket
    BY <1>2, <2>1 DEF OwnSocket, Peer
  <2> QED BY <1>2, <2>2 DEF OwnSocket, InStep
<1> QED BY <1>1, <1>2

\* A step that leaves a connection's requests, answers and thread alone.
LEMMA KeptInOrder ==
    ASSUME StepInv, NEW c \in Connection, InStep(c)' => InStep(c),
           sent'[c] = sent[c], wire'[c] = wire[c], answers'[c] = answers[c],
           thread'[c] = thread[c]
    PROVE  InStep(c)' => InOrder(c)'
<1>1. ReceivedOf(c)' = ReceivedOf(c)
  BY DEF ReceivedOf
<1> QED BY <1>1 DEF StepInv, InOrder

\* A step of the thread to a program counter that InOrder says nothing about.
LEMMA LeftInOrder ==
    ASSUME StepInv, NEW c \in Connection, InStep(c)' => InStep(c),
           sent'[c] = sent[c], wire'[c] = wire[c],
           thread'[c].pc \notin {"none", "recv", "execute"}
    PROVE  InStep(c)' => InOrder(c)'
<1>1. ReceivedOf(c)' = ReceivedOf(c)
  BY DEF ReceivedOf
<1> QED BY <1>1 DEF StepInv, InOrder

LEMMA AcceptInOrder ==
    ASSUME Inv, NEW c \in Connection, Accept(c)
    PROVE  StepInv'
<1>1. PICK h \in Handle :
          /\ thread[c].pc = "none"
          /\ thread' = [thread EXCEPT ![c] = [pc |-> "recv", socket |-> h, path |-> <<>>]]
          /\ atRisk \subseteq atRisk'
          /\ UNCHANGED <<sent, wire, answers, exact>>
  BY DEF Accept
<1>2. \A d \in Connection : InStep(d)' => InStep(d)
  BY <1>1 DEF InStep
<1>3. /\ thread'[c] = [pc |-> "recv", socket |-> h, path |-> <<>>]
      /\ \A d \in Connection \ {c} : thread'[d] = thread[d]
  BY <1>1 DEF Inv, TypeOK
<1>4. ASSUME InStep(c)' PROVE InOrder(c)'
  <2>1. InOrder(c)
    BY <1>2, <1>4 DEF Inv, StepInv
  <2>2. thread'[c].pc = "recv"
    BY <1>3
  <2>3. ReceivedOf(c)' = ReceivedOf(c)
    BY <1>1 DEF ReceivedOf
  <2> QED BY <1>1, <2>1, <2>2, <2>3 DEF InOrder
<1>5. ASSUME NEW d \in Connection \ {c} PROVE InStep(d)' => InOrder(d)'
  BY <1>1, <1>2, <1>3, KeptInOrder DEF Inv
<1> QED BY <1>4, <1>5 DEF StepInv

LEMMA BrowserInOrder ==
    ASSUME Inv, NEW c \in Connection, Request(c) \/ Disconnect(c)
    PROVE  StepInv'
<1>1. UNCHANGED <<answers, thread, exact, atRisk>>
  BY DEF Request, Disconnect
<1>2. \A d \in Connection : InStep(d)' => InStep(d)
  BY <1>1 DEF InStep
<1>3. CASE Disconnect(c)
  <2>1. UNCHANGED <<sent, wire>>
    BY <1>3 DEF Disconnect
  <2>2. ASSUME NEW d \in Connection PROVE InStep(d)' => InOrder(d)'
    BY <1>1, <1>2, <2>1, KeptInOrder DEF Inv
  <2> QED BY <2>2 DEF StepInv
<1>4. CASE Request(c)
  <2>1. PICK path \in Target :
            /\ sent' = [sent EXCEPT ![c] = Append(@, path)]
            /\ wire' = [wire EXCEPT ![c] = Append(@, RequestText(LinkTo(path)))]
    BY <1>4 DEF Request
  <2>2. PICK text \in Bytes : text = RequestText(LinkTo(path))
    BY PathArrives
  <2>3. /\ sent'[c] = Append(sent[c], path) /\ wire'[c] = Append(wire[c], text)
        /\ \A d \in Connection \ {c} : sent'[d] = sent[d] /\ wire'[d] = wire[d]
    BY <2>1, <2>2 DEF Inv, TypeOK
  <2>4. ASSUME NEW d \in Connection \ {c} PROVE InStep(d)' => InOrder(d)'
    BY <1>1, <1>2, <2>3, KeptInOrder DEF Inv
  <2>5. ASSUME InStep(c)' PROVE InOrder(c)'
    <3>1. InOrder(c)
      BY <1>2, <2>5 DEF Inv, StepInv
    <3>2. PICK m \in Nat, n \in Nat : m = Len(sent[c]) /\ n = Len(wire[c])
      BY Lengths DEF Inv
    <3>3. sent[c] \in Seq(Target) /\ wire[c] \in Seq(Bytes)
      BY Lengths DEF Inv
    <3>4. /\ Len(sent'[c]) = m + 1 /\ Len(wire'[c]) = n + 1
          /\ \A i \in 1 .. m : sent'[c][i] = sent[c][i]
          /\ \A i \in 1 .. n : wire'[c][i] = wire[c][i]
          /\ sent'[c][m + 1] = path /\ wire'[c][n + 1] = text
      BY <2>3, <3>2, <3>3
    <3>5. ReceivedOf(c) = m - n /\ ReceivedOf(c)' = m - n
      BY <3>2, <3>4 DEF ReceivedOf
    <3>6. n <= m /\ \A i \in 1 .. n : wire[c][i] = RequestText(LinkTo(sent[c][(m - n) + i]))
      BY <3>1, <3>2, <3>5 DEF InOrder
    <3>7. n + 1 <= m + 1
      BY <3>6
    <3>8. ASSUME NEW i \in 1 .. n + 1
          PROVE  wire'[c][i] = RequestText(LinkTo(sent'[c][(m - n) + i]))
      <4>1. CASE i \in 1 .. n
        <5>1. (m - n) + i \in 1 .. m
          BY <3>6, <4>1
        <5>2. sent'[c][(m - n) + i] = sent[c][(m - n) + i]
          BY <3>4, <5>1
        <5> QED BY <3>4, <3>6, <4>1, <5>2
      <4>2. CASE i = n + 1
        <5>1. (m - n) + i = m + 1
          BY <4>2
        <5> QED BY <2>2, <3>4, <4>2, <5>1
      <4>3. i \in 1 .. n \/ i = n + 1
        OBVIOUS
      <4> QED BY <4>1, <4>2, <4>3
    <3>9. thread[c].pc \in {"none", "recv"} => Len(answers[c]) = m - n
      BY <3>1, <3>5 DEF InOrder
    <3>10. ASSUME thread[c].pc = "execute"
           PROVE  Len(answers[c]) + 1 = m - n /\ thread[c].path = sent'[c][m - n]
      <4>1. Len(answers[c]) + 1 = m - n /\ thread[c].path = sent[c][m - n]
        BY <3>1, <3>5, <3>10 DEF InOrder
      <4>2. Len(answers[c]) \in Nat
        BY Lengths DEF Inv
      <4>3. m - n \in 1 .. m
        BY <3>6, <4>1, <4>2
      <4> QED BY <3>4, <4>1, <4>3
    <3> QED BY <1>1, <3>4, <3>5, <3>7, <3>8, <3>9, <3>10 DEF InOrder
  <2> QED BY <2>4, <2>5 DEF StepInv
<1> QED BY <1>3, <1>4

\* A receive that returns one whole request, on a connection in step.
LEMMA ReceiveInOrder ==
    ASSUME Inv, NEW c \in Connection, Receive(c)
    PROVE  StepInv'
<1>1. Running(c) /\ UNCHANGED <<sent, answers, socket, atRisk>>
  BY Received, Zenon DEF Inv
<1>2. PICK d \in Connection, n \in Nat : d = Peer(c) /\ wire[d] # <<>> /\ Takes(c, d, n)
  BY Received, Zenon DEF Inv
<1>3. PICK requestType \in Bytes :
          /\ requestType = ParseRequest(SubSeq(FlattenSeq(wire[d]), 1, n))
          /\ HandleRequest(c, requestType)
  BY <1>2, Zenon DEF Takes
<1>4. \A e \in Connection \ {c} : thread'[e] = thread[e]
  BY <1>3 DEF HandleRequest, Inv, TypeOK
<1>5. /\ \A e \in Connection \ {d} : wire'[e] = wire[e] /\ exact'[e] = exact[e]
      /\ exact'[d] = (exact[d] /\ n = Len(Head(wire[d])))
      /\ n = Len(Head(wire[d])) => wire'[d] = Tail(wire[d])
  BY <1>2 DEF Takes, Inv, TypeOK
<1>6. \A e \in Connection : InStep(e)' => InStep(e)
  BY <1>1, <1>5 DEF InStep
<1>7. ASSUME NEW e \in Connection, InStep(e)', e # c PROVE InOrder(e)'
  <2>1. e # d
    BY <1>1, <1>2, <1>6, <1>7, OwnPeer DEF Inv
  <2> QED BY <1>1, <1>4, <1>5, <1>6, <1>7, <2>1, KeptInOrder DEF Inv
<1>8. ASSUME InStep(c)' PROVE InOrder(c)'
  <2>1. InStep(c) /\ InOrder(c)
    BY <1>6, <1>8 DEF Inv, StepInv
  <2>2. d = c
    BY <1>1, <1>2, <2>1, OwnPeer DEF Inv
  <2>3. n = Len(Head(wire[c])) /\ wire'[c] = Tail(wire[c])
    BY <1>5, <1>8, <2>2 DEF InStep
  <2>4. wire[c] \in Seq(Bytes) /\ wire[c] # <<>>
    BY <1>2, <2>2, Lengths DEF Inv
  <2>5. requestType = ParseRequest(Head(wire[c]))
    <3>1. SubSeq(FlattenSeq(wire[c]), 1, Len(Head(wire[c]))) = Head(wire[c])
      BY <2>4, WireType, Zenon
    <3> QED BY <1>3, <2>2, <2>3, <3>1
  <2>6. PICK m \in Nat, l \in Nat : m = Len(sent[c]) /\ l = Len(wire[c])
    BY Lengths DEF Inv
  <2>7. PICK r : r = m - l
    OBVIOUS
  <2>8. l >= 1 /\ Head(wire[c]) = wire[c][1]
    BY <2>4, <2>6
  <2>9. /\ ReceivedOf(c) = r /\ l <= m
        /\ \A i \in 1 .. l : wire[c][i] = RequestText(LinkTo(sent[c][r + i]))
    BY <2>1, <2>6, <2>7 DEF InOrder, ReceivedOf
  <2>10. r \in Nat /\ r + 1 \in 1 .. m /\ 1 \in 1 .. l
    BY <2>7, <2>8, <2>9
  <2>11. PICK path \in Target : path = sent[c][r + 1]
    <3>1. sent[c] \in Seq(Target)
      BY Lengths DEF Inv
    <3> QED BY <2>6, <2>10, <3>1
  <2>12. requestType = ParseRequest(RequestText(LinkTo(path)))
    BY <2>5, <2>8, <2>9, <2>10, <2>11
  <2>13. IsRequest(requestType) /\ RequestedPath[requestType] = path
    BY <2>12, PathArrives
  <2>14. thread'[c].pc = "execute" /\ thread'[c].path = path
    <3>1. thread' = [thread EXCEPT ![c] = [pc |-> "execute", socket |-> thread[c].socket,
                                           path |-> path]]
      BY <1>3, <2>13 DEF HandleRequest
    <3> QED BY <3>1 DEF Inv, TypeOK
  <2>15. thread[c].pc = "recv"
    BY DEF Receive, At
  <2>16. Len(answers[c]) = r
    BY <2>1, <2>9, <2>15 DEF InOrder
  <2>17. Len(wire'[c]) = l - 1 /\ \A i \in 1 .. l - 1 : wire'[c][i] = wire[c][i + 1]
    BY <2>3, <2>4, <2>6
  <2>18. ReceivedOf(c)' = r + 1
    BY <1>1, <2>6, <2>7, <2>17 DEF ReceivedOf
  <2>19. ASSUME NEW i \in 1 .. l - 1
         PROVE  wire'[c][i] = RequestText(LinkTo(sent[c][(r + 1) + i]))
    <3>1. i + 1 \in 1 .. l /\ (r + 1) + i = r + (i + 1)
      BY <2>10
    <3> QED BY <2>9, <2>17, <3>1
  <2>20. l - 1 <= m
    BY <2>9
  <2> QED BY <1>1, <2>6, <2>11, <2>14, <2>16, <2>17, <2>18, <2>19, <2>20 DEF InOrder
<1> QED BY <1>7, <1>8 DEF StepInv

\* The three steps that send an answer.
Sends(c, kind, pc) ==
    /\ At(c, "execute") /\ Send(c, kind) /\ Goto(c, pc)
    /\ UNCHANGED <<browser, socket, cuts, exact, atRisk>>

LEMMA SendInOrder ==
    ASSUME Inv, NEW c \in Connection, NEW kind, NEW pc \in {"recv", "abandon"}, Sends(c, kind, pc)
    PROVE  StepInv'
<1>1. /\ Running(c) /\ thread[c].pc = "execute"
      /\ UNCHANGED <<sent, wire, socket, exact, atRisk>>
  BY DEF Sends, At, Running, browser
<1>2. \A e \in Connection : InStep(e)' => InStep(e)
  BY <1>1 DEF InStep
<1>3. thread'[c].pc = pc /\ \A e \in Connection \ {c} : thread'[e] = thread[e]
  BY DEF Sends, Goto, Inv, TypeOK
<1>4. ASSUME NEW e \in Connection, InStep(e)', e # c PROVE InOrder(e)'
  <2>1. Peer(c) # e
    BY <1>1, <1>2, <1>4, OwnPeer DEF Inv
  <2>2. answers'[e] = answers[e]
    BY <2>1 DEF Sends, Send, Inv, TypeOK
  <2> QED BY <1>1, <1>2, <1>3, <1>4, <2>2, KeptInOrder DEF Inv
<1>5. ASSUME InStep(c)' PROVE InOrder(c)'
  <2>1. InStep(c) /\ InOrder(c)
    BY <1>2, <1>5 DEF Inv, StepInv
  <2>2. CASE pc = "abandon"
    BY <1>1, <1>2, <1>3, <1>5, <2>2, LeftInOrder DEF Inv
  <2>3. CASE pc = "recv"
    <3>1. Peer(c) = c /\ c # None
      BY <1>1, <2>1, OwnPeer, HandleAssumption DEF Inv
    <3>2. answers'[c] = Append(answers[c], [path |-> thread[c].path, kind |-> kind])
      BY <3>1 DEF Sends, Send, Inv, TypeOK
    <3>3. Len(answers'[c]) = Len(answers[c]) + 1
      <4>1. answers[c] \in Seq([path : Bytes, kind : Kinds])
        BY DEF Inv, TypeOK, Kinds
      <4>2. PICK Answer : Answer = [path : Bytes, kind : Kinds]
        OBVIOUS
      <4>3. PICK s \in Seq(Answer) : s = answers[c]
        BY <4>1, <4>2
      <4>4. PICK a : a = [path |-> thread[c].path, kind |-> kind]
        OBVIOUS
      <4>5. Len(Append(s, a)) = Len(s) + 1
        OBVIOUS
      <4> QED BY <3>2, <4>3, <4>4, <4>5
    <3>4. Len(answers'[c]) = ReceivedOf(c)
      BY <1>1, <2>1, <3>3 DEF InOrder
    <3>5. ReceivedOf(c)' = ReceivedOf(c)
      BY <1>1 DEF ReceivedOf
    <3> QED BY <1>1, <1>3, <2>1, <2>3, <3>4, <3>5 DEF InOrder
  <2> QED BY <2>2, <2>3
<1> QED BY <1>4, <1>5 DEF StepInv

LEMMA SendSteps ==
    ASSUME NEW c, SendResponse(c) \/ StreamFile(c) \/ StreamFileThrows(c)
    PROVE  \E kind : \E pc \in {"recv", "abandon"} : Sends(c, kind, pc)
<1>1. CASE SendResponse(c)
  BY <1>1 DEF SendResponse, Sends
<1>2. CASE StreamFile(c)
  BY <1>2 DEF StreamFile, Sends
<1>3. CASE StreamFileThrows(c)
  BY <1>3 DEF StreamFileThrows, Sends
<1> QED BY <1>1, <1>2, <1>3

LEMMA ThreadInOrder ==
    ASSUME Inv, NEW c \in Connection, ThreadStep(c)
    PROVE  StepInv'
<1>1. CASE Receive(c)
  BY <1>1, ReceiveInOrder
<1>2. CASE SendResponse(c) \/ StreamFile(c) \/ StreamFileThrows(c)
  BY <1>2, SendSteps, SendInOrder
<1>3. CASE ReceiveNothing(c) \/ AbandonSocket(c) \/ CloseSocket(c)
  <2>1. UNCHANGED <<sent, wire, answers, exact>> /\ atRisk \subseteq atRisk'
    BY <1>3 DEF ReceiveNothing, AbandonSocket, CloseSocket, browser
  <2>2. \A e \in Connection : InStep(e)' => InStep(e)
    BY <2>1 DEF InStep
  <2>3. \A e \in Connection \ {c} : thread'[e] = thread[e]
    BY <1>3 DEF ReceiveNothing, AbandonSocket, CloseSocket, Goto, Inv, TypeOK
  <2>4. ASSUME NEW e \in Connection \ {c} PROVE InStep(e)' => InOrder(e)'
    BY <2>1, <2>2, <2>3, KeptInOrder DEF Inv
  <2>5. InStep(c)' => InOrder(c)'
    <3>1. CASE AbandonSocket(c)
      BY <3>1 DEF AbandonSocket, InStep
    <3>2. CASE ReceiveNothing(c) \/ CloseSocket(c)
      <4>1. thread'[c].pc \in {"close", "ended"}
        BY <3>2 DEF ReceiveNothing, CloseSocket, Goto, NoThread, Inv, TypeOK
      <4> QED BY <2>1, <2>2, <4>1, LeftInOrder DEF Inv
    <3> QED BY <1>3, <3>1, <3>2
  <2> QED BY <2>4, <2>5 DEF StepInv
<1> QED BY <1>1, <1>2, <1>3 DEF ThreadStep

LEMMA InitInOrder == Init => StepInv
<1> SUFFICES ASSUME Init, NEW c \in Connection PROVE InOrder(c)
  BY DEF StepInv
<1>1. sent[c] = <<>> /\ wire[c] = <<>> /\ answers[c] = <<>> /\ thread[c].pc = "none"
  BY DEF Init, NoThread
<1> QED BY <1>1 DEF InOrder, ReceivedOf

LEMMA StepKeepsOrder == Inv /\ [Next]_vars => StepInv'
<1> SUFFICES ASSUME Inv, [Next]_vars
             PROVE  StepInv'
  OBVIOUS
<1>1. CASE UNCHANGED vars
  BY <1>1 DEF vars, browser, Inv, StepInv, InStep, InOrder, ReceivedOf
<1>2. ASSUME NEW c \in Connection,
             Accept(c) \/ Request(c) \/ Disconnect(c) \/ ThreadStep(c)
      PROVE  StepInv'
  BY <1>2, AcceptInOrder, BrowserInOrder, ThreadInOrder
<1> QED BY <1>1, <1>2 DEF Next

-----------------------------------------------------------------------------
(* The steps of RequestResponse *)

\* What the refinement substitutes for answered and for inStep.
Answered == [c \in Connection |-> [n \in DOMAIN answers[c] |-> answers[c][n].path]]

StepsOf == [c \in Connection |-> InStep(c)]

\* A step that RequestResponse allows.
Allowed == Promise!Next \/ UNCHANGED <<sent, Answered, StepsOf>>

LEMMA AnsweredKept ==
    ASSUME UNCHANGED answers
    PROVE  UNCHANGED Answered
BY DEF Answered

LEMMA StepsKept ==
    ASSUME UNCHANGED <<exact, atRisk>>
    PROVE  UNCHANGED StepsOf
BY DEF StepsOf, InStep

LEMMA AskAllowed ==
    ASSUME NEW c \in Connection, NEW path \in Target,
           sent' = [sent EXCEPT ![c] = Append(@, path)],
           UNCHANGED <<answers, exact, atRisk>>
    PROVE  Allowed
<1>1. Answered' = Answered /\ StepsOf' = StepsOf
  BY AnsweredKept, StepsKept
<1>2. Promise!Ask(c)
  BY <1>1, Zenon DEF Promise!Ask, Answered, StepsOf
<1> QED BY <1>2, Zenon DEF Promise!Next, Allowed

\* A step in which at most connection c falls out of step.
LEMMA FallAllowed ==
    ASSUME NEW c \in Connection, UNCHANGED <<sent, answers>>,
           \A d \in Connection : InStep(d)' => InStep(d),
           \A d \in Connection \ {c} : InStep(d) => InStep(d)'
    PROVE  Allowed
<1>1. Answered' = Answered
  BY AnsweredKept
<1>2. CASE InStep(c)' <=> InStep(c)
  <2>0. \A d \in Connection : InStep(d)' = InStep(d)
    BY <1>2 DEF InStep
  <2>1. StepsOf' = StepsOf
    BY <2>0, Zenon DEF StepsOf
  <2> QED BY <1>1, <2>1 DEF Allowed
<1>3. CASE ~InStep(c)'
  <2>0. \A d \in Connection : InStep(d)' = IF d = c THEN FALSE ELSE InStep(d)
    BY <1>3 DEF InStep
  <2>3. StepsOf' = [d \in Connection |-> IF d = c THEN FALSE ELSE InStep(d)]
    BY <2>0, Zenon DEF StepsOf
  <2>4. [d \in Connection |-> IF d = c THEN FALSE ELSE InStep(d)] = [StepsOf EXCEPT ![c] = FALSE]
    BY DEF StepsOf, InStep
  <2>1. StepsOf' = [StepsOf EXCEPT ![c] = FALSE]
    BY <2>3, <2>4
  <2>2. Promise!FallOutOfStep(c)
    BY <1>1, <2>1, Zenon DEF Promise!FallOutOfStep, Answered, StepsOf
  <2> QED BY <2>2, Zenon DEF Promise!Next, Allowed
<1> QED BY <1>2, <1>3 DEF InStep

\* An answer to connection d, which is about the right path if d is in step.
LEMMA AnswerAllowed ==
    ASSUME Inv, NEW d \in Connection, NEW path, NEW kind,
           answers' = [answers EXCEPT ![d] = Append(@, [path |-> path, kind |-> kind])],
           InStep(d) => Len(answers[d]) < Len(sent[d]) /\ path = sent[d][Len(answers[d]) + 1],
           UNCHANGED <<sent, exact, atRisk>>
    PROVE  Allowed
<1>1. StepsOf' = StepsOf
  BY StepsKept
<1>2. PICK a : a = [path |-> path, kind |-> kind]
  OBVIOUS
<1>3. /\ answers'[d] = Append(answers[d], a)
      /\ \A e \in Connection \ {d} : answers'[e] = answers[e]
  BY <1>2 DEF Inv, TypeOK
<1>4. a.path = path
  BY <1>2
<1>5. \A e \in Connection \ {d} : Answered'[e] = Answered[e]
  BY <1>3 DEF Answered
<1>6. PICK s : s = answers[d] /\ \E Answer : s \in Seq(Answer)
  BY DEF Inv, TypeOK
<1>7. Len(s) \in Nat /\ DOMAIN s = 1 .. Len(s)
  BY <1>6
<1>8. PICK t : t = Append(s, a)
  OBVIOUS
<1>9. DOMAIN t = 1 .. Len(s) + 1 /\ t[Len(s) + 1] = a /\ \A n \in 1 .. Len(s) : t[n] = s[n]
  <2>1. PICK Answer : s \in Seq(Answer)
    BY <1>6
  <2>2. PICK All : All = Answer \cup {a}
    OBVIOUS
  <2>3. s \in Seq(All) /\ a \in All
    BY <2>1, <2>2
  <2> QED BY <1>8, <2>3
<1>10. PICK p : p = [n \in DOMAIN s |-> s[n].path]
  OBVIOUS
<1>11. Answered[d] = p
  BY <1>6, <1>10 DEF Answered
<1>12. \E Paths : p \in Seq(Paths)
  <2>1. p \in Seq({s[n].path : n \in DOMAIN s})
    BY <1>7, <1>10
  <2> QED BY <2>1
<1>13. Len(p) = Len(s)
  BY <1>7, <1>10
<1>14. [n \in DOMAIN t |-> t[n].path] = Append(p, path)
  <2>1. PICK q : q = [n \in DOMAIN t |-> t[n].path]
    OBVIOUS
  <2>2. DOMAIN q = 1 .. Len(s) + 1 /\ q[Len(s) + 1] = path /\ \A n \in 1 .. Len(s) : q[n] = p[n]
    BY <1>4, <1>7, <1>9, <1>10, <2>1
  <2>3. PICK Paths : p \in Seq(Paths)
    BY <1>12
  <2>4. PICK All : All = Paths \cup {path}
    OBVIOUS
  <2>5. p \in Seq(All) /\ path \in All
    BY <2>3, <2>4
  <2>6. /\ Append(p, path) \in Seq(All) /\ Len(Append(p, path)) = Len(s) + 1
        /\ Append(p, path)[Len(s) + 1] = path
        /\ \A n \in 1 .. Len(s) : Append(p, path)[n] = p[n]
    BY <1>13, <2>5
  <2>7. q = [n \in 1 .. Len(s) + 1 |-> q[n]]
    BY <2>1, <2>2
  <2>8. \A n \in 1 .. Len(s) + 1 : q[n] = Append(p, path)[n] /\ q[n] \in All
    <3>1. \A n \in 1 .. Len(s) : p[n] \in All
      BY <1>13, <2>5
    <3>2. \A n \in 1 .. Len(s) + 1 : n \in 1 .. Len(s) \/ n = Len(s) + 1
      BY <1>7
    <3> QED BY <2>2, <2>5, <2>6, <3>1, <3>2
  <2>9. q \in Seq(All) /\ Len(q) = Len(s) + 1
    BY <1>7, <2>7, <2>8
  <2> QED BY <2>1, <2>6, <2>8, <2>9, SeqEqual
<1>15. Answered'[d] = Append(Answered[d], path)
  BY <1>3, <1>6, <1>8, <1>11, <1>14 DEF Answered
<1>16. Answered' = [Answered EXCEPT ![d] = Append(@, path)]
  BY <1>5, <1>15 DEF Answered
<1>17. CASE InStep(d)
  <2>1. Len(Answered[d]) < Len(sent[d]) /\ path = sent[d][Len(Answered[d]) + 1]
    BY <1>6, <1>11, <1>13, <1>17
  <2>2. Answered' = [Answered EXCEPT ![d] = Append(@, sent[d][Len(@) + 1])]
    BY <1>16, <2>1
  <2>3. StepsOf[d]
    BY <1>17 DEF StepsOf
  <2>4. Promise!Answer(d)
    BY <1>1, <2>1, <2>2, <2>3, Zenon DEF Promise!Answer, Answered, StepsOf
  <2> QED BY <2>4, Zenon DEF Promise!Next, Allowed
<1>18. CASE ~InStep(d)
  <2>1. ~StepsOf[d]
    BY <1>18 DEF StepsOf
  <2>2. Promise!StrayAnswer(d)
    BY <1>1, <1>5, <2>1, Zenon DEF Promise!StrayAnswer, Answered, StepsOf
  <2> QED BY <2>2, Zenon DEF Promise!Next, Allowed
<1> QED BY <1>17, <1>18

-----------------------------------------------------------------------------
(* The steps of the server *)

LEMMA SendAllowed ==
    ASSUME Inv, NEW c \in Connection, NEW kind, NEW pc, Sends(c, kind, pc)
    PROVE  Allowed
<1>1. /\ Running(c) /\ thread[c].pc = "execute"
      /\ UNCHANGED <<sent, exact, atRisk>>
  BY DEF Sends, At, Running, browser
<1>2. CASE Peer(c) = None
  <2>1. UNCHANGED answers
    BY <1>2 DEF Sends, Send
  <2> QED BY <1>1, <2>1, AnsweredKept, StepsKept DEF Allowed
<1>3. CASE Peer(c) # None
  <2>1. PICK d \in Connection : d = Peer(c)
    BY <1>1, <1>3 DEF Inv, TypeOK, Peer
  <2>2. answers' = [answers EXCEPT ![d] = Append(@, [path |-> thread[c].path, kind |-> kind])]
    BY <1>3, <2>1 DEF Sends, Send
  <2>3. ASSUME InStep(d)
        PROVE  Len(answers[d]) < Len(sent[d]) /\ thread[c].path = sent[d][Len(answers[d]) + 1]
    <3>1. d = c
      BY <1>1, <2>1, <2>3, OwnPeer DEF Inv
    <3>2. InOrder(c)
      BY <2>3, <3>1 DEF Inv, StepInv
    <3>3. PICK m \in Nat, l \in Nat, n \in Nat :
              m = Len(sent[c]) /\ l = Len(wire[c]) /\ n = Len(answers[c])
      BY Lengths DEF Inv
    <3>4. n + 1 = m - l /\ thread[c].path = sent[c][m - l]
      BY <1>1, <3>2, <3>3 DEF InOrder, ReceivedOf
    <3>5. n < m
      BY <3>4
    <3> QED BY <3>1, <3>3, <3>4, <3>5
  <2> QED BY <1>1, <2>2, <2>3, AnswerAllowed
<1> QED BY <1>2, <1>3

LEMMA StepAllowed ==
    ASSUME Inv, [Next]_vars
    PROVE  Allowed
<1>1. CASE UNCHANGED vars
  <2>1. UNCHANGED <<sent, answers, exact, atRisk>>
    BY <1>1 DEF vars, browser
  <2> QED BY <2>1, AnsweredKept, StepsKept DEF Allowed
<1>2. ASSUME NEW c \in Connection, Accept(c)
      PROVE  Allowed
  <2>1. UNCHANGED <<sent, answers, exact>> /\ (atRisk' = atRisk \/ atRisk' = atRisk \cup {c})
    BY <1>2 DEF Accept
  <2> QED BY <2>1, FallAllowed DEF InStep
<1>3. ASSUME NEW c \in Connection, Request(c)
      PROVE  Allowed
  <2>1. PICK path \in Target : sent' = [sent EXCEPT ![c] = Append(@, path)]
    BY <1>3 DEF Request
  <2>2. UNCHANGED <<answers, exact, atRisk>>
    BY <1>3 DEF Request
  <2> QED BY <2>1, <2>2, AskAllowed
<1>4. ASSUME NEW c \in Connection,
             Disconnect(c) \/ ReceiveNothing(c) \/ CloseSocket(c)
      PROVE  Allowed
  <2>1. UNCHANGED <<sent, answers, exact, atRisk>>
    BY <1>4 DEF Disconnect, ReceiveNothing, CloseSocket, browser
  <2> QED BY <2>1, AnsweredKept, StepsKept DEF Allowed
<1>5. ASSUME NEW c \in Connection, Receive(c)
      PROVE  Allowed
  <2>1. UNCHANGED <<sent, answers, atRisk>>
    BY <1>5, Received, Zenon DEF Inv
  <2>2. PICK d \in Connection, n \in Nat : Takes(c, d, n)
    BY <1>5, Received, Zenon DEF Inv
  <2>3. /\ \A e \in Connection \ {d} : exact'[e] = exact[e]
        /\ exact'[d] = (exact[d] /\ n = Len(Head(wire[d])))
    BY <2>2 DEF Takes, Inv, TypeOK
  <2> QED BY <2>1, <2>3, FallAllowed DEF InStep
<1>6. ASSUME NEW c \in Connection, SendResponse(c) \/ StreamFile(c) \/ StreamFileThrows(c)
      PROVE  Allowed
  BY <1>6, SendSteps, SendAllowed
<1>7. ASSUME NEW c \in Connection, AbandonSocket(c)
      PROVE  Allowed
  <2>1. UNCHANGED <<sent, answers, exact>> /\ atRisk' = atRisk \cup {c}
    BY <1>7 DEF AbandonSocket, browser
  <2> QED BY <2>1, FallAllowed DEF InStep
<1> QED BY <1>1, <1>2, <1>3, <1>4, <1>5, <1>6, <1>7 DEF Next, ThreadStep

LEMMA InitAllowed == Init => Promise!Init
<1> SUFFICES ASSUME Init PROVE Promise!Init
  OBVIOUS
<1>1. sent = [c \in Connection |-> <<>>]
  BY DEF Init
<1>2. [c \in Connection |-> [n \in DOMAIN answers[c] |-> answers[c][n].path]]
          = [c \in Connection |-> <<>>]
  BY DEF Init
<1>3. [c \in Connection |-> InStep(c)] = [c \in Connection |-> TRUE]
  BY DEF Init, InStep
<1> QED BY <1>1, <1>2, <1>3, Zenon DEF Promise!Init

\* On a connection in step each request gets one answer, in order, which is about the path
\* that the link was made of: whatever the paths, the sizes of buffers and messages and the
\* number of connections, through encoding, the browser, parsing and decoding.
THEOREM AnswersInOrder == Spec => ImplementsRequestResponse
<1>1. Inv /\ [Next]_vars
          => [Promise!Next]_<<sent,
                  [c \in Connection |-> [n \in DOMAIN answers[c] |-> answers[c][n].path]],
                  [c \in Connection |-> InStep(c)]>>
  BY StepAllowed, Zenon DEF Allowed, Answered, StepsOf
<1> QED BY <1>1, InitAllowed, InitInOrder, StepKeepsOrder, TypeIsCorrect, SocketsAreOwned, PTL
        DEF Spec, Inv, ImplementsRequestResponse, Promise!Spec

=============================================================================
