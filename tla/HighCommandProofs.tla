------------------------- MODULE HighCommandProofs -------------------------
(***************************************************************************)
(* Proofs about HighCommand, for every number of terminals and whatever is *)
(* typed into them: once the scripts have ended by themselves, the robot   *)
(* is left with the idle command.                                          *)
(***************************************************************************)
EXTENDS HighCommand, TLAPS, SequenceTheorems

---------------------------------------------------------------------------
(* The shape of the scripts.                                               *)

Ops == {"kill_pub", "spawn", "sleep", "kill", "sdk", "echo"}
AnyEffect == [op : Ops, cmd : HighCmd]

(* Whatever is published is published until the end of the sleep after it. *)
Phased(S) ==
  /\ S \in Seq(AnyEffect)
  /\ \A i \in 1..Len(S) : S[i].op = "spawn" =>
       /\ i + 2 <= Len(S)
       /\ S[i + 1].op = "sleep" /\ S[i + 2].op = "kill"
       /\ S[i + 1].cmd = S[i].cmd /\ S[i + 2].cmd = S[i].cmd

Publishes(S) == \E i \in 1..Len(S) : S[i].op = "spawn"

(* Another publication follows a kill_pub, and one of another command than *)
(* idle.                                                                   *)
EndsIdly(S) ==
  \A i \in 1..Len(S) :
    S[i].op = "kill_pub" \/ (S[i].op = "spawn" /\ S[i].cmd # Idle) =>
      \E j \in (i + 1)..Len(S) : S[j].op = "spawn"

LEMMA Joined ==
  ASSUME NEW S \in Seq(AnyEffect), NEW T \in Seq(AnyEffect)
  PROVE  /\ S \o T \in Seq(AnyEffect)
         /\ Len(S) \in Nat /\ Len(T) \in Nat /\ Len(S \o T) = Len(S) + Len(T)
         /\ \A i \in 1..Len(S) : (S \o T)[i] = S[i]
         /\ \A i \in 1..Len(T) : (S \o T)[Len(S) + i] = T[i]
<1>1. Len(S) \in Nat /\ Len(T) \in Nat
  BY LenProperties
<1>2. /\ S \o T \in Seq(AnyEffect) /\ Len(S \o T) = Len(S) + Len(T)
      /\ \A i \in 1..(Len(S) + Len(T)) :
           (S \o T)[i] = IF i <= Len(S) THEN S[i] ELSE T[i - Len(S)]
  BY ConcatProperties
<1>3. ASSUME NEW i \in 1..Len(S) PROVE (S \o T)[i] = S[i]
  <2>1. i \in 1..(Len(S) + Len(T)) /\ i <= Len(S)
    BY <1>1
  <2> QED BY <1>2, <2>1
<1>4. ASSUME NEW i \in 1..Len(T) PROVE (S \o T)[Len(S) + i] = T[i]
  <2>1. Len(S) + i \in 1..(Len(S) + Len(T)) /\ ~(Len(S) + i <= Len(S)) /\ Len(S) + i - Len(S) = i
    BY <1>1
  <2> QED BY <1>2, <2>1
<1> QED BY <1>1, <1>2, <1>3, <1>4

LEMMA JoinPhased ==
  ASSUME NEW S, NEW T, Phased(S), Phased(T)
  PROVE  Phased(S \o T)
<1>1. S \in Seq(AnyEffect) /\ T \in Seq(AnyEffect)
  BY DEF Phased
<1> DEFINE U == S \o T
<1>2. /\ U \in Seq(AnyEffect)
      /\ Len(S) \in Nat /\ Len(T) \in Nat /\ Len(U) = Len(S) + Len(T)
      /\ \A i \in 1..Len(S) : U[i] = S[i]
      /\ \A i \in 1..Len(T) : U[Len(S) + i] = T[i]
  BY <1>1, Joined
<1> HIDE DEF U
<1> SUFFICES ASSUME NEW i \in 1..Len(U), U[i].op = "spawn"
             PROVE  /\ i + 2 <= Len(U)
                    /\ U[i + 1].op = "sleep" /\ U[i + 2].op = "kill"
                    /\ U[i + 1].cmd = U[i].cmd /\ U[i + 2].cmd = U[i].cmd
  BY <1>2 DEF Phased, U
<1>3. CASE i \in 1..Len(S)
  <2>1. S[i].op = "spawn"
    BY <1>2, <1>3
  <2>2. /\ i + 2 <= Len(S) /\ S[i + 1].op = "sleep" /\ S[i + 2].op = "kill"
        /\ S[i + 1].cmd = S[i].cmd /\ S[i + 2].cmd = S[i].cmd
    BY <1>3, <2>1 DEF Phased
  <2>3. i + 1 \in 1..Len(S) /\ i + 2 \in 1..Len(S) /\ i + 2 <= Len(U)
    BY <1>2, <2>2
  <2> QED BY <1>2, <1>3, <2>2, <2>3
<1>4. CASE i \notin 1..Len(S)
  <2>1. PICK k \in 1..Len(T) : i = Len(S) + k
    <3>1. i - Len(S) \in 1..Len(T) /\ i = Len(S) + (i - Len(S))
      BY <1>2, <1>4
    <3> QED BY <3>1
  <2>2. T[k].op = "spawn" /\ U[i] = T[k]
    BY <1>2, <2>1
  <2>3. /\ k + 2 <= Len(T) /\ T[k + 1].op = "sleep" /\ T[k + 2].op = "kill"
        /\ T[k + 1].cmd = T[k].cmd /\ T[k + 2].cmd = T[k].cmd
    BY <2>2 DEF Phased
  <2>4. k + 1 \in 1..Len(T) /\ k + 2 \in 1..Len(T)
    <3>1. Len(T) \in Nat /\ k \in Nat /\ k + 2 <= Len(T)
      BY <1>2, <2>3
    <3> QED BY <3>1
  <2>5. i + 1 = Len(S) + (k + 1) /\ i + 2 = Len(S) + (k + 2) /\ i + 2 <= Len(U)
    <3>1. /\ Len(S) \in Nat /\ Len(T) \in Nat /\ k \in Nat
          /\ Len(U) = Len(S) + Len(T) /\ k + 2 <= Len(T)
      BY <1>2, <2>3
    <3> QED BY <2>1, <3>1
  <2> QED BY <1>2, <2>2, <2>3, <2>4, <2>5
<1> QED BY <1>3, <1>4

LEMMA JoinEnd ==
  ASSUME NEW S \in Seq(AnyEffect), NEW T \in Seq(AnyEffect), EndsIdly(T), Publishes(T)
  PROVE  EndsIdly(S \o T) /\ Publishes(S \o T)
<1> DEFINE U == S \o T
<1>1. /\ Len(S) \in Nat /\ Len(T) \in Nat /\ Len(U) = Len(S) + Len(T)
      /\ \A i \in 1..Len(T) : U[Len(S) + i] = T[i]
  BY Joined
<1> HIDE DEF U
<1>2. PICK p \in 1..Len(T) : T[p].op = "spawn"
  BY DEF Publishes
<1>3. Len(S) + p \in 1..Len(U) /\ U[Len(S) + p].op = "spawn"
  BY <1>1, <1>2
<1>4. ASSUME NEW i \in 1..Len(U), U[i].op = "kill_pub" \/ (U[i].op = "spawn" /\ U[i].cmd # Idle)
      PROVE  \E j \in (i + 1)..Len(U) : U[j].op = "spawn"
  <2>1. CASE i \in 1..Len(S)
    <3>1. Len(S) + p \in (i + 1)..Len(U)
      BY <1>1, <2>1
    <3> QED BY <1>3, <3>1
  <2>2. CASE i \notin 1..Len(S)
    <3>1. PICK k \in 1..Len(T) : i = Len(S) + k
      <4>1. i - Len(S) \in 1..Len(T) /\ i = Len(S) + (i - Len(S))
        BY <1>1, <2>2
      <4> QED BY <4>1
    <3>2. U[i] = T[k]
      BY <1>1, <3>1
    <3>3. PICK j \in (k + 1)..Len(T) : T[j].op = "spawn"
      BY <1>4, <3>2 DEF EndsIdly
    <3>4. j \in 1..Len(T) /\ Len(S) + j \in (i + 1)..Len(U)
      BY <1>1, <3>1
    <3> QED BY <1>1, <3>3, <3>4
  <2> QED BY <2>1, <2>2
<1> QED BY <1>3, <1>4 DEF EndsIdly, Publishes, U

LEMMA Parts ==
  /\ {Idle, Forward(1), Forward(2), Mode(5), Mode(6), Mode(7)}
       \subseteq HighCmd
  /\ Phased(kill_pub) /\ Len(kill_pub) = 1
  /\ Phased(<<Effect("sleep", Idle)>>) /\ Phased(<<Effect("echo", Idle)>>)
  /\ \A c \in HighCmd : Phased(Publish(c)) /\ Len(Publish(c)) = 3
  /\ EndsIdly(Publish(Idle)) /\ Publishes(Publish(Idle))
  /\ \A m \in {0, 5, 6, 7} :
       Phased(SDK_BIN(m)) /\ EndsIdly(SDK_BIN(m)) /\ Len(SDK_BIN(m)) = 1
<1>1. {Idle, Forward(1), Forward(2), Mode(5), Mode(6), Mode(7)}
        \subseteq HighCmd
  BY DEF HighCmd, Idle, Forward, Mode
<1>2. Phased(kill_pub) /\ Len(kill_pub) = 1
  BY <1>1 DEF Phased, kill_pub, Effect, AnyEffect, Ops
<1>3. Phased(<<Effect("sleep", Idle)>>) /\ Phased(<<Effect("echo", Idle)>>)
  BY <1>1 DEF Phased, Effect, AnyEffect, Ops
<1>4. ASSUME NEW c \in HighCmd PROVE Phased(Publish(c)) /\ Len(Publish(c)) = 3
  BY DEF Phased, Publish, Effect, AnyEffect, Ops
<1>5. EndsIdly(Publish(Idle)) /\ Publishes(Publish(Idle))
  BY DEF EndsIdly, Publishes, Publish, Effect
<1>6. ASSUME NEW m \in {0, 5, 6, 7}
      PROVE  Phased(SDK_BIN(m)) /\ EndsIdly(SDK_BIN(m)) /\ Len(SDK_BIN(m)) = 1
  <2>1. Mode(m) \in HighCmd
    BY DEF HighCmd, Mode
  <2> QED BY <2>1 DEF Phased, EndsIdly, SDK_BIN, Effect, AnyEffect, Ops
<1> QED BY <1>1, <1>2, <1>3, <1>4, <1>5, <1>6

LEMMA JoinLength ==
  ASSUME NEW S, NEW T, Phased(S), Phased(T)
  PROVE  Phased(S \o T) /\ Len(S \o T) = Len(S) + Len(T)
BY JoinPhased, Joined DEF Phased

LEMMA JoinIdle ==
  ASSUME NEW S, NEW T, Phased(S), Phased(T), EndsIdly(T), Publishes(T)
  PROVE  /\ Phased(S \o T) /\ Len(S \o T) = Len(S) + Len(T)
         /\ EndsIdly(S \o T) /\ Publishes(S \o T)
<1>1. S \in Seq(AnyEffect) /\ T \in Seq(AnyEffect)
  BY DEF Phased
<1>2. EndsIdly(S \o T) /\ Publishes(S \o T)
  BY <1>1, JoinEnd
<1> QED BY <1>2, JoinLength

LEMMA Phases ==
  /\ \A c \in HighCmd : Phased(publish_highcmd(c)) /\ Len(publish_highcmd(c)) = 4
  /\ EndsIdly(publish_highcmd(Idle)) /\ Publishes(publish_highcmd(Idle))
<1>1. ASSUME NEW c \in HighCmd
      PROVE  Phased(publish_highcmd(c)) /\ Len(publish_highcmd(c)) = 4
  <2>1. /\ Phased(kill_pub) /\ Len(kill_pub) = 1
        /\ Phased(Publish(c)) /\ Len(Publish(c)) = 3
    BY Parts
  <2>2. publish_highcmd(c) = kill_pub \o Publish(c)
    BY DEF publish_highcmd
  <2>3. /\ Phased(publish_highcmd(c))
        /\ Len(publish_highcmd(c)) = Len(kill_pub) + Len(Publish(c))
    BY <2>1, <2>2, JoinLength
  <2> QED BY <2>1, <2>3
<1>2. EndsIdly(publish_highcmd(Idle)) /\ Publishes(publish_highcmd(Idle))
  <2>1. /\ Idle \in HighCmd /\ Phased(kill_pub)
        /\ EndsIdly(Publish(Idle)) /\ Publishes(Publish(Idle))
    BY Parts
  <2>2. Phased(Publish(Idle))
    BY <2>1, Parts
  <2> QED BY <2>1, <2>2, JoinIdle DEF publish_highcmd
<1> QED BY <1>1, <1>2

LEMMA Walks ==
  ASSUME NEW g \in {1, 2}
  PROVE  Phased(Walk(g)) /\ EndsIdly(Walk(g)) /\ Len(Walk(g)) = 12
<1> DEFINE P == publish_highcmd(Idle)
           Q == publish_highcmd(Forward(g))
<1>1. Phased(P) /\ Len(P) = 4 /\ EndsIdly(P) /\ Publishes(P) /\ Phased(Q) /\ Len(Q) = 4
  <2>1. Idle \in HighCmd /\ Forward(g) \in HighCmd
    BY Parts
  <2> QED BY <2>1, Phases
<1>2. Walk(g) = (P \o Q) \o P
  BY DEF Walk
<1> HIDE DEF P, Q
<1>3. Phased(P \o Q) /\ Len(P \o Q) = 8
  <2>1. Phased(P \o Q) /\ Len(P \o Q) = Len(P) + Len(Q)
    BY <1>1, JoinLength
  <2> QED BY <1>1, <2>1
<1>4. Phased((P \o Q) \o P) /\ EndsIdly((P \o Q) \o P) /\ Len((P \o Q) \o P) = 12
  <2>1. /\ Phased((P \o Q) \o P) /\ EndsIdly((P \o Q) \o P)
        /\ Len((P \o Q) \o P) = Len(P \o Q) + Len(P)
    BY <1>1, <1>3, JoinIdle
  <2> QED BY <1>1, <1>3, <2>1
<1> QED BY <1>2, <1>4

(* `stop': an echo is no publication.                                      *)
LEMMA StopScript ==
  Phased(Script["stop"]) /\ EndsIdly(Script["stop"]) /\ Len(Script["stop"]) = 6
<1> DEFINE P == kill_pub \o publish_highcmd(Idle)
           E == <<Effect("echo", Idle)>>
<1>1. Phased(P) /\ Len(P) = 5 /\ EndsIdly(P)
  <2>1. /\ Phased(kill_pub) /\ Len(kill_pub) = 1 /\ Phased(publish_highcmd(Idle))
        /\ Len(publish_highcmd(Idle)) = 4
        /\ EndsIdly(publish_highcmd(Idle)) /\ Publishes(publish_highcmd(Idle))
    BY Parts, Phases
  <2>2. /\ Phased(P) /\ EndsIdly(P)
        /\ Len(P) = Len(kill_pub) + Len(publish_highcmd(Idle))
    BY <2>1, JoinIdle
  <2> QED BY <2>1, <2>2
<1>2. Phased(E) /\ Len(E) = 1 /\ E[1].op = "echo"
  BY Parts DEF Effect
<1>3. Script["stop"] = P \o E
  BY DEF Script
<1> HIDE DEF P, E
<1>4. Phased(P \o E) /\ Len(P \o E) = 6
  <2>1. Phased(P \o E) /\ Len(P \o E) = Len(P) + Len(E)
    BY <1>1, <1>2, JoinLength
  <2> QED BY <1>1, <1>2, <2>1
<1> DEFINE U == P \o E
<1>5. EndsIdly(U)
  <2>1. /\ \A i \in 1..Len(P) : U[i] = P[i]
        /\ \A i \in 1..Len(E) : U[Len(P) + i] = E[i]
    BY <1>1, <1>2, Joined DEF Phased
  <2>2. Len(U) = 6
    BY <1>4
  <2> HIDE DEF U
  <2>3. \A i \in 1..5 : U[i] = P[i]
    BY <1>1, <2>1
  <2>4. U[6].op = "echo"
    <3>1. 1 \in 1..Len(E) /\ Len(P) + 1 = 6
      BY <1>1, <1>2
    <3>2. U[Len(P) + 1] = E[1]
      BY <2>1, <3>1
    <3> QED BY <1>2, <3>1, <3>2
  <2>5. ASSUME NEW i \in 1..6, U[i].op = "kill_pub" \/ (U[i].op = "spawn" /\ U[i].cmd # Idle)
        PROVE  \E j \in (i + 1)..6 : U[j].op = "spawn"
    <3>1. i # 6
      BY <2>4, <2>5
    <3>2. i \in 1..5
      BY <3>1
    <3>3. PICK j \in (i + 1)..5 : P[j].op = "spawn"
      BY <1>1, <2>3, <2>5, <3>2 DEF EndsIdly
    <3>4. j \in 1..5 /\ j \in (i + 1)..6
      BY <3>2
    <3> QED BY <2>3, <3>3, <3>4
  <2> QED BY <2>2, <2>5 DEF EndsIdly
<1> QED BY <1>3, <1>4, <1>5

LEMMA TestTrot ==
  /\ Phased(Script["test_trot"]) /\ EndsIdly(Script["test_trot"])
  /\ Len(Script["test_trot"]) = 11
<1> DEFINE K == kill_pub
           W == <<Effect("sleep", Idle)>>
           P == Publish(Idle)
           Q == Publish(Forward(1))
<1>1. /\ Phased(K) /\ Len(K) = 1 /\ Phased(W) /\ Len(W) = 1
      /\ Phased(P) /\ Len(P) = 3 /\ EndsIdly(P) /\ Publishes(P)
      /\ Phased(Q) /\ Len(Q) = 3
  <2>1. Idle \in HighCmd /\ Forward(1) \in HighCmd
    BY Parts
  <2> QED BY <2>1, Parts
<1>2. Script["test_trot"] = (((K \o W) \o P) \o Q) \o P
  BY DEF Script
<1> HIDE DEF K, W, P, Q
<1>3. Phased(K \o W) /\ Len(K \o W) = 2
  <2>1. Phased(K \o W) /\ Len(K \o W) = Len(K) + Len(W)
    BY <1>1, JoinLength
  <2> QED BY <1>1, <2>1
<1> DEFINE A == K \o W
<1> HIDE DEF A
<1>4. Phased(A \o P) /\ Len(A \o P) = 5
  <2>1. Phased(A \o P) /\ Len(A \o P) = Len(A) + Len(P)
    BY <1>1, <1>3, JoinLength DEF A
  <2> QED BY <1>1, <1>3, <2>1 DEF A
<1> DEFINE B == A \o P
<1> HIDE DEF B
<1>5. Phased(B \o Q) /\ Len(B \o Q) = 8
  <2>1. Phased(B \o Q) /\ Len(B \o Q) = Len(B) + Len(Q)
    BY <1>1, <1>4, JoinLength DEF B
  <2> QED BY <1>1, <1>4, <2>1 DEF B
<1> DEFINE C == B \o Q
<1> HIDE DEF C
<1>6. Phased(C \o P) /\ EndsIdly(C \o P) /\ Len(C \o P) = Len(C) + Len(P)
  BY <1>1, <1>5, JoinIdle DEF C
<1>7. Len(C) + Len(P) = 11
  BY <1>1, <1>5 DEF C
<1> QED BY <1>2, <1>6, <1>7 DEF A, B, C

LEMMA Scripts ==
  ASSUME NEW c \in DOMAIN Script
  PROVE  Phased(Script[c]) /\ EndsIdly(Script[c]) /\ Len(Script[c]) \in 1..12
<1>1. c \in {"damp", "sit", "stand", "idle", "walk", "trot", "stop", "test_trot"}
  BY DEF Script
<1>2. /\ Script["damp"] = SDK_BIN(7) /\ Script["sit"] = SDK_BIN(5)
      /\ Script["stand"] = SDK_BIN(6) /\ Script["idle"] = SDK_BIN(0)
      /\ Script["walk"] = Walk(1) /\ Script["trot"] = Walk(2)
  BY DEF Script
<1>3. CASE c \in {"damp", "sit", "stand", "idle"}
  BY <1>2, <1>3, Parts
<1>4. CASE c \in {"walk", "trot"}
  BY <1>2, <1>4, Walks
<1>5. CASE c \in {"stop", "test_trot"}
  BY <1>5, StopScript, TestTrot
<1> QED BY <1>1, <1>3, <1>4, <1>5

---------------------------------------------------------------------------
(* The publishers and their scripts.                                       *)

Lines(s) == Script[script[s]]

(* The script begins another publication.                                  *)
ToCome(s) ==
  Typed(s) /\ \E i \in 1..Len(Lines(s)) : i > done[s] /\ Lines(s)[i].op = "spawn"

(* It is in a publication's sleep, or at its end.                          *)
InPublication(s) ==
  Typed(s) /\ \E i \in 1..Len(Lines(s)) : Lines(s)[i].op = "spawn" /\ done[s] \in {i, i + 1}

(* A publisher never outlives its script's sleep, unless Ctrl-C has ended  *)
(* the script there.                                                       *)
PublisherInv == \A s \in Shell : pub[s] # "none" => InPublication(s)

TypeInv == TypeOK /\ script \in [Shell -> DOMAIN Script \cup {NoScript}]

(* The script of a shell.                                                  *)
LEMMA ScriptOf ==
  ASSUME TypeInv, NEW s \in Shell, Typed(s)
  PROVE  /\ Lines(s) \in Seq(AnyEffect) /\ Len(Lines(s)) \in 1..12
         /\ Phased(Lines(s)) /\ EndsIdly(Lines(s))
         /\ done[s] \in Nat
<1>1. script[s] \in DOMAIN Script
  BY DEF TypeInv, Typed
<1>2. done[s] \in Nat
  BY DEF TypeInv, TypeOK
<1> QED BY <1>1, <1>2, Scripts DEF Lines, Phased

LEMMA RunningScript ==
  ASSUME TypeInv, NEW s \in Shell, Running(s)
  PROVE  /\ Typed(s) /\ s \notin interrupted
         /\ done[s] + 1 \in 1..Len(Lines(s)) /\ done[s] \in 0..11
         /\ Effect_(s) = Lines(s)[done[s] + 1] /\ Effect_(s) \in AnyEffect
<1>1. Typed(s) /\ s \notin interrupted /\ ~(done[s] >= Len(Lines(s)))
  BY DEF Running, Ended, Lines
<1>2. done[s] \in Nat /\ Len(Lines(s)) \in 1..12 /\ Lines(s) \in Seq(AnyEffect)
  BY <1>1, ScriptOf
<1>3. done[s] + 1 \in 1..Len(Lines(s)) /\ done[s] \in 0..11
  <2>1. ASSUME NEW d \in Nat, NEW n \in 1..12, ~(d >= n) PROVE d + 1 \in 1..n /\ d \in 0..11
    BY <2>1
  <2> QED BY <1>1, <1>2, <2>1
<1>4. Lines(s)[done[s] + 1] \in AnyEffect
  BY <1>2, <1>3, ElementOfSeq
<1> QED BY <1>1, <1>3, <1>4 DEF Effect_, Lines

(* What a publisher says is what its script has it say, or had when it was *)
(* interrupted, and the script had another publication to come if that is  *)
(* not idle.                                                               *)
LEMMA PublisherSays ==
  ASSUME TypeInv, PublisherInv, NEW s \in Shell, pub[s] # "none"
  PROVE  /\ Effect_(s).cmd \in HighCmd
         /\ s \notin interrupted => Running(s) /\ (At(s, "sleep") \/ At(s, "kill"))
         /\ Effect_(s).cmd # Idle => ToCome(s)
<1>1. PICK i \in 1..Len(Lines(s)) :
        Typed(s) /\ Lines(s)[i].op = "spawn" /\ done[s] \in {i, i + 1}
  BY DEF PublisherInv, InPublication
<1>2. /\ Len(Lines(s)) \in 1..12 /\ Lines(s) \in Seq(AnyEffect)
      /\ Phased(Lines(s)) /\ EndsIdly(Lines(s))
  BY <1>1, ScriptOf
<1>3. /\ i + 2 <= Len(Lines(s))
      /\ Lines(s)[i + 1].op = "sleep" /\ Lines(s)[i + 2].op = "kill"
      /\ Lines(s)[i + 1].cmd = Lines(s)[i].cmd /\ Lines(s)[i + 2].cmd = Lines(s)[i].cmd
  BY <1>1, <1>2 DEF Phased
<1>4. done[s] + 1 \in {i + 1, i + 2} /\ done[s] + 1 \in 1..Len(Lines(s))
  BY <1>1, <1>2, <1>3
<1>5. /\ Effect_(s) = Lines(s)[done[s] + 1] /\ Effect_(s) \in AnyEffect
  <2>1. Effect_(s) = Lines(s)[done[s] + 1]
    BY DEF Effect_, Lines
  <2>2. Lines(s)[done[s] + 1] \in AnyEffect
    BY <1>2, <1>4, ElementOfSeq
  <2> QED BY <2>1, <2>2
<1>6. Effect_(s).op \in {"sleep", "kill"} /\ Effect_(s).cmd = Lines(s)[i].cmd
  BY <1>3, <1>4, <1>5
<1>7. ASSUME Effect_(s).cmd # Idle PROVE ToCome(s)
  <2>1. PICK j \in (i + 1)..Len(Lines(s)) : Lines(s)[j].op = "spawn"
    BY <1>1, <1>2, <1>6, <1>7 DEF EndsIdly
  <2>2. j # i + 1 /\ j # i + 2
    BY <1>3, <2>1
  <2>3. j \in 1..Len(Lines(s)) /\ j > done[s]
    BY <1>1, <1>2, <2>1, <2>2
  <2> QED BY <1>1, <2>1, <2>3 DEF ToCome
<1>8. ASSUME s \notin interrupted PROVE Running(s)
  <2>1. ~(done[s] >= Len(Lines(s)))
    BY <1>1, <1>2, <1>3
  <2> QED BY <1>1, <1>8, <2>1 DEF Running, Ended, Lines
<1> QED BY <1>5, <1>6, <1>7, <1>8 DEF At, AnyEffect

(* An effect brings a script one further.                                  *)
LEMMA Advanced ==
  ASSUME TypeInv, NEW s \in Shell, Running(s), Advance(s)
  PROVE  /\ script' = script /\ interrupted' = interrupted
         /\ done' \in [Shell -> 0..LongestScript] /\ done'[s] = done[s] + 1
         /\ \A t \in Shell \ {s} : done'[t] = done[t]
<1>1. done[s] \in 0..11 /\ done \in [Shell -> 0..LongestScript]
  BY RunningScript DEF TypeInv, TypeOK
<1>2. done' = [done EXCEPT ![s] = @ + 1] /\ script' = script /\ interrupted' = interrupted
  BY DEF Advance
<1> QED BY <1>1, <1>2 DEF LongestScript

(* All scripts stay what they are, and the others where they are.          *)
LEMMA Stays ==
  ASSUME TypeInv, NEW s \in Shell, Running(s), Advance(s)
  PROVE  /\ \A t \in Shell : Typed(t)' <=> Typed(t)
         /\ \A t \in Shell : Lines(t)' = Lines(t)
         /\ \A t \in Shell \ {s} : done'[t] = done[t]
         /\ done'[s] = done[s] + 1
<1>1. script' = script
  BY DEF Advance
<1>2. \A t \in Shell : Lines(t)' = Lines(t)
  BY <1>1 DEF Lines
<1> QED BY <1>1, <1>2, Advanced DEF Typed

(* Every step keeps the types.                                             *)
LEMMA StepTypes ==
  ASSUME TypeInv, PublisherInv, [Next]_vars
  PROVE  TypeInv'
<1> USE DEF TypeInv, TypeOK
<1>1. ASSUME NEW s \in Shell, NEW c \in Command[s], Type(s, c) PROVE TypeInv'
  <2>1. c \in DOMAIN Script
    BY CommandAssumption
  <2> QED BY <1>1, <2>1 DEF Type
<1>2. ASSUME NEW s \in Shell, Effects(s) PROVE TypeInv'
  <2>1. CASE KillPub(s)
    <3>1. Running(s) /\ Advance(s)
      BY <2>1 DEF KillPub, At
    <3>2. /\ script' = script /\ interrupted' = interrupted
          /\ done' \in [Shell -> 0..LongestScript]
      BY <3>1, Advanced
    <3> QED BY <2>1, <3>2 DEF KillPub
  <2>2. CASE Spawn(s)
    <3>1. Running(s) /\ Advance(s)
      BY <2>2 DEF Spawn, At
    <3>2. /\ script' = script /\ interrupted' = interrupted
          /\ done' \in [Shell -> 0..LongestScript]
      BY <3>1, Advanced
    <3> QED BY <2>2, <3>2 DEF Spawn
  <2>3. CASE Sleep(s) \/ Echo(s) \/ SdkEnd(s)
    <3>1. Running(s) /\ Advance(s) /\ UNCHANGED <<pub, served, wire, high_cmd, sent>>
      BY <2>3 DEF Sleep, Echo, SdkEnd, At
    <3>2. /\ script' = script /\ interrupted' = interrupted
          /\ done' \in [Shell -> 0..LongestScript]
      BY <3>1, Advanced
    <3> QED BY <3>1, <3>2
  <2>4. CASE Kill(s)
    <3>1. Running(s) /\ Advance(s)
      BY <2>4 DEF Kill, At
    <3>2. /\ script' = script /\ interrupted' = interrupted
          /\ done' \in [Shell -> 0..LongestScript]
      BY <3>1, Advanced
    <3> QED BY <2>4, <3>2 DEF Kill
  <2>5. CASE SdkSend(s)
    <3>1. Effect_(s).cmd \in HighCmd
      BY <2>5, RunningScript DEF SdkSend, At, AnyEffect
    <3> QED BY <2>5, <3>1 DEF SdkSend, scriptVars
  <2> QED BY <1>2, <2>1, <2>2, <2>3, <2>4, <2>5 DEF Effects
<1>3. ASSUME NEW s \in Shell, CtrlC(s) PROVE TypeInv'
  BY <1>3 DEF CtrlC, AfterCtrlC
<1>4. ASSUME NEW s \in Shell, Start(s) PROVE TypeInv'
  BY <1>4 DEF Start, scriptVars
<1>5. ASSUME NEW s \in Shell, PublishOne(s) PROVE TypeInv'
  <2>1. Effect_(s).cmd \in HighCmd
    BY <1>5, PublisherSays DEF PublishOne
  <2> QED BY <1>5, <2>1 DEF PublishOne, scriptVars
<1>6. ASSUME NEW c \in wire, Drop(c) PROVE TypeInv'
  BY <1>6 DEF Drop, scriptVars
<1>7. ASSUME NEW c \in wire, highCmdCallback(c) PROVE TypeInv'
  <2>1. c \in HighCmd /\ Mixed(high_cmd, c) \subseteq HighCmd
    BY DEF Mixed, HighCmd
  <2> QED BY <1>7, <2>1 DEF highCmdCallback, scriptVars
<1>8. CASE highUdpSend
  BY <1>8 DEF highUdpSend, scriptVars
<1>9. CASE sensor_reader
  <2>1. Idle \in HighCmd
    BY Parts
  <2> QED BY <1>9, <2>1 DEF sensor_reader, scriptVars
<1>10. CASE UNCHANGED vars
  BY <1>10 DEF vars, scriptVars
<1> QED BY <1>1, <1>2, <1>3, <1>4, <1>5, <1>6, <1>7, <1>8, <1>9, <1>10 DEF Next

(* Every step leaves the publishers within their scripts' sleeps.          *)
LEMMA Kept ==
  ASSUME PublisherInv, UNCHANGED <<script, done>>,
         \A s \in Shell : pub'[s] # "none" => pub[s] # "none"
  PROVE  PublisherInv'
<1> SUFFICES ASSUME NEW s \in Shell, pub'[s] # "none" PROVE InPublication(s)'
  BY DEF PublisherInv
<1>1. InPublication(s)
  BY DEF PublisherInv
<1> QED BY <1>1 DEF InPublication, Lines, Typed

LEMMA StepPublishers ==
  ASSUME TypeInv, PublisherInv, [Next]_vars
  PROVE  PublisherInv'
<1>1. ASSUME NEW s \in Shell, NEW c \in Command[s], Type(s, c) PROVE PublisherInv'
  <2> SUFFICES ASSUME NEW t \in Shell, pub'[t] # "none" PROVE InPublication(t)'
    BY DEF PublisherInv
  <2>1. InPublication(t)
    BY <1>1 DEF Type, PublisherInv
  <2>2. t # s
    BY <1>1, <2>1 DEF Type, InPublication
  <2>3. script'[t] = script[t] /\ done' = done
    BY <1>1, <2>2 DEF Type, TypeInv
  <2> QED BY <2>1, <2>3 DEF InPublication, Lines, Typed
<1>2. ASSUME NEW s \in Shell, Effects(s) PROVE PublisherInv'
  <2>1. CASE SdkSend(s)
    BY <2>1, Kept DEF SdkSend, scriptVars
  <2>2. ASSUME Running(s), Advance(s),
               \A t \in Shell \ {s} : pub'[t] # "none" => pub[t] # "none",
               pub'[s] # "none" => InPublication(s)'
        PROVE  PublisherInv'
    <3> SUFFICES ASSUME NEW t \in Shell \ {s}, pub'[t] # "none" PROVE InPublication(t)'
      BY <2>2 DEF PublisherInv
    <3>1. InPublication(t)
      BY <2>2 DEF PublisherInv
    <3>2. (Typed(t)' <=> Typed(t)) /\ Lines(t)' = Lines(t) /\ done'[t] = done[t]
      BY <2>2, Stays
    <3> QED BY <3>1, <3>2 DEF InPublication
  <2>3. CASE KillPub(s) \/ Echo(s) \/ SdkEnd(s)
    <3>1. /\ Running(s) /\ Advance(s) /\ ~At(s, "sleep") /\ ~At(s, "kill")
          /\ \A t \in Shell : pub'[t] # "none" => pub[t] # "none"
      <4>1. CASE KillPub(s)
        BY <4>1 DEF KillPub, At, Named
      <4>2. CASE Echo(s) \/ SdkEnd(s)
        BY <4>2 DEF Echo, SdkEnd, At
      <4> QED BY <2>3, <4>1, <4>2
    <3>2. pub[s] = "none"
      BY <3>1, PublisherSays, RunningScript
    <3> QED BY <2>2, <3>1, <3>2
  <2>4. CASE Spawn(s)
    <3>1. Running(s) /\ Advance(s) /\ Effect_(s).op = "spawn"
      BY <2>4 DEF Spawn, At
    <3>2. /\ Typed(s) /\ done[s] + 1 \in 1..Len(Lines(s))
          /\ Lines(s)[done[s] + 1].op = "spawn"
      BY <3>1, RunningScript
    <3>3. InPublication(s)'
      <4>1. Typed(s)' /\ Lines(s)' = Lines(s) /\ done'[s] = done[s] + 1
        BY <3>1, <3>2, Stays
      <4> QED BY <3>2, <4>1 DEF InPublication
    <3>4. \A t \in Shell \ {s} : pub'[t] = pub[t]
      BY <2>4 DEF Spawn, TypeInv, TypeOK
    <3> QED BY <2>2, <3>1, <3>3, <3>4
  <2>5. CASE Sleep(s)
    <3>1. Running(s) /\ Advance(s) /\ Effect_(s).op = "sleep" /\ pub' = pub
      BY <2>5 DEF Sleep, At
    <3>2. ASSUME pub'[s] # "none" PROVE InPublication(s)'
      <4>1. PICK i \in 1..Len(Lines(s)) :
              Typed(s) /\ Lines(s)[i].op = "spawn" /\ done[s] \in {i, i + 1}
        BY <3>1, <3>2 DEF PublisherInv, InPublication
      <4>2. i + 2 <= Len(Lines(s)) /\ Lines(s)[i + 2].op = "kill" /\ i \in Nat
        BY <4>1, ScriptOf DEF Phased
      <4>3. Effect_(s) = Lines(s)[done[s] + 1]
        BY <3>1, RunningScript
      <4>4. done[s] = i
        <5>1. ASSUME done[s] = i + 1 PROVE FALSE
          <6>1. done[s] + 1 = i + 2
            BY <4>2, <5>1
          <6> QED BY <3>1, <4>2, <4>3, <6>1
        <5> QED BY <4>1, <5>1
      <4>5. Typed(s)' /\ Lines(s)' = Lines(s) /\ done'[s] = i + 1
        BY <3>1, <4>1, <4>4, Stays
      <4> QED BY <4>1, <4>5 DEF InPublication
    <3> QED BY <2>2, <3>1, <3>2
  <2>6. CASE Kill(s)
    <3>1. /\ Running(s) /\ Advance(s)
          /\ pub'[s] = "none" /\ \A t \in Shell \ {s} : pub'[t] = pub[t]
      BY <2>6 DEF Kill, At, TypeInv, TypeOK
    <3> QED BY <2>2, <3>1
  <2> QED BY <1>2, <2>1, <2>3, <2>4, <2>5, <2>6 DEF Effects
<1>3. ASSUME NEW s \in Shell, CtrlC(s) PROVE PublisherInv'
  <2>1. UNCHANGED <<script, done>> /\ \A t \in Shell : pub'[t] # "none" => pub[t] # "none"
    BY <1>3 DEF CtrlC, AfterCtrlC, TypeInv, TypeOK
  <2> QED BY <2>1, Kept
<1>4. ASSUME NEW s \in Shell, Start(s) PROVE PublisherInv'
  <2>1. UNCHANGED scriptVars /\ \A t \in Shell : pub'[t] # "none" => pub[t] # "none"
    BY <1>4 DEF Start, TypeInv, TypeOK
  <2> QED BY <2>1, Kept DEF scriptVars
<1>5. CASE UNCHANGED <<scriptVars, pub>>
  BY <1>5, Kept DEF scriptVars
<1> QED BY <1>1, <1>2, <1>3, <1>4, <1>5
        DEF Next, PublishOne, Drop, highCmdCallback, highUdpSend,
            sensor_reader, vars

---------------------------------------------------------------------------
(* Who owes the last publication.                                          *)

(* The script's publisher is yet to be heard.                              *)
Unheard(s) == At(s, "sleep") /\ pub[s] \in {"forked", "starting", "up"} /\ ~served[s]

Owes(s) == ToCome(s) \/ Unheard(s)

OnlyIdle == high_cmd = Idle /\ wire \subseteq {Idle}

(* Until the last publication was heard, somebody owes one.                *)
CleanInv == Prompt /\ Uninterrupted => OnlyIdle \/ \E s \in Shell : Owes(s)

IInv == TypeInv /\ PublisherInv /\ CleanInv

LEMMA Owing ==
  ASSUME UNCHANGED scriptVars, NEW s \in Shell, Owes(s),
         ToCome(s) \/ (pub'[s] \in {"forked", "starting", "up"} /\ ~served'[s])
  PROVE  Owes(s)'
BY DEF Owes, ToCome, Unheard, Lines,
       At, Running, Ended, Typed, Effect_, scriptVars

(* A step of another script leaves what a script owes.                     *)
LEMMA OwingOther ==
  ASSUME TypeInv, NEW s \in Shell, Running(s), Advance(s), NEW t \in Shell \ {s}, Owes(t),
         ToCome(t) \/ (pub'[t] \in {"forked", "starting", "up"} /\ ~served'[t])
  PROVE  Owes(t)'
<1>1. script' = script /\ interrupted' = interrupted /\ done'[t] = done[t]
  BY Stays DEF Advance
<1> QED BY <1>1 DEF Owes, ToCome, Unheard, Lines,
            At, Running, Ended, Typed, Effect_

(* An effect that is no publication leaves those to come.                  *)
LEMMA StillToCome ==
  ASSUME TypeInv, NEW s \in Shell, Running(s), Advance(s), ToCome(s),
         Effect_(s).op # "spawn"
  PROVE  ToCome(s)'
<1>1. PICK i \in 1..Len(Lines(s)) : Typed(s) /\ i > done[s] /\ Lines(s)[i].op = "spawn"
  BY DEF ToCome
<1>2. Effect_(s) = Lines(s)[done[s] + 1] /\ done[s] \in 0..11
  BY RunningScript
<1>3. i # done[s] + 1
  BY <1>1, <1>2
<1>4. i > done[s] + 1
  <2>1. i \in Int
    OBVIOUS
  <2> QED BY <1>1, <1>2, <1>3, <2>1
<1>5. Typed(s)' /\ Lines(s)' = Lines(s) /\ done'[s] = done[s] + 1
  BY <1>1, Stays
<1> QED BY <1>1, <1>4, <1>5 DEF ToCome

(* Who was interrupted stays so.                                           *)
LEMMA NeverResumed ==
  ASSUME TypeInv, [Next]_vars, Uninterrupted'
  PROVE  Uninterrupted
<1>1. ASSUME NEW s \in Shell, Effects(s) PROVE Uninterrupted
  <2>1. interrupted' = interrupted
    BY <1>1 DEF Effects, KillPub, Spawn, Sleep, Kill, Echo,
                SdkSend, SdkEnd, Advance, scriptVars
  <2> QED BY <2>1 DEF Uninterrupted
<1>2. ASSUME NEW s \in Shell, CtrlC(s) PROVE FALSE
  BY <1>2 DEF CtrlC, Uninterrupted
<1>3. CASE interrupted' = interrupted
  BY <1>3 DEF Uninterrupted
<1> QED BY <1>1, <1>2, <1>3
        DEF Next, Type, Start, PublishOne, Drop, highCmdCallback,
            highUdpSend, sensor_reader,
            vars, scriptVars

LEMMA EffectClean ==
  ASSUME TypeInv, PublisherInv, CleanInv, Prompt, Uninterrupted, NEW s \in Shell, Effects(s)
  PROVE  OnlyIdle' \/ \E t \in Shell : Owes(t)'
<1>1. CASE KillPub(s)
  <2>1. Running(s) /\ Advance(s) /\ Effect_(s).op = "kill_pub"
    BY <1>1 DEF KillPub, At
  <2>2. /\ Typed(s) /\ done[s] + 1 \in 1..Len(Lines(s)) /\ done[s] \in 0..11
        /\ Lines(s)[done[s] + 1].op = "kill_pub"
    BY <2>1, RunningScript
  <2>3. PICK j \in (done[s] + 2)..Len(Lines(s)) : Lines(s)[j].op = "spawn"
    <3>1. EndsIdly(Lines(s)) /\ done[s] + 1 + 1 = done[s] + 2
      BY <2>2, ScriptOf
    <3>2. \E j \in (done[s] + 1 + 1)..Len(Lines(s)) : Lines(s)[j].op = "spawn"
      BY <2>2, <3>1 DEF EndsIdly
    <3> QED BY <3>1, <3>2
  <2>4. Typed(s)' /\ Lines(s)' = Lines(s) /\ done'[s] = done[s] + 1
    BY <2>1, <2>2, Stays
  <2>5. j \in 1..Len(Lines(s)) /\ j > done[s] + 1
    <3>1. ASSUME NEW d \in Nat, NEW n \in Nat, NEW k \in (d + 2)..n
          PROVE  k \in 1..n /\ k > d + 1
      OBVIOUS
    <3>2. done[s] \in Nat /\ Len(Lines(s)) \in Nat
      BY <2>2, ScriptOf
    <3> QED BY <3>1, <3>2
  <2> QED BY <2>3, <2>4, <2>5 DEF Owes, ToCome
<1>2. CASE Spawn(s)
  <2>1. Running(s) /\ Advance(s) /\ Effect_(s).op = "spawn"
    BY <1>2 DEF Spawn, At
  <2>2. /\ Typed(s) /\ done[s] + 1 \in 1..Len(Lines(s)) /\ done[s] \in 0..11
        /\ Lines(s)[done[s] + 1].op = "spawn"
    BY <2>1, RunningScript
  <2>3. /\ done[s] + 3 <= Len(Lines(s)) /\ Lines(s)[done[s] + 2].op = "sleep"
        /\ Len(Lines(s)) \in Nat
    <3>1. Phased(Lines(s)) /\ Len(Lines(s)) \in 1..12
      BY <2>2, ScriptOf
    <3>2. done[s] + 1 + 2 <= Len(Lines(s)) /\ Lines(s)[done[s] + 1 + 1].op = "sleep"
      BY <2>2, <3>1 DEF Phased
    <3>3. done[s] + 1 + 2 = done[s] + 3 /\ done[s] + 1 + 1 = done[s] + 2
      <4>1. done[s] \in 0..11
        BY <2>2
      <4> QED BY <4>1
    <3>4. Len(Lines(s)) \in Nat
      BY <3>1
    <3> QED BY <3>2, <3>3, <3>4, Zenon
  <2>4. script' = script /\ Typed(s)' /\ Lines(s)' = Lines(s) /\ done'[s] = done[s] + 1
    BY <2>1, <2>2, Stays DEF Advance
  <2>5. Running(s)'
    <3>1. ~(done'[s] >= Len(Lines(s)'))
      BY <2>2, <2>3, <2>4
    <3>2. s \notin interrupted'
      BY <2>1, RunningScript DEF Advance
    <3> QED BY <2>4, <3>1, <3>2 DEF Running, Ended, Lines
  <2>6. Effect_(s)' = Lines(s)[done[s] + 2]
    <3>1. done'[s] + 1 = done[s] + 2
      BY <2>2, <2>4
    <3> QED BY <2>4, <3>1 DEF Effect_, Lines
  <2>7. pub'[s] = "forked" /\ served'[s] = FALSE
    BY <1>2 DEF Spawn, TypeInv, TypeOK
  <2> QED BY <2>3, <2>5, <2>6, <2>7 DEF Owes, Unheard, At
<1>3. ASSUME Running(s), Advance(s), Effect_(s).op # "spawn", ~Unheard(s),
             wire' = wire, high_cmd' = high_cmd, served' = served,
             \A t \in Shell \ {s} : pub'[t] = pub[t]
      PROVE  OnlyIdle' \/ \E t \in Shell : Owes(t)'
  <2>1. CASE OnlyIdle
    BY <1>3, <2>1 DEF OnlyIdle
  <2>2. ASSUME NEW t \in Shell, Owes(t) PROVE Owes(t)'
    <3>1. CASE t = s
      <4>1. ToCome(s)
        BY <1>3, <2>2, <3>1 DEF Owes
      <4> QED BY <1>3, <3>1, <4>1, StillToCome DEF Owes
    <3>2. CASE t # s
      <4>1. ToCome(t) \/ (pub'[t] \in {"forked", "starting", "up"} /\ ~served'[t])
        BY <1>3, <2>2, <3>2 DEF Owes, Unheard
      <4> QED BY <1>3, <2>2, <3>2, <4>1, OwingOther
    <3> QED BY <3>1, <3>2
  <2> QED BY <2>1, <2>2 DEF CleanInv
<1>4. CASE Sleep(s)
  <2>1. ~Unheard(s)
    BY <1>4 DEF Sleep, Unheard
  <2> QED BY <1>3, <1>4, <2>1 DEF Sleep, At
<1>5. CASE Kill(s)
  <2>1. ~Unheard(s) /\ \A t \in Shell \ {s} : pub'[t] = pub[t]
    BY <1>5 DEF Kill, Unheard, At, TypeInv, TypeOK
  <2> QED BY <1>3, <1>5, <2>1 DEF Kill, At
<1>6. CASE Echo(s) \/ SdkEnd(s)
  <2>1. ~Unheard(s)
    BY <1>6 DEF Echo, SdkEnd, Unheard, At
  <2> QED BY <1>3, <1>6, <2>1 DEF Echo, SdkEnd, At
<1>7. CASE SdkSend(s)
  <2>1. ~Unheard(s) /\ \A t \in Shell \ {s} : served'[t] = served[t]
    BY <1>7 DEF SdkSend, Unheard, At, TypeInv, TypeOK
  <2>2. CASE OnlyIdle
    BY <1>7, <2>2 DEF SdkSend, OnlyIdle
  <2>3. ASSUME NEW t \in Shell, Owes(t) PROVE Owes(t)'
    <3>1. ToCome(t) \/ (pub'[t] \in {"forked", "starting", "up"} /\ ~served'[t])
      BY <1>7, <2>1, <2>3 DEF Owes, Unheard, SdkSend
    <3> QED BY <1>7, <2>3, <3>1, Owing DEF SdkSend
  <2> QED BY <2>2, <2>3 DEF CleanInv
<1> QED BY <1>1, <1>2, <1>4, <1>5, <1>6, <1>7 DEF Effects

(* If a callback leaves nobody owing, all that was in flight was idle.     *)
LEMMA CallbackClean ==
  ASSUME TypeInv, PublisherInv, CleanInv, Prompt, Uninterrupted, NEW c \in wire,
         highCmdCallback(c)
  PROVE  OnlyIdle' \/ \E t \in Shell : Owes(t)'
<1> SUFFICES ASSUME \A t \in Shell : ~Owes(t)'
             PROVE  OnlyIdle'
  OBVIOUS
<1>1. UNCHANGED scriptVars /\ pub' = pub /\ wire' = wire \ {c} /\ high_cmd' = c
  BY DEF highCmdCallback
<1>2. \A t \in Shell : ~ToCome(t)
  BY <1>1 DEF Owes, ToCome, Typed, Lines, scriptVars
<1>3. wire \subseteq {Idle}
  <2>1. CASE OnlyIdle
    BY <2>1 DEF OnlyIdle
  <2>2. CASE ~OnlyIdle
    <3>1. PICK t \in Shell : Unheard(t)
      BY <1>2, <2>2 DEF CleanInv, Owes
    <3>2. served'[t] # served[t]
      BY <1>1, <3>1, Owing DEF Owes, Unheard
    <3>3. Stale(wire) = {}
      BY <3>2 DEF highCmdCallback, TypeInv, TypeOK
    <3> SUFFICES ASSUME NEW d \in wire PROVE d = Idle
      OBVIOUS
    <3>4. PICK s \in Shell : Says(s, d)
      BY <3>3 DEF Stale
    <3>5. Effect_(s).cmd # Idle => ToCome(s)
      BY <3>4, PublisherSays DEF Says
    <3> QED BY <1>2, <3>4, <3>5 DEF Says
  <2> QED BY <2>1, <2>2
<1> QED BY <1>1, <1>3 DEF OnlyIdle

LEMMA StepClean ==
  ASSUME TypeInv, PublisherInv, CleanInv, [Next]_vars
  PROVE  CleanInv'
<1> SUFFICES ASSUME Prompt, Uninterrupted'
             PROVE  OnlyIdle' \/ \E t \in Shell : Owes(t)'
  BY DEF CleanInv
<1>1. Uninterrupted
  BY NeverResumed
<1>2. OnlyIdle \/ \E t \in Shell : Owes(t)
  BY <1>1 DEF CleanInv
<1>3. ASSUME UNCHANGED scriptVars, UNCHANGED served, OnlyIdle => OnlyIdle',
             \A t \in Shell : pub[t] \in {"forked", "starting", "up"}
                                => pub'[t] \in {"forked", "starting", "up"}
      PROVE  OnlyIdle' \/ \E t \in Shell : Owes(t)'
  BY <1>2, <1>3, Owing DEF Owes, Unheard
<1>4. ASSUME NEW s \in Shell, NEW c \in Command[s], Type(s, c)
      PROVE  OnlyIdle' \/ \E t \in Shell : Owes(t)'
  <2>1. CASE OnlyIdle
    BY <1>4, <2>1 DEF Type, OnlyIdle
  <2>2. ASSUME NEW t \in Shell, Owes(t) PROVE Owes(t)'
    <3>1. Typed(t)
      BY <2>2 DEF Owes, ToCome, Unheard, At, Running
    <3>2. t # s
      BY <1>4, <3>1 DEF Type
    <3>3. /\ script'[t] = script[t]
          /\ UNCHANGED <<done, interrupted, pub, served>>
      BY <1>4, <3>2 DEF Type, TypeInv
    <3> QED BY <2>2, <3>3 DEF Owes, ToCome, Unheard, Lines,
            At, Running, Ended, Typed, Effect_
  <2> QED BY <1>2, <2>1, <2>2
<1>5. ASSUME NEW s \in Shell, Effects(s)
      PROVE  OnlyIdle' \/ \E t \in Shell : Owes(t)'
  BY <1>1, <1>5, EffectClean
<1>6. ASSUME NEW s \in Shell, CtrlC(s) PROVE FALSE
  BY <1>6 DEF CtrlC, Uninterrupted
<1>7. ASSUME NEW s \in Shell, Start(s)
      PROVE  OnlyIdle' \/ \E t \in Shell : Owes(t)'
  <2>1. \A t \in Shell : pub[t] \in {"forked", "starting", "up"}
                           => pub'[t] \in {"forked", "starting", "up"}
    BY <1>7 DEF Start, TypeInv, TypeOK
  <2>2. OnlyIdle => OnlyIdle'
    BY <1>7 DEF Start, OnlyIdle
  <2> QED BY <1>3, <1>7, <2>1, <2>2 DEF Start
<1>8. ASSUME NEW s \in Shell, PublishOne(s)
      PROVE  OnlyIdle' \/ \E t \in Shell : Owes(t)'
  <2>1. CASE Effect_(s).cmd = Idle
    <3>1. OnlyIdle => OnlyIdle'
      BY <1>8, <2>1 DEF PublishOne, OnlyIdle
    <3> QED BY <1>3, <1>8, <3>1 DEF PublishOne
  <2>2. CASE Effect_(s).cmd # Idle
    <3>1. Owes(s)
      BY <1>8, <2>2, PublisherSays DEF PublishOne, Owes
    <3>2. ToCome(s)
      BY <1>8, <2>2, PublisherSays DEF PublishOne
    <3> QED BY <1>8, <3>1, <3>2, Owing DEF PublishOne
  <2> QED BY <2>1, <2>2
<1>9. ASSUME NEW c \in wire, Drop(c)
      PROVE  OnlyIdle' \/ \E t \in Shell : Owes(t)'
  <2>1. OnlyIdle => OnlyIdle'
    BY <1>9 DEF Drop, OnlyIdle
  <2> QED BY <1>3, <1>9, <2>1 DEF Drop
<1>10. ASSUME NEW c \in wire, highCmdCallback(c)
       PROVE  OnlyIdle' \/ \E t \in Shell : Owes(t)'
  BY <1>1, <1>10, CallbackClean
<1>11. CASE UNCHANGED <<scriptVars, pub, served, wire, high_cmd>>
  <2>1. OnlyIdle => OnlyIdle'
    BY <1>11 DEF OnlyIdle
  <2> QED BY <1>3, <1>11, <2>1
<1> QED BY <1>4, <1>5, <1>6, <1>7, <1>8, <1>9, <1>10, <1>11
        DEF Next, highUdpSend, sensor_reader, vars

LEMMA InitClean == Init => IInv
<1> SUFFICES ASSUME Init PROVE IInv
  OBVIOUS
<1>1. Idle \in HighCmd
  BY Parts
<1>2. TypeInv
  BY <1>1 DEF Init, TypeInv, TypeOK, LongestScript
<1>3. PublisherInv
  BY DEF Init, PublisherInv
<1>4. CleanInv
  BY DEF Init, CleanInv, OnlyIdle
<1> QED BY <1>2, <1>3, <1>4 DEF IInv

LEMMA Inductive == Spec => []IInv
<1>1. IInv /\ [Next]_vars => IInv'
  BY StepTypes, StepPublishers, StepClean DEF IInv
<1> QED BY <1>1, InitClean, PTL DEF Spec

(* The types of the scripts, the publishers and ros_udp.                   *)
THEOREM TypeCorrect == Spec => []TypeOK
<1>1. IInv => TypeOK
  BY DEF IInv, TypeInv
<1> QED BY <1>1, Inductive, PTL

(* Any number of scripts, typed into any number of terminals at any time,  *)
(* leave the robot with the idle command once they have all ended, if none *)
(* was ended by Ctrl-C and 2 s are enough to be heard: nobody publishes    *)
(* any more and nothing else is on its way.                                *)
THEOREM LeavesIdle == Spec => []EndedIdle
<1>1. IInv => EndedIdle
  <2> SUFFICES ASSUME IInv, Prompt, Quiet, Uninterrupted
               PROVE  OnlyIdle /\ pub = [s \in Shell |-> "none"]
    BY DEF EndedIdle, OnlyIdle
  <2>1. ASSUME NEW s \in Shell PROVE ~Running(s)
    BY DEF Quiet, Running
  <2>2. ASSUME NEW s \in Shell PROVE pub[s] = "none"
    BY <2>1, PublisherSays DEF IInv, Uninterrupted
  <2>3. ASSUME NEW s \in Shell, Owes(s) PROVE FALSE
    <3>1. ToCome(s)
      BY <2>1, <2>3 DEF Owes, Unheard, At
    <3>2. PICK i \in 1..Len(Lines(s)) : Typed(s) /\ i > done[s]
      BY <3>1 DEF ToCome
    <3>3. done[s] >= Len(Lines(s))
      BY <3>2 DEF Quiet, Ended, Lines, Uninterrupted
    <3>4. Len(Lines(s)) \in 1..12 /\ done[s] \in Nat
      BY <3>2, ScriptOf DEF IInv
    <3> QED BY <3>2, <3>3, <3>4
  <2>4. pub = [s \in Shell |-> "none"]
    BY <2>2 DEF IInv, TypeInv, TypeOK
  <2> QED BY <2>3, <2>4 DEF IInv, CleanInv
<1> QED BY <1>1, Inductive, PTL
============================================================================
