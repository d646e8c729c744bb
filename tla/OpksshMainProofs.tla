-------------------------- MODULE OpksshMainProofs --------------------------
(***************************************************************************)
(* Proofs about isOpenSSHVersion8Dot1OrGreater as OpksshMain models it:    *)
(* the version it extracts from what `sshd -V` prints, and that its string *)
(* comparison with "8.1" rejects every OpenSSH version with a two-digit    *)
(* major from 10 to 79.  The run opkssh_version shows the same on the      *)
(* versions it enumerates; this module shows it for all of them.           *)
(***************************************************************************)
EXTENDS OpksshMain, SequenceTheorems, TLAPS

\* Length, elements and type of a concatenation of character sequences.

LEMMA ConcatLen ==
  ASSUME NEW s \in Seq(Nat), NEW t \in Seq(Nat)
  PROVE  s \o t \in Seq(Nat) /\ Len(s \o t) = Len(s) + Len(t)
OBVIOUS

LEMMA ConcatLeft ==
  ASSUME NEW s \in Seq(Nat), NEW t \in Seq(Nat), NEW i \in 1..Len(s)
  PROVE  (s \o t)[i] = s[i]
OBVIOUS

LEMMA ConcatRight ==
  ASSUME NEW s \in Seq(Nat), NEW t \in Seq(Nat), NEW i \in 1..Len(t)
  PROVE  (s \o t)[Len(s) + i] = t[i]
OBVIOUS

\* Where each part of a three-part concatenation lands.
LEMMA Layout ==
  ASSUME NEW P \in Seq(Nat), Len(P) = 4, NEW D \in Seq(Nat),
         NEW T \in Seq(Nat), Len(T) = 5
  PROVE  LET out == (P \o D) \o T
         IN  /\ out \in Seq(Nat) /\ Len(out) = 9 + Len(D)
             /\ \A i \in 1..4 : out[i] = P[i]
             /\ \A i \in 1..Len(D) : out[4 + i] = D[i]
             /\ \A i \in 1..5 : out[4 + Len(D) + i] = T[i]
<1>1. P \o D \in Seq(Nat) /\ Len(P \o D) = 4 + Len(D)
  BY ConcatLen, ZenonT(60)
<1>2. (P \o D) \o T \in Seq(Nat) /\ Len((P \o D) \o T) = 9 + Len(D)
  <2>1. (P \o D) \o T \in Seq(Nat) /\ Len((P \o D) \o T) = Len(P \o D) + Len(T)
    BY <1>1, ConcatLen, Zenon
  <2> QED
    BY <1>1, <2>1, SMTT(30)
<1>3. ASSUME NEW i \in 1..4 PROVE ((P \o D) \o T)[i] = P[i]
  <2>1. (P \o D)[i] = P[i]
    BY ConcatLeft, ZenonT(60)
  <2>2. ((P \o D) \o T)[i] = (P \o D)[i]
    BY <1>1, ConcatLeft, SMTT(30)
  <2> QED
    BY <2>1, <2>2, SMTT(30)
<1>4. ASSUME NEW i \in 1..Len(D) PROVE ((P \o D) \o T)[4 + i] = D[i]
  <2>1. (P \o D)[4 + i] = D[i]
    <3>1. (P \o D)[Len(P) + i] = D[i]
      BY ConcatRight, Zenon
    <3> QED
      BY <3>1, SMTT(30)
  <2>2. ((P \o D) \o T)[4 + i] = (P \o D)[4 + i]
    BY <1>1, ConcatLeft, SMTT(30)
  <2> QED
    BY <2>1, <2>2, SMTT(30)
<1>5. ASSUME NEW i \in 1..5 PROVE ((P \o D) \o T)[4 + Len(D) + i] = T[i]
  <2>1. ((P \o D) \o T)[Len(P \o D) + i] = T[i]
    BY <1>1, ConcatRight, Zenon
  <2> QED
    BY <1>1, <2>1, SMTT(30)
<1> QED
  BY <1>2, <1>3, <1>4, <1>5, ZenonT(60)

\* SplitFirst cuts at the first separator.
LEMMA SplitFirstAt ==
  ASSUME NEW s \in Seq(Nat), NEW j \in 1..Len(s), s[j] = SepTok,
         \A i \in 1..j-1 : s[i] # SepTok
  PROVE  SplitFirst(s) = SubSeq(s, 1, j - 1)
<1> DEFINE I == {i \in 1..Len(s) : s[i] = SepTok}
<1>1. j \in I /\ \A i \in I : j <= i
  OBVIOUS
<1>2. Min(I) = j
  BY <1>1, SMTT(30) DEF Min
<1>3. SelectInSeq(s, IsSepTok) = j
  BY <1>1, <1>2, SMTT(30) DEF SelectInSeq, IsSepTok
<1> QED
  BY <1>3, SMTT(30) DEF SplitFirst

\* Capture takes the numeric prefix that ends where a character that is
\* neither a digit nor a dot follows.
LEMMA CaptureAt ==
  ASSUME NEW s \in Seq(Nat), NEW n \in 1..Len(s) - 1,
         NumericVersion(SubSeq(s, 1, n)),
         ~IsDigit(s[n + 1]), s[n + 1] # Dot
  PROVE  Capture(s) = SubSeq(s, 1, n)
<1> DEFINE ls == {l \in 1..Len(s) : NumericVersion(SubSeq(s, 1, l))}
<1>1. n \in ls
  OBVIOUS
<1>2. ASSUME NEW k \in ls PROVE k <= n
  <2>1. SUFFICES ASSUME k > n PROVE FALSE
    BY <1>1, SMTT(30)
  <2>2. SubSeq(s, 1, k)[n + 1] = s[n + 1] /\ n + 1 <= Len(SubSeq(s, 1, k))
    BY <2>1, SMTT(30)
  <2> QED
    BY <2>1, <2>2, SMTT(30) DEF NumericVersion
<1>3. (CHOOSE l \in ls : \A k \in ls : k <= l) = n
  BY <1>1, <1>2, SMTT(30)
<1> QED
  BY <1>1, <1>3, ZenonT(60) DEF Capture

\* The installed sshd OpenSSH maj.min.
V(maj, mi) == [kind |-> "openssh", maj |-> maj, min |-> mi]

\* Digits prints one or two decimal digits.
LEMMA DigitsFacts ==
  ASSUME NEW n \in 0..99
  PROVE  /\ Digits(n) \in Seq(Nat) /\ Len(Digits(n)) \in {1, 2}
         /\ \A i \in 1..Len(Digits(n)) : IsDigit(Digits(n)[i])
BY SMTT(30) DEF Digits, IsDigit, Digit

\* What `sshd -V` prints for OpenSSH maj.min with a two-digit major,
\* character by character.
LEMMA OutputFacts ==
  ASSUME NEW maj \in 10..99, NEW mi \in 0..99
  PROVE  LET out == SshdOutput(V(maj, mi))
             dm == Len(Digits(mi))
         IN  /\ dm \in {1, 2} /\ out \in Seq(Nat) /\ Len(out) = 9 + dm
             /\ out[1] = OpenSSHTok
             /\ out[2] = Digit(maj \div 10) /\ out[3] = Digit(maj % 10)
             /\ out[4] = Dot
             /\ \A i \in 1..dm : IsDigit(out[4 + i])
             /\ out[5 + dm] = LetterP
             /\ out[8 + dm] = SepTok
             /\ \A i \in 1..7 + dm : out[i] # SepTok
<1> DEFINE D == Digits(mi)
<1> DEFINE P == (<<OpenSSHTok>> \o Digits(maj)) \o <<Dot>>
<1> DEFINE T == <<LetterP, Digit(1), RestTok, SepTok, RestTok>>
<1>1. D \in Seq(Nat) /\ Len(D) \in {1, 2} /\ \A i \in 1..Len(D) : IsDigit(D[i])
  BY DigitsFacts, ZenonT(60)
<1>2. Digits(maj) = <<Digit(maj \div 10), Digit(maj % 10)>>
  BY SMTT(30) DEF Digits
<1>3. /\ P \in Seq(Nat) /\ Len(P) = 4
      /\ P[1] = OpenSSHTok /\ P[2] = Digit(maj \div 10)
      /\ P[3] = Digit(maj % 10) /\ P[4] = Dot
  BY <1>2, SMTT(30) DEF OpenSSHTok, Digit, Dot
<1>4. T \in Seq(Nat) /\ Len(T) = 5 /\ T[1] = LetterP /\ T[4] = SepTok
      /\ T[1] # SepTok /\ T[2] # SepTok /\ T[3] # SepTok
  BY SMTT(30) DEF LetterP, Digit, RestTok, SepTok
<1>5. SshdOutput(V(maj, mi)) = (P \o D) \o T
  BY SMTT(30) DEF SshdOutput, V, Garbled
<1>6. \A i \in 1..4 : P[i] # SepTok
  BY <1>3, SMTT(30) DEF OpenSSHTok, Digit, Dot, SepTok
<1>7. \A i \in 1..Len(D) : D[i] # SepTok
  BY <1>1, SMTT(30) DEF IsDigit, Digit, SepTok
<1> DEFINE out == (P \o D) \o T
<1> HIDE DEF D, P, T
<1>8. /\ out \in Seq(Nat) /\ Len(out) = 9 + Len(D)
      /\ \A i \in 1..4 : out[i] = P[i]
      /\ \A i \in 1..Len(D) : out[4 + i] = D[i]
      /\ \A i \in 1..5 : out[4 + Len(D) + i] = T[i]
  BY <1>1, <1>3, <1>4, Layout, ZenonT(60)
<1> HIDE DEF out
<1>9. \A i \in 1..7 + Len(D) : out[i] # SepTok
  <2> SUFFICES ASSUME NEW i \in 1..7 + Len(D) PROVE out[i] # SepTok
    OBVIOUS
  <2>1. CASE i \in 1..4
    BY <1>6, <1>8, <2>1, SMTT(30)
  <2>2. CASE i \in 5..4 + Len(D)
    <3>1. i - 4 \in 1..Len(D) /\ i = 4 + (i - 4)
      BY <1>1, <2>2, SMTT(30)
    <3>2. out[4 + (i - 4)] = D[i - 4] /\ D[i - 4] # SepTok
      BY <1>7, <1>8, <3>1, Zenon
    <3> QED
      BY <3>1, <3>2, SMTT(30)
  <2>3. CASE i \in 5 + Len(D)..7 + Len(D)
    <3>1. i - 4 - Len(D) \in 1..3 /\ i - 4 - Len(D) \in 1..5
          /\ i = 4 + Len(D) + (i - 4 - Len(D))
      BY <1>1, <2>3, SMTT(30)
    <3>2. out[4 + Len(D) + (i - 4 - Len(D))] = T[i - 4 - Len(D)]
      BY <1>8, <3>1, Zenon
    <3> QED
      BY <1>4, <3>1, <3>2, SMTT(30)
  <2> QED
    BY <1>1, <2>1, <2>2, <2>3, SMTT(30)
<1>10. /\ \A i \in 1..Len(D) : IsDigit(out[4 + i])
       /\ out[5 + Len(D)] = LetterP /\ out[8 + Len(D)] = SepTok
  <2>1. \A i \in 1..Len(D) : IsDigit(out[4 + i])
    BY <1>1, <1>8, SMTT(30)
  <2>a. 1 \in 1..5 /\ 4 \in 1..5
    BY SMTT(30)
  <2>2. /\ out[4 + Len(D) + 1] = T[1] /\ out[4 + Len(D) + 4] = T[4]
    BY <1>8, <2>a, ZenonT(60)
  <2>3. 5 + Len(D) = 4 + Len(D) + 1 /\ 8 + Len(D) = 4 + Len(D) + 4
    BY <1>1, SMTT(30)
  <2> QED
    BY <1>4, <2>1, <2>2, <2>3, SMTT(30)
<1>11. SshdOutput(V(maj, mi)) = out /\ Digits(mi) = D
  BY <1>5, SMTT(30) DEF out, D
<1>12. out[1] = OpenSSHTok /\ out[2] = Digit(maj \div 10)
       /\ out[3] = Digit(maj % 10) /\ out[4] = Dot
  <2>1. 1 \in 1..4 /\ 2 \in 1..4 /\ 3 \in 1..4 /\ 4 \in 1..4
    OBVIOUS
  <2> QED
    BY <1>3, <1>8, <2>1, Zenon
<1> QED
  BY <1>1, <1>8, <1>9, <1>10, <1>11, <1>12, SMTT(30)

\* A prefix of a sequence, character by character.
LEMMA PrefixNat ==
  ASSUME NEW s \in Seq(Nat), NEW n \in 0..Len(s)
  PROVE  /\ SubSeq(s, 1, n) \in Seq(Nat) /\ Len(SubSeq(s, 1, n)) = n
         /\ \A i \in 1..n : SubSeq(s, 1, n)[i] = s[i]
OBVIOUS

\* The tail of a sequence, character by character.
LEMMA TailNat ==
  ASSUME NEW s \in Seq(Nat), s # <<>>
  PROVE  /\ Tail(s) \in Seq(Nat) /\ Len(Tail(s)) = Len(s) - 1
         /\ \A i \in 1..Len(s) - 1 : Tail(s)[i] = s[i + 1]
OBVIOUS

\* TrimPrefix removes a leading "OpenSSH_".
LEMMA TrimAt ==
  ASSUME NEW s \in Seq(Nat), Len(s) >= 1, s[1] = OpenSSHTok
  PROVE  s # <<>> /\ TrimOpenSSH(s) = Tail(s)
BY SMTT(30) DEF TrimOpenSSH

\* An output laid out as "OpenSSH_" d d "." then dm digits, "p" ... ", " ...
SshdLayout(out, dm) ==
  /\ out \in Seq(Nat) /\ dm \in {1, 2} /\ Len(out) = 9 + dm
  /\ out[1] = OpenSSHTok /\ IsDigit(out[2]) /\ IsDigit(out[3]) /\ out[4] = Dot
  /\ \A i \in 1..dm : IsDigit(out[4 + i])
  /\ out[5 + dm] = LetterP /\ out[8 + dm] = SepTok
  /\ \A i \in 1..7 + dm : out[i] # SepTok

\* The version isOpenSSHVersion8Dot1OrGreater extracts from such an output:
\* the characters from the second up to the last digit of the minor.
LEMMA Pipeline ==
  ASSUME NEW out, NEW dm, SshdLayout(out, dm)
  PROVE  LET version == Capture(TrimOpenSSH(SplitFirst(out)))
         IN  /\ version \in Seq(Nat) /\ Len(version) = 3 + dm
             /\ \A i \in 1..3 + dm : version[i] = out[i + 1]
<1>0. out \in Seq(Nat) /\ dm \in {1, 2} /\ Len(out) = 9 + dm
  BY SMTT(30) DEF SshdLayout
<1>a. PICK sf : sf = SubSeq(out, 1, 7 + dm)
  OBVIOUS
<1>1. SplitFirst(out) = sf
  <2>1. /\ 8 + dm \in 1..Len(out) /\ out[8 + dm] = SepTok
        /\ \A i \in 1..(8 + dm) - 1 : out[i] # SepTok
    BY <1>0, SMTT(30) DEF SshdLayout
  <2>2. SplitFirst(out) = SubSeq(out, 1, (8 + dm) - 1)
    BY <1>0, <2>1, SplitFirstAt, Zenon
  <2> QED
    BY <1>0, <1>a, <2>2, SMTT(30)
<1>2. sf \in Seq(Nat) /\ Len(sf) = 7 + dm /\ \A i \in 1..7 + dm : sf[i] = out[i]
  BY <1>0, <1>a, SMTT(30)
<1>3. sf # <<>> /\ TrimOpenSSH(sf) = Tail(sf)
  <2>1. Len(sf) >= 1 /\ sf[1] = OpenSSHTok
    BY <1>0, <1>2, SMTT(30) DEF SshdLayout
  <2> QED
    BY <1>2, <2>1, TrimAt, Zenon
<1>b. PICK s : s = Tail(sf)
  OBVIOUS
<1>4. s \in Seq(Nat) /\ Len(s) = 6 + dm /\ \A i \in 1..6 + dm : s[i] = out[i + 1]
  BY <1>0, <1>2, <1>3, <1>b, SMTT(30)
<1>c. PICK w : w = SubSeq(s, 1, 3 + dm)
  OBVIOUS
<1>5. w \in Seq(Nat) /\ Len(w) = 3 + dm /\ \A i \in 1..3 + dm : w[i] = out[i + 1]
  <2>0. 3 + dm \in 0..Len(s)
    <3>1. Len(s) = 6 + dm
      BY <1>4, SMTT(30)
    <3>2. dm \in Nat
      BY <1>0, SMTT(30)
    <3> QED
      BY <3>1, <3>2, SMTT(30)
  <2>1. w \in Seq(Nat) /\ Len(w) = 3 + dm /\ \A i \in 1..3 + dm : w[i] = s[i]
    BY <1>4, <1>c, <2>0, SMTT(30)
  <2>2. ASSUME NEW i \in 1..3 + dm PROVE w[i] = out[i + 1]
    <3>1. i \in 1..6 + dm
      BY <1>0, SMTT(30)
    <3> QED
      BY <1>4, <2>1, <3>1, SMTT(30)
  <2> QED
    BY <2>1, <2>2, SMTT(30)
<1>6. NumericVersion(w)
  <2>0. /\ IsDigit(out[2]) /\ IsDigit(out[3]) /\ out[4] = Dot
        /\ \A i \in 1..dm : IsDigit(out[4 + i])
    BY SMTT(30) DEF SshdLayout
  <2>1. Len(w) > 0 /\ IsDigit(w[1]) /\ IsDigit(w[Len(w)])
    <3>0. Len(w) = 3 + dm /\ 3 + dm \in 1..3 + dm /\ 1 \in 1..3 + dm
      BY <1>0, <1>5, SMTT(30)
    <3>1. w[Len(w)] = out[(3 + dm) + 1] /\ w[1] = out[1 + 1]
      BY <1>5, <3>0, SMTT(30)
    <3>2. (3 + dm) + 1 = 4 + dm /\ 1 + 1 = 2 /\ dm \in 1..dm
      BY <1>0, SMTT(30)
    <3> QED
      BY <1>0, <1>5, <2>0, <3>0, <3>1, <3>2, SMTT(30)
  <2>2. ASSUME NEW i \in 1..Len(w)
        PROVE  IsDigit(w[i]) \/ (w[i] = Dot /\ i < Len(w) /\ IsDigit(w[i + 1]))
    <3>1. CASE i \in 1..2
      <4>1. w[i] = out[i + 1] /\ (i + 1 = 2 \/ i + 1 = 3)
        BY <1>0, <1>5, <3>1, SMTT(30)
      <4> QED
        BY <2>0, <4>1, SMTT(30)
    <3>2. CASE i = 3
      <4>1. w[3] = out[4] /\ 3 < Len(w) /\ w[4] = out[4 + 1] /\ 1 \in 1..dm
        <5>1. 3 \in 1..3 + dm /\ 4 \in 1..3 + dm /\ 3 < 3 + dm /\ 1 \in 1..dm
          BY <1>0, SMTT(30)
        <5>2. Len(w) = 3 + dm /\ \A j \in 1..3 + dm : w[j] = out[j + 1]
          BY <1>5, SMTT(30)
        <5>3. w[3] = out[3 + 1] /\ w[4] = out[4 + 1]
          BY <5>1, <5>2, SMTT(30)
        <5> QED
          BY <5>1, <5>2, <5>3, SMTT(30)
      <4> QED
        BY <2>0, <3>2, <4>1, SMTT(30)
    <3>3. CASE i \in 4..3 + dm
      <4>1. w[i] = out[4 + (i - 3)] /\ i - 3 \in 1..dm
        BY <1>0, <1>5, <3>3, SMTT(30)
      <4>2. IsDigit(out[4 + (i - 3)])
        BY <2>0, <4>1, Zenon
      <4> QED
        BY <4>1, <4>2, SMTT(30)
    <3> QED
      BY <1>0, <1>5, <3>1, <3>2, <3>3, SMTT(30)
  <2> QED
    BY <2>1, <2>2, SMTT(30) DEF NumericVersion
<1>7. ~IsDigit(s[(3 + dm) + 1]) /\ s[(3 + dm) + 1] # Dot
  <2>1. s[(3 + dm) + 1] = out[5 + dm] /\ out[5 + dm] = LetterP
    BY <1>0, <1>4, SMTT(30) DEF SshdLayout
  <2> QED
    BY <2>1, SMTT(30) DEF IsDigit, Digit, LetterP, Dot
<1>8. Capture(s) = SubSeq(s, 1, 3 + dm)
  <2>1. 3 + dm \in 1..Len(s) - 1
    BY <1>0, <1>4, SMTT(30)
  <2> QED
    BY <1>4, <1>6, <1>7, <1>c, <2>1, CaptureAt, Zenon
<1> QED
  BY <1>1, <1>3, <1>5, <1>8, <1>b, <1>c, ZenonT(60)

(* isOpenSSHVersion8Dot1OrGreater compares the captured version with "8.1" *)
(* as strings (lines 216-225), not as the numbers the comment at lines    *)
(* 192-194 describes: for every installed OpenSSH maj.mi with a two-digit *)
(* major from 10 to 79 it returns (false, nil), so checkOpenSSHVersion     *)
(* logs that OpenSSH 8.1 or greater is required although the version is   *)
(* newer than 8.1.                                                         *)
THEOREM LexicographicVersionCheck ==
  ASSUME NEW maj \in 10..79, NEW mi \in 0..99
  PROVE  /\ AtLeast81(V(maj, mi))
         /\ IsOpenSSHVersion8Dot1OrGreater(SshdOutput(V(maj, mi)))
              = [ok |-> FALSE, err |-> FALSE]
<1>1. AtLeast81(V(maj, mi))
  BY SMTT(30) DEF AtLeast81, V
<1>a. PICK out : out = SshdOutput(V(maj, mi))
  OBVIOUS
<1>b. PICK dm : dm = Len(Digits(mi))
  OBVIOUS
<1>2. /\ dm \in {1, 2} /\ out \in Seq(Nat) /\ Len(out) = 9 + dm
      /\ out[1] = OpenSSHTok
      /\ out[2] = Digit(maj \div 10) /\ out[3] = Digit(maj % 10)
      /\ out[4] = Dot
      /\ \A i \in 1..dm : IsDigit(out[4 + i])
      /\ out[5 + dm] = LetterP
      /\ out[8 + dm] = SepTok
      /\ \A i \in 1..7 + dm : out[i] # SepTok
  <2>1. maj \in 10..99
    OBVIOUS
  <2> QED
    BY <1>a, <1>b, <2>1, OutputFacts, Zenon
<1>3. SshdLayout(out, dm)
  <2>1. IsDigit(out[2]) /\ IsDigit(out[3])
    BY <1>2, SMTT(30) DEF IsDigit, Digit
  <2> QED
    BY <1>2, <2>1, SMTT(30) DEF SshdLayout
<1>c. PICK version : version = Capture(TrimOpenSSH(SplitFirst(out)))
  OBVIOUS
<1>4. /\ version \in Seq(Nat) /\ Len(version) = 3 + dm
      /\ \A i \in 1..3 + dm : version[i] = out[i + 1]
  BY <1>3, <1>c, Pipeline, Zenon
<1>5. version # <<>> /\ version[1] = Digit(maj \div 10)
  <2>1. Len(version) > 0 /\ 1 \in 1..3 + dm
    BY <1>2, <1>4, SMTT(30)
  <2>2. version[1] = out[1 + 1]
    BY <1>4, <2>1, SMTT(30)
  <2> QED
    BY <1>2, <2>1, <2>2, SMTT(30)
<1>6. StrLess(version, Version81)
  <2>1. SubSeq(version, 1, 0) = <<>> /\ SubSeq(Version81, 1, 0) = <<>>
    BY SubSeqEmpty, SMTT(30)
  <2>2. /\ 0 \in 0..Len(version) /\ 0 <= Len(Version81)
        /\ 0 < Len(version) /\ 0 < Len(Version81)
    BY <1>2, <1>4, SMTT(30) DEF Version81
  <2>3. version[0 + 1] < Version81[0 + 1]
    <3>1. Version81[1] = 56
      BY SMTT(30) DEF Version81, Digit
    <3>2. maj \div 10 \in 1..7
      OBVIOUS
    <3> QED
      BY <1>5, <3>1, <3>2, SMTT(30) DEF Digit
  <2> QED
    BY <2>1, <2>2, <2>3, SMTT(30) DEF StrLess
<1>7. IsOpenSSHVersion8Dot1OrGreater(out) = [ok |-> FALSE, err |-> FALSE]
  BY <1>5, <1>6, <1>c, ZenonT(60) DEF IsOpenSSHVersion8Dot1OrGreater
<1> QED
  BY <1>1, <1>7, <1>a, SMTT(30)
=============================================================================
