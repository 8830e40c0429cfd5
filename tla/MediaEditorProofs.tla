-------------------------- MODULE MediaEditorProofs --------------------------
(***************************************************************************)
(* What holds of every chain of editor commands, for all lengths, sizes    *)
(* and arguments.  A lemma says what each command is by its arguments, the *)
(* next ones what ffmpeg makes of such a command, and an invariant what    *)
(* that means for the file a chain has reached.                            *)
(***************************************************************************)
EXTENDS MediaEditor, TLAPS

-----------------------------------------------------------------------------
(* Chains of at most two filters.                                           *)

\* The last of one position, and of two.
LEMMA MaxPositions == Max({1}) = 1 /\ Max({2}) = 2 /\ Max({1, 2}) = 2
<1>1. \A x \in {1} : (\A y \in {1} : x >= y) <=> x = 1
  OBVIOUS
<1>2. \A x \in {2} : (\A y \in {2} : x >= y) <=> x = 2
  OBVIOUS
<1>3. \A x \in {1, 2} : (\A y \in {1, 2} : x >= y) <=> x = 2
  OBVIOUS
<1>4. QED
  BY <1>1, <1>2, <1>3 DEF Max

\* A length, and a size, after a chain of filters.
TimedBy(n, fs) == FoldLeft(Timed, n, fs)
FramedBy(size, fs) == FoldLeft(Framed, size, fs)

\* Folding Timed over no filter.
LEMMA TimedNone ==
    ASSUME NEW base
    PROVE  TimedBy(base, <<>>) = base
<1> DEFINE D == DOMAIN <<>>
           Iter(g) == [s \in SUBSET D |->
                         IF s = {} THEN base
                         ELSE Timed(g[s \ {Max(s)}], <<>>[Max(s)])]
           iter == CHOOSE g : g = Iter(g)
           h == [s \in SUBSET D |-> base]
<1>1. D = {} /\ SUBSET D = {{}}
  OBVIOUS
<1>2. h = Iter(h)
  BY <1>1
<1>3. iter = Iter(iter)
  <2> HIDE DEF Iter, h
  <2>1. QED BY <1>2
<1>4. iter[{}] = base
  <2> HIDE DEF iter
  <2>1. QED BY <1>1, <1>3
<1>5. TimedBy(base, <<>>) = iter[D]
  BY DEF TimedBy, FoldLeft, MapThenFoldSet
<1>6. QED
  <2> HIDE DEF iter
  <2>1. QED BY <1>1, <1>4, <1>5

\* Folding Timed over one filter.
LEMMA TimedOne ==
    ASSUME NEW base, NEW f
    PROVE  TimedBy(base, <<f>>) = Timed(base, f)
<1> DEFINE D == DOMAIN <<f>>
           Iter(g) == [s \in SUBSET D |->
                         IF s = {} THEN base
                         ELSE Timed(g[s \ {Max(s)}], <<f>>[Max(s)])]
           iter == CHOOSE g : g = Iter(g)
           h == [s \in SUBSET D |-> IF s = {} THEN base ELSE Timed(base, f)]
<1>1. D = {1} /\ SUBSET D = {{}, {1}} /\ {1} \ {1} = {} /\ {1} # {}
  OBVIOUS
<1>2. h = Iter(h)
  <2>1. h[{}] = base /\ h[{1}] = Timed(base, f)
    BY <1>1
  <2>2. <<f>>[Max({1})] = f /\ Max({1}) = 1
    BY MaxPositions
  <2>3. \A s \in SUBSET D : h[s] = IF s = {} THEN base
                                   ELSE Timed(h[s \ {Max(s)}], <<f>>[Max(s)])
    <3> HIDE DEF h, D
    <3> SUFFICES ASSUME NEW s \in SUBSET D
                 PROVE  h[s] = IF s = {} THEN base
                               ELSE Timed(h[s \ {Max(s)}], <<f>>[Max(s)])
      OBVIOUS
    <3>1. CASE s = {}
      BY <2>1, <3>1
    <3>2. CASE s = {1}
      BY <1>1, <2>1, <2>2, <3>2
    <3>3. QED BY <1>1, <3>1, <3>2
  <2>4. h = [s \in SUBSET D |-> h[s]]
    OBVIOUS
  <2> HIDE DEF h, D
  <2>5. QED BY <2>3, <2>4
<1>3. iter = Iter(iter)
  <2> HIDE DEF Iter, h
  <2>1. QED BY <1>2
<1>4. iter[{1}] = Timed(base, f)
  <2> HIDE DEF iter, D
  <2>1. iter[{}] = base
    BY <1>1, <1>3
  <2>2. iter[{1}] = Timed(iter[{1} \ {Max({1})}], <<f>>[Max({1})])
    BY <1>1, <1>3
  <2>3. QED BY <1>1, <2>1, <2>2, MaxPositions
<1>5. TimedBy(base, <<f>>) = iter[D]
  BY DEF TimedBy, FoldLeft, MapThenFoldSet
<1>6. QED
  <2> HIDE DEF iter
  <2>1. QED BY <1>1, <1>4, <1>5

\* Folding Timed over two filters.
LEMMA TimedTwo ==
    ASSUME NEW base, NEW f1, NEW f2
    PROVE  TimedBy(base, <<f1, f2>>) = Timed(Timed(base, f1), f2)
<1> DEFINE fs == <<f1, f2>>
           D == DOMAIN fs
           Iter(g) == [s \in SUBSET D |->
                         IF s = {} THEN base
                         ELSE Timed(g[s \ {Max(s)}], fs[Max(s)])]
           iter == CHOOSE g : g = Iter(g)
           h == [s \in SUBSET D |-> IF s = {} THEN base
                                    ELSE IF s = {1} THEN Timed(base, f1)
                                    ELSE IF s = {2} THEN Timed(base, f2)
                                    ELSE Timed(Timed(base, f1), f2)]
<1>1. fs[1] = f1 /\ fs[2] = f2
  OBVIOUS
<1>2. /\ D = {1, 2} /\ SUBSET D = {{}, {1}, {2}, {1, 2}}
      /\ {1} \ {1} = {} /\ {2} \ {2} = {} /\ {1, 2} \ {2} = {1}
      /\ {1} # {} /\ {2} # {} /\ {1, 2} # {} /\ {1} # {2}
      /\ {1, 2} # {1} /\ {1, 2} # {2}
  <2>1. D = {1, 2}
    BY DEF fs
  <2>2. SUBSET {1, 2} = {{}, {1}, {2}, {1, 2}}
    <3>1. ASSUME NEW s \in SUBSET {1, 2} PROVE s \in {{}, {1}, {2}, {1, 2}}
      <4>1. CASE 1 \in s /\ 2 \in s
        <5>1. s = {1, 2}
          BY <4>1
        <5>2. QED BY <5>1
      <4>2. CASE 1 \in s /\ 2 \notin s
        <5>1. s = {1}
          BY <4>2
        <5>2. QED BY <5>1
      <4>3. CASE 1 \notin s /\ 2 \in s
        <5>1. s = {2}
          BY <4>3
        <5>2. QED BY <5>1
      <4>4. CASE 1 \notin s /\ 2 \notin s
        <5>1. s = {}
          BY <4>4
        <5>2. QED BY <5>1
      <4>5. QED BY <4>1, <4>2, <4>3, <4>4
    <3>2. \A s \in {{}, {1}, {2}, {1, 2}} : s \in SUBSET {1, 2}
      OBVIOUS
    <3>3. QED BY <3>1, <3>2
  <2>3. {1, 2} \ {2} = {1} /\ {1} # {2} /\ {1, 2} # {1} /\ {1, 2} # {2}
    OBVIOUS
  <2> HIDE DEF D
  <2>4. QED BY <2>1, <2>2, <2>3
<1> HIDE DEF fs
<1>3. /\ {1} \ {Max({1})} = {} /\ {2} \ {Max({2})} = {} /\ {1, 2} \ {Max({1, 2})} = {1}
      /\ fs[Max({1})] = f1 /\ fs[Max({2})] = f2 /\ fs[Max({1, 2})] = f2
  <2>1. Max({1}) = 1 /\ {1} \ {1} = {}
    BY MaxPositions
  <2>2. Max({2}) = 2 /\ {2} \ {2} = {}
    BY MaxPositions
  <2>3. Max({1, 2}) = 2 /\ {1, 2} \ {2} = {1}
    BY MaxPositions
  <2>4. {1} \ {Max({1})} = {} /\ fs[Max({1})] = f1
    BY <1>1, <2>1
  <2>5. {2} \ {Max({2})} = {} /\ fs[Max({2})] = f2
    BY <1>1, <2>2
  <2>6. {1, 2} \ {Max({1, 2})} = {1} /\ fs[Max({1, 2})] = f2
    BY <1>1, <2>3
  <2>7. QED BY <2>4, <2>5, <2>6
<1>4. h = Iter(h)
  <2>1. /\ h[{}] = base /\ h[{1}] = Timed(base, f1) /\ h[{2}] = Timed(base, f2)
        /\ h[{1, 2}] = Timed(Timed(base, f1), f2)
    <3> HIDE DEF D
    <3>1. QED BY <1>2
  <2>3. \A s \in SUBSET D : h[s] = IF s = {} THEN base
                                   ELSE Timed(h[s \ {Max(s)}], fs[Max(s)])
    <3> HIDE DEF h, D
    <3> SUFFICES ASSUME NEW s \in SUBSET D
                 PROVE  h[s] = IF s = {} THEN base
                               ELSE Timed(h[s \ {Max(s)}], fs[Max(s)])
      OBVIOUS
    <3>1. CASE s = {}
      BY <2>1, <3>1
    <3>2. CASE s = {1}
      BY <1>2, <2>1, <1>3, <3>2
    <3>3. CASE s = {2}
      BY <1>2, <2>1, <1>3, <3>3
    <3>4. CASE s = {1, 2}
      <4>1. h[{1, 2}] = Timed(h[{1}], f2) /\ {1, 2} # {}
        BY <1>2, <2>1
      <4>2. h[{1, 2}] = Timed(h[{1, 2} \ {Max({1, 2})}], fs[Max({1, 2})])
        BY <1>3, <4>1
      <4>3. s # {}
        BY <3>4, <4>1
      <4>4. QED BY <3>4, <4>2, <4>3
    <3>5. QED BY <1>2, <3>1, <3>2, <3>3, <3>4
  <2>4. h = [s \in SUBSET D |-> h[s]]
    OBVIOUS
  <2> HIDE DEF h, D
  <2>5. QED BY <2>3, <2>4
<1>5. iter = Iter(iter)
  <2> HIDE DEF Iter, h
  <2>1. QED BY <1>4
<1>6. iter[{1, 2}] = Timed(Timed(base, f1), f2)
  <2> HIDE DEF iter, D
  <2>1. iter[{}] = base
    BY <1>2, <1>5
  <2>2. iter[{1}] = Timed(iter[{1} \ {Max({1})}], fs[Max({1})])
    BY <1>2, <1>5
  <2>3. iter[{1, 2}] = Timed(iter[{1, 2} \ {Max({1, 2})}], fs[Max({1, 2})])
    BY <1>2, <1>5
  <2>5. QED BY <1>2, <2>1, <2>2, <2>3, <1>3
<1>7. TimedBy(base, <<f1, f2>>) = iter[D]
  BY DEF TimedBy, FoldLeft, MapThenFoldSet, fs
<1>8. QED
  <2> HIDE DEF iter
  <2>1. QED BY <1>2, <1>6, <1>7

\* Folding Framed over no filter.
LEMMA FramedNone ==
    ASSUME NEW base
    PROVE  FramedBy(base, <<>>) = base
<1> DEFINE D == DOMAIN <<>>
           Iter(g) == [s \in SUBSET D |->
                         IF s = {} THEN base
                         ELSE Framed(g[s \ {Max(s)}], <<>>[Max(s)])]
           iter == CHOOSE g : g = Iter(g)
           h == [s \in SUBSET D |-> base]
<1>1. D = {} /\ SUBSET D = {{}}
  OBVIOUS
<1>2. h = Iter(h)
  BY <1>1
<1>3. iter = Iter(iter)
  <2> HIDE DEF Iter, h
  <2>1. QED BY <1>2
<1>4. iter[{}] = base
  <2> HIDE DEF iter
  <2>1. QED BY <1>1, <1>3
<1>5. FramedBy(base, <<>>) = iter[D]
  BY DEF FramedBy, FoldLeft, MapThenFoldSet
<1>6. QED
  <2> HIDE DEF iter
  <2>1. QED BY <1>1, <1>4, <1>5

\* Folding Framed over one filter.
LEMMA FramedOne ==
    ASSUME NEW base, NEW f
    PROVE  FramedBy(base, <<f>>) = Framed(base, f)
<1> DEFINE D == DOMAIN <<f>>
           Iter(g) == [s \in SUBSET D |->
                         IF s = {} THEN base
                         ELSE Framed(g[s \ {Max(s)}], <<f>>[Max(s)])]
           iter == CHOOSE g : g = Iter(g)
           h == [s \in SUBSET D |-> IF s = {} THEN base ELSE Framed(base, f)]
<1>1. D = {1} /\ SUBSET D = {{}, {1}} /\ {1} \ {1} = {} /\ {1} # {}
  OBVIOUS
<1>2. h = Iter(h)
  <2>1. h[{}] = base /\ h[{1}] = Framed(base, f)
    BY <1>1
  <2>2. <<f>>[Max({1})] = f /\ Max({1}) = 1
    BY MaxPositions
  <2>3. \A s \in SUBSET D : h[s] = IF s = {} THEN base
                                   ELSE Framed(h[s \ {Max(s)}], <<f>>[Max(s)])
    <3> HIDE DEF h, D
    <3> SUFFICES ASSUME NEW s \in SUBSET D
                 PROVE  h[s] = IF s = {} THEN base
                               ELSE Framed(h[s \ {Max(s)}], <<f>>[Max(s)])
      OBVIOUS
    <3>1. CASE s = {}
      BY <2>1, <3>1
    <3>2. CASE s = {1}
      BY <1>1, <2>1, <2>2, <3>2
    <3>3. QED BY <1>1, <3>1, <3>2
  <2>4. h = [s \in SUBSET D |-> h[s]]
    OBVIOUS
  <2> HIDE DEF h, D
  <2>5. QED BY <2>3, <2>4
<1>3. iter = Iter(iter)
  <2> HIDE DEF Iter, h
  <2>1. QED BY <1>2
<1>4. iter[{1}] = Framed(base, f)
  <2> HIDE DEF iter, D
  <2>1. iter[{}] = base
    BY <1>1, <1>3
  <2>2. iter[{1}] = Framed(iter[{1} \ {Max({1})}], <<f>>[Max({1})])
    BY <1>1, <1>3
  <2>3. QED BY <1>1, <2>1, <2>2, MaxPositions
<1>5. FramedBy(base, <<f>>) = iter[D]
  BY DEF FramedBy, FoldLeft, MapThenFoldSet
<1>6. QED
  <2> HIDE DEF iter
  <2>1. QED BY <1>1, <1>4, <1>5

\* Folding Framed over two filters.
LEMMA FramedTwo ==
    ASSUME NEW base, NEW f1, NEW f2
    PROVE  FramedBy(base, <<f1, f2>>) = Framed(Framed(base, f1), f2)
<1> DEFINE fs == <<f1, f2>>
           D == DOMAIN fs
           Iter(g) == [s \in SUBSET D |->
                         IF s = {} THEN base
                         ELSE Framed(g[s \ {Max(s)}], fs[Max(s)])]
           iter == CHOOSE g : g = Iter(g)
           h == [s \in SUBSET D |-> IF s = {} THEN base
                                    ELSE IF s = {1} THEN Framed(base, f1)
                                    ELSE IF s = {2} THEN Framed(base, f2)
                                    ELSE Framed(Framed(base, f1), f2)]
<1>1. fs[1] = f1 /\ fs[2] = f2
  OBVIOUS
<1>2. /\ D = {1, 2} /\ SUBSET D = {{}, {1}, {2}, {1, 2}}
      /\ {1} \ {1} = {} /\ {2} \ {2} = {} /\ {1, 2} \ {2} = {1}
      /\ {1} # {} /\ {2} # {} /\ {1, 2} # {} /\ {1} # {2}
      /\ {1, 2} # {1} /\ {1, 2} # {2}
  <2>1. D = {1, 2}
    BY DEF fs
  <2>2. SUBSET {1, 2} = {{}, {1}, {2}, {1, 2}}
    <3>1. ASSUME NEW s \in SUBSET {1, 2} PROVE s \in {{}, {1}, {2}, {1, 2}}
      <4>1. CASE 1 \in s /\ 2 \in s
        <5>1. s = {1, 2}
          BY <4>1
        <5>2. QED BY <5>1
      <4>2. CASE 1 \in s /\ 2 \notin s
        <5>1. s = {1}
          BY <4>2
        <5>2. QED BY <5>1
      <4>3. CASE 1 \notin s /\ 2 \in s
        <5>1. s = {2}
          BY <4>3
        <5>2. QED BY <5>1
      <4>4. CASE 1 \notin s /\ 2 \notin s
        <5>1. s = {}
          BY <4>4
        <5>2. QED BY <5>1
      <4>5. QED BY <4>1, <4>2, <4>3, <4>4
    <3>2. \A s \in {{}, {1}, {2}, {1, 2}} : s \in SUBSET {1, 2}
      OBVIOUS
    <3>3. QED BY <3>1, <3>2
  <2>3. {1, 2} \ {2} = {1} /\ {1} # {2} /\ {1, 2} # {1} /\ {1, 2} # {2}
    OBVIOUS
  <2> HIDE DEF D
  <2>4. QED BY <2>1, <2>2, <2>3
<1> HIDE DEF fs
<1>3. /\ {1} \ {Max({1})} = {} /\ {2} \ {Max({2})} = {} /\ {1, 2} \ {Max({1, 2})} = {1}
      /\ fs[Max({1})] = f1 /\ fs[Max({2})] = f2 /\ fs[Max({1, 2})] = f2
  <2>1. Max({1}) = 1 /\ {1} \ {1} = {}
    BY MaxPositions
  <2>2. Max({2}) = 2 /\ {2} \ {2} = {}
    BY MaxPositions
  <2>3. Max({1, 2}) = 2 /\ {1, 2} \ {2} = {1}
    BY MaxPositions
  <2>4. {1} \ {Max({1})} = {} /\ fs[Max({1})] = f1
    BY <1>1, <2>1
  <2>5. {2} \ {Max({2})} = {} /\ fs[Max({2})] = f2
    BY <1>1, <2>2
  <2>6. {1, 2} \ {Max({1, 2})} = {1} /\ fs[Max({1, 2})] = f2
    BY <1>1, <2>3
  <2>7. QED BY <2>4, <2>5, <2>6
<1>4. h = Iter(h)
  <2>1. /\ h[{}] = base /\ h[{1}] = Framed(base, f1) /\ h[{2}] = Framed(base, f2)
        /\ h[{1, 2}] = Framed(Framed(base, f1), f2)
    <3> HIDE DEF D
    <3>1. QED BY <1>2
  <2>3. \A s \in SUBSET D : h[s] = IF s = {} THEN base
                                   ELSE Framed(h[s \ {Max(s)}], fs[Max(s)])
    <3> HIDE DEF h, D
    <3> SUFFICES ASSUME NEW s \in SUBSET D
                 PROVE  h[s] = IF s = {} THEN base
                               ELSE Framed(h[s \ {Max(s)}], fs[Max(s)])
      OBVIOUS
    <3>1. CASE s = {}
      BY <2>1, <3>1
    <3>2. CASE s = {1}
      BY <1>2, <2>1, <1>3, <3>2
    <3>3. CASE s = {2}
      BY <1>2, <2>1, <1>3, <3>3
    <3>4. CASE s = {1, 2}
      <4>1. h[{1, 2}] = Framed(h[{1}], f2) /\ {1, 2} # {}
        BY <1>2, <2>1
      <4>2. h[{1, 2}] = Framed(h[{1, 2} \ {Max({1, 2})}], fs[Max({1, 2})])
        BY <1>3, <4>1
      <4>3. s # {}
        BY <3>4, <4>1
      <4>4. QED BY <3>4, <4>2, <4>3
    <3>5. QED BY <1>2, <3>1, <3>2, <3>3, <3>4
  <2>4. h = [s \in SUBSET D |-> h[s]]
    OBVIOUS
  <2> HIDE DEF h, D
  <2>5. QED BY <2>3, <2>4
<1>5. iter = Iter(iter)
  <2> HIDE DEF Iter, h
  <2>1. QED BY <1>4
<1>6. iter[{1, 2}] = Framed(Framed(base, f1), f2)
  <2> HIDE DEF iter, D
  <2>1. iter[{}] = base
    BY <1>2, <1>5
  <2>2. iter[{1}] = Framed(iter[{1} \ {Max({1})}], fs[Max({1})])
    BY <1>2, <1>5
  <2>3. iter[{1, 2}] = Framed(iter[{1, 2} \ {Max({1, 2})}], fs[Max({1, 2})])
    BY <1>2, <1>5
  <2>5. QED BY <1>2, <2>1, <2>2, <2>3, <1>3
<1>7. FramedBy(base, <<f1, f2>>) = iter[D]
  BY DEF FramedBy, FoldLeft, MapThenFoldSet, fs
<1>8. QED
  <2> HIDE DEF iter
  <2>1. QED BY <1>2, <1>6, <1>7

-----------------------------------------------------------------------------
(* What a command is, by its arguments.                                     *)

Lengths == Optional(Nat)
TimeFilters == {"setpts", "atempo", "tpad", "apad", "adelay", "aecho",
                "silenceremove", "atrim"}
FrameFilters == {"scale", "crop", "pad"}

\* The arguments of a filter: those that change times, and frame sizes.
TimeArguments(f) ==
    /\ f[1] \in {"setpts", "atempo"} => f[2] \in Speeds
    /\ f[1] \in {"tpad", "apad", "adelay", "aecho", "silenceremove"} => f[2] \in Nat
    /\ f[1] = "atrim" => f[2] \in Nat /\ f[3] \in Lengths /\ f[4] \in Lengths

FrameArguments(f) ==
    /\ f[1] = "scale" => \/ f[2] \in Sides /\ f[3] \in Sides \cup {-1, -2}
                         \/ f[2] = -2 /\ f[3] \in Sides
    /\ f[1] \in {"crop", "pad"} => f[2] \in Sides /\ f[3] \in Sides

Arguments(f) == TimeArguments(f) /\ FrameArguments(f)

\* A chain of filters: none, one, or one and a scale or crop after it.
Filters(fs) ==
    \/ fs = <<>>
    \/ \E f : fs = <<f>> /\ Arguments(f)
    \/ \E f, g : /\ fs = <<f, g>> /\ Arguments(f) /\ Arguments(g)
                 /\ \/ f[1] = "fps" /\ g[1] = "scale"
                    \/ f[1] = "scale" /\ g[1] = "crop"

\* A chain of filters that leaves the length of a stream alone.
Untimed(fs) ==
    \/ fs = <<>>
    \/ \E f : fs = <<f>> /\ f[1] \notin TimeFilters
    \/ \E f, g : fs = <<f, g>> /\ {f[1], g[1]} \cap TimeFilters = {}

\* A command of one input does the same to both streams, or writes one only.
OneInput(cmd) ==
    \/ cmd.format \in {"audio", "image", "gif", "null"}
    \/ cmd.drop \cap {"video", "audio"} # {}
    \/ cmd.name = "FreezeLastFrame"
    \/ cmd.name \in SoundTimings /\ cmd.format = "av"
    \/ Untimed(cmd.vf) /\ Untimed(cmd.af)
    \/ \E speed \in Speeds :
           cmd.vf = <<<<"setpts", speed>>>> /\ cmd.af = <<<<"atempo", speed>>>>

\* A mix of two sounds leaves the picture out, or is one of two commands.
Mixes(cmd) ==
    LET g == cmd.graph
    IN  /\ \/ /\ \E mode \in MixModes : g = <<"amix", mode>>
              /\ cmd.name = "MixAudios" \/ cmd.drop = {"video"}
           \/ (g = <<"aconcat">> \/ g = <<"amerge">>) /\ cmd.drop = {"video"}
           \/ (\E d \in Nat : g = <<"acrossfade", d>>) /\ cmd.name = "CrossFadeAudios"
        /\ cmd.inputs = "multi" /\ cmd.need = {"audio"} /\ cmd.format \in {"av", "audio"}

\* A command of two inputs maps the streams that its graph joins.
TwoInputs(cmd) ==
    LET g == cmd.graph
    IN  \/ /\ g = <<"concat">> /\ cmd.inputs = "multi"
           /\ \/ cmd.need = {"video", "audio"} /\ cmd.drop = {}
              \/ cmd.need = {"video"} /\ cmd.drop = {"audio"}
        \/ /\ \E d, o \in Nat : g = <<"xfade", d, o>>
           /\ cmd.inputs = "multi" /\ cmd.need = {"video", "audio"} /\ cmd.drop = {}
        \/ /\ \E stack \in {"hstack", "vstack", "xstack"} : g = <<stack>>
           /\ cmd.inputs = "multi" /\ cmd.need = {"video"}
        \/ g = <<"overlay">> /\ cmd.inputs = "overlay" /\ cmd.need = {"video"}
        \/ g = <<"tracks">> /\ cmd.inputs = "video_audio" /\ cmd.short /\ cmd.copy
        \/ Mixes(cmd)

\* What is written is a video to be encoded only if no side is left to -1.
Sized(cmd) ==
    cmd.format = "av" =>
        \A i \in DOMAIN cmd.vf : cmd.vf[i][1] = "scale" => cmd.vf[i][3] # -1

WellFormed(cmd) ==
    /\ cmd.seek \in Nat /\ cmd.loops \in Nat /\ cmd.from \in Nat
    /\ cmd.to \in Lengths /\ cmd.limit \in Lengths
    /\ Filters(cmd.vf) /\ Filters(cmd.af) /\ Sized(cmd)

Plain(cmd) ==
    WellFormed(cmd) /\ cmd.name # "StabilizeVideo" /\ cmd.motion = None

Regular(cmd) ==
    /\ Plain(cmd)
    /\ cmd.graph = <<>> => OneInput(cmd)
    /\ cmd.graph # <<>> => TwoInputs(cmd)

\* Filter chains of one filter that changes neither lengths nor sizes.
Simple(fs) == \E f : fs = <<f>> /\ f[1] \notin TimeFilters \cup FrameFilters

\* Such a filter is in order, and scales nothing.
LEMMA SimpleFilters ==
    ASSUME NEW fs, Simple(fs) \/ fs = <<>>
    PROVE  /\ Filters(fs) /\ Untimed(fs)
           /\ \A i \in DOMAIN fs : fs[i][1] # "scale"
<1>1. CASE fs = <<>>
  BY <1>1 DEF Filters, Untimed
<1>2. CASE Simple(fs)
  <2>1. PICK f : fs = <<f>> /\ f[1] \notin TimeFilters \cup FrameFilters
    BY <1>2 DEF Simple
  <2>2. Arguments(f)
    BY <2>1 DEF Arguments, TimeArguments, FrameArguments, TimeFilters, FrameFilters
  <2>3. Filters(fs) /\ Untimed(fs)
    BY <2>1, <2>2 DEF Filters, Untimed
  <2>4. \A i \in DOMAIN fs : fs[i][1] # "scale"
    BY <2>1 DEF FrameFilters
  <2>5. QED BY <2>3, <2>4
<1>3. QED
  BY <1>1, <1>2

\* The shapes that most commands have, on the path of a sound or of a video.
LEMMA AudioShape ==
    ASSUME NEW name, name # "StabilizeVideo", NEW fs, Filters(fs),
           Untimed(fs) \/ name \in SoundTimings, NEW format \in {"av", "audio"}
    PROVE  /\ Regular(OnPath(Af(name, fs), format)) /\ Regular(OnPath(Cmd(name), format))
           /\ Regular(OnPath(Null(Af(name, fs)), format))
           /\ Regular(OnPath(ToAudio(name), format))
<1>1. Filters(<<>>) /\ Untimed(<<>>)
  BY DEF Filters, Untimed
<1>2. Regular(OnPath(Af(name, fs), format)) /\ Regular(OnPath(Cmd(name), format))
  BY <1>1 DEF Regular, Plain, WellFormed, OneInput, Sized, OnPath, Af, Cmd, Lengths,
              Optional
<1>3. /\ Regular(OnPath(Null(Af(name, fs)), format))
      /\ Regular(OnPath(ToAudio(name), format))
  BY <1>1 DEF Regular, Plain, WellFormed, OneInput, Sized, OnPath, Af, Null, ToAudio,
              Cmd, Lengths, Optional
<1>4. QED
  BY <1>2, <1>3

\* A mix of two sounds.
LEMMA MixShape ==
    ASSUME NEW name, name # "StabilizeVideo", NEW graph, NEW format \in {"av", "audio"}
    PROVE  /\ \/ \E mode \in MixModes : graph = <<"amix", mode>>
              \/ graph = <<"aconcat">> \/ graph = <<"amerge">>
              => Regular(OnPath(MapTrack(name, graph), format))
           /\ \/ name = "MixAudios" /\ \E mode \in MixModes : graph = <<"amix", mode>>
              \/ name = "CrossFadeAudios" /\ \E d \in Nat : graph = <<"acrossfade", d>>
              => Regular(OnPath(MixTracks(name, graph), format))
<1> DEFINE mapped == OnPath(MapTrack(name, graph), format)
           mixed == OnPath(MixTracks(name, graph), format)
<1>1. Filters(<<>>)
  BY DEF Filters
<1>2. Plain(mapped) /\ Plain(mixed)
  BY <1>1 DEF Plain, WellFormed, Sized, OnPath, MapTrack, MixTracks, Graph, Cmd,
              Lengths, Optional
<1>3. /\ mapped.graph = graph /\ mapped.drop = {"video"} /\ mapped.inputs = "multi"
      /\ mapped.need = {"audio"} /\ mapped.format = format
      /\ mixed.graph = graph /\ mixed.name = name /\ mixed.inputs = "multi"
      /\ mixed.need = {"audio"} /\ mixed.format = format
  BY DEF OnPath, MapTrack, MixTracks, Graph, Cmd
<1> HIDE DEF mapped, mixed
<1>4. ASSUME \/ \E mode \in MixModes : graph = <<"amix", mode>>
             \/ graph = <<"aconcat">> \/ graph = <<"amerge">>
      PROVE  Regular(mapped)
  <2>1. graph # <<>>
    BY <1>4
  <2>2. Mixes(mapped)
    BY <1>3, <1>4 DEF Mixes
  <2>3. QED BY <1>2, <1>3, <2>1, <2>2 DEF Regular, TwoInputs
<1>5. ASSUME \/ name = "MixAudios" /\ \E mode \in MixModes : graph = <<"amix", mode>>
             \/ name = "CrossFadeAudios" /\ \E d \in Nat : graph = <<"acrossfade", d>>
      PROVE  Regular(mixed)
  <2>1. graph # <<>>
    BY <1>5
  <2>2. Mixes(mixed)
    BY <1>3, <1>5 DEF Mixes
  <2>3. QED BY <1>2, <1>3, <2>1, <2>2 DEF Regular, TwoInputs
<1>6. QED
  BY <1>4, <1>5 DEF mapped, mixed

\* A picture whose length is left alone.
LEMMA VideoShape ==
    ASSUME NEW name, name # "StabilizeVideo", NEW fs, Filters(fs), Untimed(fs),
           \A i \in DOMAIN fs : fs[i][1] = "scale" => fs[i][3] # -1
    PROVE  Regular(Vf(name, fs))
<1>1. Filters(<<>>) /\ Untimed(<<>>)
  BY DEF Filters, Untimed
<1>2. QED
  BY <1>1 DEF Regular, Plain, WellFormed, OneInput, Sized, Vf, Cmd, Lengths, Optional

\* Commands without a filter, with one stream, and stills.
LEMMA FileShape ==
    ASSUME NEW name, name # "StabilizeVideo"
    PROVE  Regular(Cmd(name)) /\ Regular(Copy(name)) /\ Regular(SilentCopy(name))
<1>1. Filters(<<>>) /\ Untimed(<<>>)
  BY DEF Filters, Untimed
<1>2. QED
  BY <1>1 DEF Regular, Plain, WellFormed, OneInput, Sized, Copy, SilentCopy, Cmd,
              Lengths, Optional

\* A frame of a video.
LEMMA StillShape ==
    ASSUME NEW name, name # "StabilizeVideo", NEW t \in Nat, NEW fs, Filters(fs)
    PROVE  Regular(Still(name, t, fs))
<1>1. Filters(<<>>)
  BY DEF Filters
<1>2. QED
  BY <1>1 DEF Regular, Plain, WellFormed, OneInput, Sized, Still, Vf, Cmd, Lengths,
              Optional

\* Two files joined in one picture, or the picture of one and the sound of
\* the other.
LEMMA JoinShape ==
    ASSUME NEW name, name # "StabilizeVideo",
           NEW stack \in {"hstack", "vstack", "xstack"}
    PROVE  /\ Regular(Stack(name, stack)) /\ Regular(Overlay(name))
           /\ Regular(WithTrack(name))
<1>1. Filters(<<>>)
  BY DEF Filters
<1>2. /\ Plain(Stack(name, stack)) /\ Stack(name, stack).graph = <<stack>>
      /\ TwoInputs(Stack(name, stack))
  BY <1>1 DEF Plain, WellFormed, Sized, TwoInputs, Stack, Graph, Cmd, Lengths,
              Optional
<1>3. /\ Plain(Overlay(name)) /\ Overlay(name).graph = <<"overlay">>
      /\ TwoInputs(Overlay(name))
  BY <1>1 DEF Plain, WellFormed, Sized, TwoInputs, Overlay, Graph, Cmd, Lengths,
              Optional
<1>4. /\ Plain(WithTrack(name)) /\ WithTrack(name).graph = <<"tracks">>
      /\ TwoInputs(WithTrack(name))
  BY <1>1 DEF Plain, WellFormed, Sized, TwoInputs, WithTrack, Graph, Cmd, Lengths,
              Optional
<1>5. <<stack>> # <<>> /\ <<"overlay">> # <<>> /\ <<"tracks">> # <<>>
  OBVIOUS
<1>6. QED
  BY <1>2, <1>3, <1>4, <1>5 DEF Regular

\* One filter with arguments of time or frame size.
LEMMA OneFilter ==
    ASSUME NEW f, Arguments(f)
    PROVE  Filters(<<f>>)
BY DEF Filters

\* A filter of another name.
LEMMA OtherFilter ==
    ASSUME NEW name, name \notin TimeFilters \cup FrameFilters
    PROVE  /\ Simple(<<<<name>>>>) /\ Filters(<<<<name>>>>) /\ Untimed(<<<<name>>>>)
           /\ \A i \in DOMAIN <<<<name>>>> : <<<<name>>>>[i][1] # "scale"
<1> DEFINE f == <<name>>
<1>1. f[1] = name
  OBVIOUS
<1> HIDE DEF f
<1>2. Simple(<<f>>)
  BY <1>1 DEF Simple
<1>3. QED
  BY <1>2, SimpleFilters DEF f

\* Audio commands that take no argument that matters.
LEMMA PlainAudio ==
    ASSUME NEW cmd \in PlainAudioCommands, NEW format \in {"av", "audio"}
    PROVE  Regular(OnPath(cmd, format))
<1>1. \A f : f \in {"volumedetect", "astats", "silencedetect", "afftdn", "adeclick",
                    "adeclip", "volume", "loudnorm", "dynaudnorm", "acompressor",
                    "alimiter", "agate", "tremolo", "vibrato", "chorus", "aphaser",
                    "acrusher", "highpass", "lowpass", "bandpass", "bandreject",
                    "equalizer", "pan", "areverse", "afade"}
               => Filters(<<<<f>>>>) /\ Untimed(<<<<f>>>>)
  <2> SUFFICES ASSUME NEW f, f \notin TimeFilters \cup FrameFilters
               PROVE  Filters(<<<<f>>>>) /\ Untimed(<<<<f>>>>)
    BY DEF TimeFilters, FrameFilters
  <2>1. QED
    BY OtherFilter
<1>2. Filters(<<>>) /\ Untimed(<<>>)
  BY DEF Filters, Untimed
<1>3. CASE cmd \in {AnalyzeVolume, AnalyzeAudioStats, DetectSilence}
  BY <1>1, <1>3, AudioShape DEF AnalyzeVolume, AnalyzeAudioStats, DetectSilence
<1>4. CASE cmd \in {ReduceNoise, DeClickAudio, DeClipAudio, ChangeVolume,
                    NormalizeVolume, DynamicNormalize, CompressAudio, LimitAudio,
                    GateAudio}
  BY <1>1, <1>4, AudioShape
     DEF ReduceNoise, DeClickAudio, DeClipAudio, ChangeVolume, NormalizeVolume,
         DynamicNormalize, CompressAudio, LimitAudio, GateAudio
<1>5. CASE cmd \in {ExtractAudio, ConvertAudio, ConvertToWav, ConvertToMp3,
                    ConvertToAac, ConvertToWhisperFormat, ResampleAudio,
                    ChangeAudioChannels}
  BY <1>2, <1>5, AudioShape
     DEF ExtractAudio, ConvertAudio, ConvertToWav, ConvertToMp3, ConvertToAac,
         ConvertToWhisperFormat, ResampleAudio, ChangeAudioChannels
<1>6. CASE cmd \in {TremoloAudio, VibratoAudio, ChorusAudio, PhaserAudio, CrushAudio,
                    HighPassFilter, LowPassFilter, BandPassFilter, BandRejectFilter}
  BY <1>1, <1>6, AudioShape
     DEF TremoloAudio, VibratoAudio, ChorusAudio, PhaserAudio, CrushAudio,
         HighPassFilter, LowPassFilter, BandPassFilter, BandRejectFilter
<1>7. CASE cmd \in {EqualizeAudio, PanAudio, BalanceStereo, ReverseAudio,
                    FadeInAudio, FadeOutAudio}
  BY <1>1, <1>7, AudioShape
     DEF EqualizeAudio, PanAudio, BalanceStereo, ReverseAudio, FadeInAudio,
         FadeOutAudio
<1>8. QED
  BY <1>3, <1>4, <1>5, <1>6, <1>7 DEF PlainAudioCommands

\* Audio commands of two sounds.
LEMMA MixedAudio ==
    ASSUME NEW cmd \in AudioMixes, NEW format \in {"av", "audio"}
    PROVE  Regular(OnPath(cmd, format))
<1>1. CASE cmd \in {ConcatAudios, MergeAudioChannels}
  BY <1>1, MixShape DEF ConcatAudios, MergeAudioChannels
<1>2. CASE cmd = DuckBackgroundMusic
  <2>1. "first" \in MixModes
    BY DEF MixModes
  <2>2. QED BY <1>2, <2>1, MixShape DEF DuckBackgroundMusic
<1>3. ASSUME NEW mode \in MixModes
      PROVE  /\ Regular(OnPath(MixAudios(mode), format))
             /\ Regular(OnPath(MixVoiceWithMusic(mode), format))
  BY MixShape DEF MixAudios, MixVoiceWithMusic
<1>4. ASSUME NEW duration \in Ticks
      PROVE  Regular(OnPath(CrossFadeAudios(duration), format))
  <2>1. duration \in Nat
    BY ArgumentsAssumption
  <2>2. QED BY <2>1, MixShape DEF CrossFadeAudios
<1>5. QED
  BY <1>1, <1>2, <1>3, <1>4 DEF AudioMixes

\* Audio commands with times and speeds.
LEMMA TimedAudio ==
    ASSUME NEW cmd \in AudioTimings, NEW format \in {"av", "audio"}
    PROVE  Regular(OnPath(cmd, format))
<1> USE ArgumentsAssumption
<1>1. ASSUME NEW t \in Ticks
      PROVE  /\ Regular(OnPath(RemoveSilence(t), format))
             /\ Regular(OnPath(AddEcho(t), format))
             /\ Regular(OnPath(DelayAudio(t), format))
             /\ Regular(OnPath(PadAudio(t), format))
  <2>1. t \in Nat
    OBVIOUS
  <2>2. \A f : f \in {"silenceremove", "aecho", "adelay", "apad"} => Filters(<<<<f, t>>>>)
    <3> SUFFICES ASSUME NEW f, f \in {"silenceremove", "aecho", "adelay", "apad"}
                 PROVE  Arguments(<<f, t>>)
      BY OneFilter
    <3>1. QED BY <2>1 DEF Arguments, TimeArguments, FrameArguments
  <2>3. QED
    BY <2>2, AudioShape DEF RemoveSilence, AddEcho, DelayAudio, PadAudio, SoundTimings
<1>2. ASSUME NEW start \in Ticks, NEW end \in Optional(Ticks), NEW duration \in Optional(Ticks)
      PROVE  Regular(OnPath(TrimAudio(start, end, duration), format))
  <2>1. Arguments(<<"atrim", start, end, duration>>)
    BY DEF Arguments, TimeArguments, FrameArguments, Lengths, Optional
  <2>2. QED
    BY <2>1, OneFilter, AudioShape DEF TrimAudio, SoundTimings
<1>3. ASSUME NEW count \in Ticks, NEW duration \in Optional(Ticks)
      PROVE  Regular(OnPath(LoopAudio(count, duration), format))
  <2>1. Filters(<<>>) /\ Untimed(<<>>)
    BY DEF Filters, Untimed
  <2>2. QED
    BY <2>1 DEF LoopAudio, Regular, Plain, WellFormed, OneInput, Sized, OnPath, Cmd,
                Lengths, Optional
<1>4. ASSUME NEW tempo \in Speeds PROVE Regular(OnPath(ChangeAudioSpeed(tempo), format))
  <2>1. Arguments(<<"atempo", tempo>>)
    BY DEF Arguments, TimeArguments, FrameArguments
  <2>2. QED
    BY <2>1, OneFilter, AudioShape DEF ChangeAudioSpeed, SoundTimings
<1>5. CASE cmd \in UNION {{RemoveSilence(t), AddEcho(t), DelayAudio(t), PadAudio(t)} :
                              t \in Ticks}
  BY <1>1, <1>5
<1>6. CASE cmd \in {TrimAudio(start, end, duration) :
                        start \in Ticks, end \in Optional(Ticks),
                        duration \in Optional(Ticks)}
  BY <1>2, <1>6
<1>7. CASE cmd \in {LoopAudio(count, duration) :
                        count \in Ticks, duration \in Optional(Ticks)}
  BY <1>3, <1>7
<1>8. CASE cmd \in {ChangeAudioSpeed(tempo) : tempo \in Speeds}
  BY <1>4, <1>8
<1>9. QED
  BY <1>5, <1>6, <1>7, <1>8 DEF AudioTimings

\* Every command of editor/audio.
LEMMA AudioCommandsRegular == \A cmd \in AudioCommands : Regular(cmd)
BY PlainAudio, MixedAudio, TimedAudio DEF AudioCommands

\* Video commands that take no argument that matters.
LEMMA PlainVideo ==
    ASSUME NEW cmd, cmd \in PlainVideoCommands
    PROVE  Regular(cmd)
<1>1. ASSUME NEW f, f \notin TimeFilters \cup FrameFilters
      PROVE  /\ Filters(<<<<f>>>>)
             /\ \A name : name # "StabilizeVideo" => Regular(Vf(name, <<<<f>>>>))
  <2>1. /\ Filters(<<<<f>>>>) /\ Untimed(<<<<f>>>>)
        /\ \A i \in DOMAIN <<<<f>>>> : <<<<f>>>>[i][1] # "scale"
    BY <1>1, OtherFilter
  <2> DEFINE fs == <<<<f>>>>
  <2> HIDE DEF fs
  <2>2. Filters(fs) /\ Untimed(fs) /\ \A i \in DOMAIN fs : fs[i][1] # "scale"
    BY <2>1 DEF fs
  <2>3. \A name : name # "StabilizeVideo" => Regular(Vf(name, fs))
    BY <2>2, VideoShape
  <2>4. QED BY <2>2, <2>3 DEF fs
<1>2. {"eq", "format", "negate", "boxblur", "unsharp", "hqdn3d", "vignette", "fps",
       "select", "setsar", "rotate", "transpose", "hflip", "vflip", "drawtext",
       "subtitles", "fade"} \cap (TimeFilters \cup FrameFilters) = {}
  BY DEF TimeFilters, FrameFilters
<1>3. CASE cmd \in {AdjustVideoColor, ConvertToGrayscale, InvertVideoColors, BlurVideo,
                    SharpenVideo, DenoiseVideo, AddVignette}
  BY <1>1, <1>2, <1>3
     DEF AdjustVideoColor, ConvertToGrayscale, InvertVideoColors, BlurVideo,
         SharpenVideo, DenoiseVideo, AddVignette
<1>4. CASE cmd \in {TranscodeVideo, ConvertToMp4, ChangeVideoContainer,
                    OptimizeVideoForWeb, CompressVideo, SetVideoBitrate,
                    SetPixelFormat, ChangeDisplayAspectRatio}
  BY <1>4, FileShape
     DEF TranscodeVideo, ConvertToMp4, ChangeVideoContainer, OptimizeVideoForWeb,
         CompressVideo, SetVideoBitrate, SetPixelFormat, ChangeDisplayAspectRatio
<1>5. CASE cmd \in {ExtractFrames, ExtractSceneFrames}
  BY <1>1, <1>2, <1>5, StillShape DEF ExtractFrames, ExtractSceneFrames
<1>6. CASE cmd \in {SetSampleAspectRatio, RotateVideo, Rotate90Clockwise,
                    Rotate90CounterClockwise, FlipVideoHorizontal, FlipVideoVertical,
                    AddTextOverlay, AddSubtitles, AddStyledSubtitles, FadeInVideo,
                    FadeOutVideo}
  BY <1>1, <1>2, <1>6
     DEF SetSampleAspectRatio, RotateVideo, Rotate90Clockwise,
         Rotate90CounterClockwise, FlipVideoHorizontal, FlipVideoVertical,
         AddTextOverlay, AddSubtitles, AddStyledSubtitles, FadeInVideo, FadeOutVideo
<1>7. CASE cmd \in {StripMetadata, AddVideoMetadata, RemoveVideoAudio,
                    ExtractVideoStream, EmbedSubtitles, RemoveSubtitles,
                    ChangeFrameRate}
  BY <1>7, FileShape
     DEF StripMetadata, AddVideoMetadata, RemoveVideoAudio, ExtractVideoStream,
         EmbedSubtitles, RemoveSubtitles, ChangeFrameRate
<1>8. QED
  BY <1>3, <1>4, <1>5, <1>6, <1>7 DEF PlainVideoCommands

\* Video commands of two files, of images, and the silent copy.
LEMMA JoiningVideo ==
    ASSUME NEW cmd,
           cmd \in {ConcatVideos, ConcatVideosWithoutAudio, StackVideosHorizontal,
                    StackVideosVertical, GridVideos, AddWatermark, OverlayImage,
                    PictureInPicture, ReplaceVideoAudio, AddAudioToVideo,
                    CreateVideoFromImages, ExtractVideoFrameAudioSafe}
    PROVE  Regular(cmd)
<1>1. Filters(<<>>) /\ Untimed(<<>>) /\ <<"concat">> # <<>>
  BY DEF Filters, Untimed
<1>2. CASE cmd \in {StackVideosHorizontal, StackVideosVertical, GridVideos}
  BY <1>2, JoinShape DEF StackVideosHorizontal, StackVideosVertical, GridVideos
<1>3. CASE cmd \in {AddWatermark, OverlayImage, PictureInPicture, ReplaceVideoAudio,
                    AddAudioToVideo}
  BY <1>3, JoinShape
     DEF AddWatermark, OverlayImage, PictureInPicture, ReplaceVideoAudio,
         AddAudioToVideo
<1>4. CASE cmd = ConcatVideos
  <2>1. Plain(cmd) /\ TwoInputs(cmd) /\ cmd.graph = <<"concat">>
    BY <1>1, <1>4
       DEF Plain, WellFormed, TwoInputs, Sized, ConcatVideos, Graph, Cmd, Lengths,
           Optional
  <2>2. QED BY <1>1, <2>1 DEF Regular
<1>5. CASE cmd = ConcatVideosWithoutAudio
  <2>1. Plain(cmd) /\ TwoInputs(cmd) /\ cmd.graph = <<"concat">>
    BY <1>1, <1>5
       DEF Plain, WellFormed, TwoInputs, Sized, ConcatVideosWithoutAudio, Graph,
           Cmd, Lengths, Optional
  <2>2. QED BY <1>1, <2>1 DEF Regular
<1>6. CASE cmd = CreateVideoFromImages
  BY <1>1, <1>6 DEF Regular, Plain, WellFormed, OneInput, Sized,
                    CreateVideoFromImages, Cmd, Lengths, Optional
<1>7. CASE cmd = ExtractVideoFrameAudioSafe
  BY <1>1, <1>7 DEF Regular, Plain, WellFormed, OneInput, Sized,
                    ExtractVideoFrameAudioSafe, SilentCopy, Copy, Cmd, Lengths,
                    Optional
<1>8. QED
  BY <1>2, <1>3, <1>4, <1>5, <1>6, <1>7

\* Video commands that are given a time, a count or a speed.
LEMMA TimedVideo ==
    /\ \A reverseAudio \in BOOLEAN : Regular(ReverseVideo(reverseAudio))
    /\ \A t \in Ticks : Regular(ExtractFrame(t)) /\ Regular(FreezeLastFrame(t))
    /\ \A speed \in Speeds : /\ Regular(ChangeVideoSpeed(speed))
                             /\ Regular(ChangePlaybackSpeed(speed))
    /\ \A duration, offset \in Ticks : Regular(CrossFadeVideos(duration, offset))
    /\ \A count \in Ticks, duration \in Optional(Ticks) : Regular(LoopVideo(count, duration))
    /\ \A start, duration \in Ticks : Regular(SplitVideoSegment(start, duration))
    /\ \A start \in Ticks, end, duration \in Optional(Ticks) :
           /\ \A copy \in BOOLEAN : Regular(TrimVideo(start, end, duration, copy))
           /\ Regular(TrimVideoAccurate(start, end, duration))
<1> USE ArgumentsAssumption
<1>1. /\ Filters(<<>>) /\ Untimed(<<>>)
      /\ Filters(<<<<"reverse">>>>) /\ Untimed(<<<<"reverse">>>>)
      /\ Filters(<<<<"areverse">>>>) /\ Untimed(<<<<"areverse">>>>)
  <2>1. {"reverse", "areverse"} \cap (TimeFilters \cup FrameFilters) = {}
    BY DEF TimeFilters, FrameFilters
  <2>2. QED
    BY <2>1, OtherFilter DEF Filters, Untimed
<1>2. ASSUME NEW reverseAudio \in BOOLEAN PROVE Regular(ReverseVideo(reverseAudio))
  BY <1>1 DEF ReverseVideo, Regular, Plain, WellFormed, OneInput, Sized, Vf, Cmd,
              Lengths, Optional
<1>3. ASSUME NEW t \in Ticks PROVE Regular(ExtractFrame(t)) /\ Regular(FreezeLastFrame(t))
  <2>1. Regular(ExtractFrame(t))
    BY <1>1, StillShape DEF ExtractFrame
  <2>2. Filters(<<<<"tpad", t>>>>)
    <3>1. Arguments(<<"tpad", t>>)
      BY DEF Arguments, TimeArguments, FrameArguments
    <3>2. QED BY <3>1, OneFilter
  <2>3. Regular(FreezeLastFrame(t))
    BY <1>1, <2>2 DEF FreezeLastFrame, Regular, Plain, WellFormed, OneInput, Sized,
                      Vf, Cmd, Lengths, Optional
  <2>4. QED BY <2>1, <2>3
<1>4. ASSUME NEW speed \in Speeds
      PROVE  Regular(ChangeVideoSpeed(speed)) /\ Regular(ChangePlaybackSpeed(speed))
  <2>1. Filters(<<<<"setpts", speed>>>>) /\ Filters(<<<<"atempo", speed>>>>)
    <3>1. Arguments(<<"setpts", speed>>) /\ Arguments(<<"atempo", speed>>)
      BY DEF Arguments, TimeArguments, FrameArguments
    <3>2. QED BY <3>1, OneFilter
  <2>2. Regular(ChangeVideoSpeed(speed))
    BY <1>1, <2>1 DEF ChangeVideoSpeed, Regular, Plain, WellFormed, OneInput,
                      Sized, Vf, Cmd, Lengths, Optional
  <2>3. Regular(ChangePlaybackSpeed(speed))
    BY <1>1, <2>1 DEF ChangePlaybackSpeed, Regular, Plain, WellFormed, OneInput,
                      Sized, Vf, Cmd, Lengths, Optional
  <2>4. QED BY <2>2, <2>3
<1>5. ASSUME NEW duration \in Ticks, NEW offset \in Ticks
      PROVE  Regular(CrossFadeVideos(duration, offset))
  <2> DEFINE cmd == CrossFadeVideos(duration, offset)
  <2>1. /\ Plain(cmd) /\ cmd.graph = <<"xfade", duration, offset>>
        /\ cmd.inputs = "multi" /\ cmd.need = {"video", "audio"} /\ cmd.drop = {}
    BY <1>1 DEF Plain, WellFormed, Sized, CrossFadeVideos, Graph, Cmd, Lengths,
                Optional
  <2>2. duration \in Nat /\ offset \in Nat
    OBVIOUS
  <2> HIDE DEF cmd
  <2>3. TwoInputs(cmd)
    BY <2>1, <2>2 DEF TwoInputs
  <2>4. QED BY <2>1, <2>3 DEF Regular, cmd
<1>6. ASSUME NEW count \in Ticks, NEW duration \in Optional(Ticks)
      PROVE  Regular(LoopVideo(count, duration))
  BY <1>1 DEF LoopVideo, Regular, Plain, WellFormed, OneInput, Sized, Copy, Cmd,
              Lengths, Optional
<1>7. ASSUME NEW start \in Ticks, NEW duration \in Ticks
      PROVE  Regular(SplitVideoSegment(start, duration))
  BY <1>1 DEF SplitVideoSegment, Regular, Plain, WellFormed, OneInput, Sized, Copy,
              Cmd, Lengths, Optional
<1>8. ASSUME NEW start \in Ticks, NEW end \in Optional(Ticks), NEW duration \in Optional(Ticks)
      PROVE  /\ \A copy \in BOOLEAN : Regular(TrimVideo(start, end, duration, copy))
             /\ Regular(TrimVideoAccurate(start, end, duration))
  BY <1>1 DEF TrimVideo, TrimVideoAccurate, Regular, Plain, WellFormed, OneInput,
              Sized, Cmd, Lengths, Optional
<1>9. QED
  BY <1>2, <1>3, <1>4, <1>5, <1>6, <1>7, <1>8

\* Video commands that are given a width or a height.
LEMMA SizedVideo ==
    /\ \A side \in Sides : /\ Regular(ScaleVideoByWidth(side))
                           /\ Regular(ScaleVideoByHeight(side))
                           /\ Regular(ConvertVideoToGif(side))
    /\ \A width, height \in Sides :
           /\ Regular(ResizeVideo(width, height)) /\ Regular(CropVideo(width, height))
           /\ Regular(CenterCropVertical(width, height))
           /\ Regular(PadVideo(width, height))
    /\ \A t \in Ticks, width \in Optional(Sides) : Regular(GenerateThumbnail(t, width))
<1> USE ArgumentsAssumption
<1>1. ASSUME NEW f, f[1] \in FrameFilters, Arguments(f), f[3] # -1,
             NEW name, name # "StabilizeVideo"
      PROVE  Regular(Vf(name, <<f>>))
  <2> DEFINE fs == <<f>>
  <2>1. Filters(fs) /\ Untimed(fs)
    BY <1>1 DEF Filters, Untimed, FrameFilters, TimeFilters
  <2>2. \A i \in DOMAIN fs : fs[i][1] = "scale" => fs[i][3] # -1
    BY <1>1
  <2> HIDE DEF fs
  <2>3. Regular(Vf(name, fs))
    BY <1>1, <2>1, <2>2, VideoShape
  <2>4. QED BY <2>3 DEF fs
<1>2. ASSUME NEW w, NEW h, \/ w \in Sides /\ h \in Sides \cup {-1, -2}
                           \/ w = -2 /\ h \in Sides
      PROVE  /\ Arguments(<<"scale", w, h>>)
             /\ w \in Sides /\ h \in Sides => /\ Arguments(<<"crop", w, h>>)
                                              /\ Arguments(<<"pad", w, h>>)
  BY <1>2 DEF Arguments, TimeArguments, FrameArguments
<1>3. \A side \in Sides : side # -1
  OBVIOUS
<1>4. ASSUME NEW side \in Sides
      PROVE  /\ Regular(ScaleVideoByWidth(side)) /\ Regular(ScaleVideoByHeight(side))
             /\ Regular(ConvertVideoToGif(side))
  <2>1. Regular(ScaleVideoByWidth(side)) /\ Regular(ScaleVideoByHeight(side))
    <3>1. Arguments(<<"scale", side, -2>>) /\ Arguments(<<"scale", -2, side>>)
      BY <1>2
    <3>2. <<"scale", side, -2>>[3] # -1 /\ <<"scale", -2, side>>[3] # -1
      BY <1>3
    <3>3. <<"scale", side, -2>>[1] \in FrameFilters /\ <<"scale", -2, side>>[1] \in FrameFilters
      BY DEF FrameFilters
    <3>4. QED BY <1>1, <3>1, <3>2, <3>3 DEF ScaleVideoByWidth, ScaleVideoByHeight
  <2>2. Regular(ConvertVideoToGif(side))
    <3> DEFINE f == <<"fps">>
               g == <<"scale", side, -1>>
    <3>1. Arguments(f) /\ Arguments(g) /\ f[1] = "fps" /\ g[1] = "scale"
      <4>1. Arguments(g)
        BY <1>2
      <4>2. Arguments(f)
        BY DEF Arguments, TimeArguments, FrameArguments
      <4>3. QED BY <4>1, <4>2
    <3>2. Filters(<<>>)
      BY DEF Filters
    <3>3. ConvertVideoToGif(side) = [Vf("ConvertVideoToGif", <<f, g>>) EXCEPT !.format = "gif"]
      BY DEF ConvertVideoToGif
    <3> HIDE DEF f, g
    <3>4. Filters(<<f, g>>)
      BY <3>1 DEF Filters
    <3> DEFINE fs == <<f, g>>
    <3> HIDE DEF fs
    <3>5. Regular([Vf("ConvertVideoToGif", fs) EXCEPT !.format = "gif"])
      BY <3>2, <3>4 DEF fs, Regular, Plain, WellFormed, OneInput, Sized, Vf, Cmd,
                        Lengths, Optional
    <3>6. QED BY <3>3, <3>5 DEF fs
  <2>3. QED BY <2>1, <2>2
<1>5. ASSUME NEW w \in Sides, NEW h \in Sides
      PROVE  /\ Regular(ResizeVideo(w, h)) /\ Regular(CropVideo(w, h))
             /\ Regular(CenterCropVertical(w, h)) /\ Regular(PadVideo(w, h))
  <2>1. Regular(ResizeVideo(w, h)) /\ Regular(CropVideo(w, h)) /\ Regular(PadVideo(w, h))
    <3>1. Arguments(<<"scale", w, h>>) /\ Arguments(<<"crop", w, h>>) /\ Arguments(<<"pad", w, h>>)
      BY <1>2
    <3>2. \A n : <<n, w, h>>[3] # -1 /\ <<n, w, h>>[1] = n
      BY <1>3
    <3>3. {"scale", "crop", "pad"} = FrameFilters
      BY DEF FrameFilters
    <3>4. QED BY <1>1, <3>1, <3>2, <3>3 DEF ResizeVideo, CropVideo, PadVideo
  <2>2. Regular(CenterCropVertical(w, h))
    <3> DEFINE f == <<"scale", -2, h>>
               g == <<"crop", w, h>>
    <3>1. /\ Arguments(f) /\ Arguments(g) /\ f[1] = "scale" /\ g[1] = "crop"
          /\ f[3] # -1
      <4>1. Arguments(f) /\ Arguments(g)
        BY <1>2
      <4>2. QED BY <1>3, <4>1
    <3>2. CenterCropVertical(w, h) = Vf("CenterCropVertical", <<f, g>>)
      BY DEF CenterCropVertical
    <3> HIDE DEF f, g
    <3> DEFINE fs == <<f, g>>
    <3>3. Filters(fs) /\ Untimed(fs)
      BY <3>1 DEF Filters, Untimed, TimeFilters
    <3>4. \A i \in DOMAIN fs : fs[i][1] = "scale" => fs[i][3] # -1
      BY <3>1
    <3> HIDE DEF fs
    <3>5. Regular(Vf("CenterCropVertical", fs))
      BY <3>3, <3>4, VideoShape
    <3>6. QED BY <3>2, <3>5 DEF fs
  <2>3. QED BY <2>1, <2>2
<1>6. ASSUME NEW t \in Ticks, NEW width \in Optional(Sides)
      PROVE  Regular(GenerateThumbnail(t, width))
  <2>1. t \in Nat
    OBVIOUS
  <2>2. CASE width = None
    BY <2>1, <2>2, StillShape DEF GenerateThumbnail, Filters
  <2>3. CASE width \in Sides /\ width # None
    <3>1. Filters(<<<<"scale", width, -2>>>>)
      BY <1>2, <2>3, OneFilter
    <3>2. QED
      BY <2>1, <2>3, <3>1, StillShape DEF GenerateThumbnail
  <2>4. QED BY <2>2, <2>3 DEF Optional
<1>7. QED
  BY <1>4, <1>5, <1>6

\* Every command of editor/video.
LEMMA VideoCommandsRegular == \A cmd \in VideoCommands : Regular(cmd)
<1>1. \A cmd \in PlainVideoCommands : Regular(cmd)
  BY PlainVideo
<1>2. \A cmd \in VideoJoins : Regular(cmd)
  BY JoiningVideo, TimedVideo DEF VideoJoins
<1>3. ASSUME NEW cmd \in VideoSizings PROVE Regular(cmd)
  <2>1. CASE cmd \in UNION {{ScaleVideoByWidth(side), ScaleVideoByHeight(side),
                             ConvertVideoToGif(side)} : side \in Sides}
    BY <2>1, SizedVideo
  <2>2. CASE cmd \in UNION {{ResizeVideo(width, height), CropVideo(width, height),
                             CenterCropVertical(width, height),
                             PadVideo(width, height)} :
                                width \in Sides, height \in Sides}
    BY <2>2, SizedVideo
  <2>3. CASE cmd \in {GenerateThumbnail(t, width) : t \in Ticks, width \in Optional(Sides)}
    BY <2>3, SizedVideo
  <2>4. QED BY <2>1, <2>2, <2>3 DEF VideoSizings
<1>4. ASSUME NEW cmd \in VideoTimings PROVE Regular(cmd)
  <2>1. CASE cmd \in {ReverseVideo(reverseAudio) : reverseAudio \in BOOLEAN}
    BY <2>1, TimedVideo
  <2>2. CASE cmd \in UNION {{ExtractFrame(t), FreezeLastFrame(t)} : t \in Ticks}
    BY <2>2, TimedVideo
  <2>3. CASE cmd \in UNION {{ChangeVideoSpeed(speed), ChangePlaybackSpeed(speed)} :
                                speed \in Speeds}
    BY <2>3, TimedVideo
  <2>4. CASE cmd \in {LoopVideo(count, duration) :
                          count \in Ticks, duration \in Optional(Ticks)}
    BY <2>4, TimedVideo
  <2>5. CASE cmd \in {SplitVideoSegment(start, duration) :
                          start \in Ticks, duration \in Ticks}
    BY <2>5, TimedVideo
  <2>6. QED BY <2>1, <2>2, <2>3, <2>4, <2>5 DEF VideoTimings
<1>5. \A cmd \in VideoTrims : Regular(cmd)
  BY TimedVideo DEF VideoTrims
<1>6. QED
  BY <1>1, <1>2, <1>3, <1>4, <1>5 DEF VideoCommands

\* Every command a caller may run is regular.
LEMMA CommandsRegular ==
    ASSUME NEW c \in Callers, NEW cmd \in Commands[c]
    PROVE  Regular(cmd)
BY CommandsAssumption, AudioCommandsRegular, VideoCommandsRegular DEF EditorCommands

-----------------------------------------------------------------------------
(* What ffmpeg makes of such a command: files of natural lengths and sizes. *)

\* A file as ffmpeg may leave it, whose frames may have no size.
Streams == [video : Lengths, size : Nat \X Nat, audio : Lengths]

Editable(cmd) ==
    /\ WellFormed(cmd)
    /\ cmd.graph = <<>> => OneInput(cmd)
    /\ cmd.graph # <<>> => TwoInputs(cmd)

\* A quotient of naturals is natural.
LEMMA Quotient ==
    ASSUME NEW a \in Nat, NEW b \in Nat \ {0}
    PROVE  a \div b \in Nat
<1>1. /\ a \div b \in Int /\ a % b \in Int /\ a % b < b
      /\ a = (b * (a \div b)) + (a % b)
  <2>1. a \div b \in Int
    OBVIOUS
  <2>2. a % b \in Int
    OBVIOUS
  <2>3. a % b < b
    OBVIOUS
  <2>4. a = (b * (a \div b)) + (a % b)
    OBVIOUS
  <2>5. QED BY <2>1, <2>2, <2>3, <2>4
<1> DEFINE q == a \div b
           r == a % b
<1>2. q \in Int /\ r \in Int /\ r < b /\ a = b * q + r
  BY <1>1
<1> HIDE DEF q, r
<1>3. q < 0 => b * q <= 0 - b
  BY <1>2
<1>4. q >= 0
  BY <1>2, <1>3
<1>5. QED
  BY <1>2, <1>4 DEF q

\* Lengths are never negative.
LEMMA MinusNat ==
    ASSUME NEW a \in Int, NEW b \in Int
    PROVE  Minus(a, b) \in Nat
BY DEF Minus, More

\* Nor is the smaller or larger of two.
LEMMA LessMoreNat ==
    ASSUME NEW a \in Nat, NEW b \in Nat
    PROVE  Less(a, b) \in Nat /\ More(a, b) \in Nat
BY DEF Less, More

\* A rounded quotient.
LEMMA RoundedNat ==
    ASSUME NEW a \in Nat, NEW b \in Nat \ {0}
    PROVE  Rounded(a, b) \in Nat
<1>1. 2 * a + b \in Nat /\ 2 * b \in Nat \ {0}
  OBVIOUS
<1>2. QED
  BY <1>1, Quotient DEF Rounded

\* A length after a filter.
LEMMA TimedNat ==
    ASSUME NEW n \in Nat, NEW f, TimeArguments(f)
    PROVE  Timed(n, f) \in Nat
<1>1. CASE f[1] \in {"setpts", "atempo"}
  <2>1. f[2] \in (Nat \ {0}) \X (Nat \ {0})
    BY <1>1, ArgumentsAssumption DEF TimeArguments
  <2>2. PICK num \in Nat \ {0}, den \in Nat \ {0} : f[2] = <<num, den>>
    BY <2>1
  <2>3. n * den \in Nat
    BY <2>2
  <2>4. Timed(n, f) = (n * den) \div num
    BY <1>1, <2>2 DEF Timed
  <2>5. QED BY <2>2, <2>3, <2>4, Quotient
<1>2. CASE f[1] \in {"tpad", "apad", "adelay", "aecho"}
  BY <1>2 DEF Timed, TimeArguments
<1>3. CASE f[1] = "silenceremove"
  <2>1. f[2] \in Nat /\ Timed(n, f) = Minus(n, f[2])
    BY <1>3 DEF Timed, TimeArguments
  <2>2. n \in Int /\ f[2] \in Int
    BY <2>1
  <2>3. Minus(n, f[2]) \in Nat
    BY <2>2, MinusNat
  <2>4. QED BY <2>1, <2>3
<1>4. CASE f[1] = "atrim"
  <2> DEFINE end == IF f[3] = None THEN n ELSE f[3]
             most == IF f[4] = None THEN n ELSE f[2] + f[4]
  <2>1. f[2] \in Nat /\ end \in Nat /\ most \in Nat
    BY <1>4 DEF TimeArguments, Lengths, Optional
  <2>2. Timed(n, f) = Minus(Less(Less(end, most), n), f[2])
    BY <1>4 DEF Timed, Trimmed
  <2> HIDE DEF end, most
  <2>3. Less(Less(end, most), n) \in Nat
    BY <2>1, LessMoreNat
  <2>4. Less(Less(end, most), n) \in Int /\ f[2] \in Int
    BY <2>1, <2>3
  <2>5. Minus(Less(Less(end, most), n), f[2]) \in Nat
    BY <2>4, MinusNat
  <2>6. QED BY <2>2, <2>5
<1>5. CASE f[1] \notin {"setpts", "atempo", "tpad", "apad", "adelay", "aecho",
                        "silenceremove", "atrim"}
  BY <1>5 DEF Timed
<1>6. QED
  BY <1>1, <1>2, <1>3, <1>4, <1>5

\* A length after a chain of filters.
LEMMA FoldTimedNat ==
    ASSUME NEW n \in Nat, NEW fs, Filters(fs)
    PROVE  TimedBy(n, fs) \in Nat
<1>1. CASE fs = <<>>
  BY <1>1, TimedNone
<1>2. ASSUME NEW f, fs = <<f>>, Arguments(f)
      PROVE  TimedBy(n, fs) \in Nat
  BY <1>2, TimedOne, TimedNat DEF Arguments
<1>3. ASSUME NEW f, NEW g, fs = <<f, g>>, Arguments(f), Arguments(g)
      PROVE  TimedBy(n, fs) \in Nat
  <2>1. Timed(n, f) \in Nat
    BY <1>3, TimedNat DEF Arguments
  <2>2. Timed(Timed(n, f), g) \in Nat
    BY <1>3, <2>1, TimedNat DEF Arguments
  <2>3. TimedBy(n, <<f, g>>) = Timed(Timed(n, f), g)
    BY TimedTwo
  <2>4. QED BY <1>3, <2>2, <2>3
<1>4. QED
  BY <1>1, <1>2, <1>3 DEF Filters

\* The size of a frame after a filter.
Positive == Nat \ {0}

\* A scale: one side given and the other computed, or both given.
LEMMA ScaledNat ==
    ASSUME NEW a \in Positive, NEW b \in Positive, NEW w, NEW h,
           \/ w \in Sides /\ h \in Sides \cup {-1, -2}
           \/ w = -2 /\ h \in Sides
    PROVE  Scaled(<<a, b>>, w, h) \in Nat \X Nat
<1>1. Sides \subseteq Nat \ {0}
  BY ArgumentsAssumption
<1>2. CASE w \in Sides /\ h \in {-1, -2}
  <2>1. b * w \in Nat /\ a \in Nat \ {0} /\ 2 * a \in Nat \ {0} /\ w \in Nat
    BY <1>1, <1>2 DEF Positive
  <2>2. Rounded(b * w, a) \in Nat /\ Rounded(b * w, 2 * a) \in Nat
    BY <2>1, RoundedNat
  <2>3. CASE h = -1
    BY <2>1, <2>2, <2>3 DEF Scaled
  <2>4. CASE h = -2
    BY <2>1, <2>2, <2>4 DEF Scaled
  <2>5. QED BY <1>2, <2>3, <2>4
<1>3. CASE w \in Sides /\ h \in Sides
  BY <1>1, <1>3 DEF Scaled
<1>4. CASE w = -2 /\ h \in Sides
  <2>1. a * h \in Nat /\ 2 * b \in Nat \ {0} /\ h \in Nat /\ h # -1 /\ h # -2
    BY <1>1, <1>4 DEF Positive
  <2>2. Rounded(a * h, 2 * b) \in Nat
    BY <2>1, RoundedNat
  <2>3. QED BY <1>4, <2>1, <2>2 DEF Scaled
<1>5. QED
  BY <1>2, <1>3, <1>4

\* A scale is of a frame that has a size.
LEMMA FramedNat ==
    ASSUME NEW size \in Nat \X Nat, NEW f, FrameArguments(f),
           f[1] = "scale" => 0 \notin {size[1], size[2]}
    PROVE  Framed(size, f) \in Nat \X Nat
<1>1. PICK a \in Nat, b \in Nat : size = <<a, b>>
  OBVIOUS
<1>2. CASE f[1] = "scale"
  <2>1. a \in Positive /\ b \in Positive
    BY <1>1, <1>2 DEF Positive
  <2>2. Scaled(<<a, b>>, f[2], f[3]) \in Nat \X Nat
    BY <1>2, <2>1, ScaledNat DEF FrameArguments
  <2>3. QED BY <1>1, <1>2, <2>2 DEF Framed
<1>3. CASE f[1] \in {"crop", "pad"}
  BY <1>1, <1>3, ArgumentsAssumption DEF Framed, FrameArguments
<1>4. CASE f[1] = "transpose"
  BY <1>1, <1>4 DEF Framed
<1>5. CASE f[1] \notin {"scale", "crop", "pad", "transpose"}
  BY <1>1, <1>5 DEF Framed
<1>6. QED
  BY <1>2, <1>3, <1>4, <1>5

\* The size of a frame after a chain of filters.
LEMMA FoldFramedNat ==
    ASSUME NEW size \in Nat \X Nat, 0 \notin {size[1], size[2]}, NEW fs, Filters(fs)
    PROVE  FramedBy(size, fs) \in Nat \X Nat
<1>1. CASE fs = <<>>
  BY <1>1, FramedNone
<1>2. ASSUME NEW f, fs = <<f>>, Arguments(f)
      PROVE  FramedBy(size, fs) \in Nat \X Nat
  BY <1>2, FramedOne, FramedNat DEF Arguments
<1>3. ASSUME NEW f, NEW g, fs = <<f, g>>, Arguments(f), Arguments(g),
             f[1] = "fps" /\ g[1] = "scale"
      PROVE  FramedBy(size, fs) \in Nat \X Nat
  <2>1. Framed(size, f) = size
    BY <1>3 DEF Framed
  <2>2. Framed(size, g) \in Nat \X Nat
    BY <1>3, FramedNat DEF Arguments
  <2>3. FramedBy(size, <<f, g>>) = Framed(Framed(size, f), g)
    BY FramedTwo
  <2>4. QED BY <1>3, <2>1, <2>2, <2>3
<1>4. ASSUME NEW f, NEW g, fs = <<f, g>>, Arguments(f), Arguments(g),
             f[1] = "scale" /\ g[1] = "crop"
      PROVE  FramedBy(size, fs) \in Nat \X Nat
  <2>1. Framed(size, f) \in Nat \X Nat
    BY <1>4, FramedNat DEF Arguments
  <2>2. Framed(Framed(size, f), g) \in Nat \X Nat
    BY <1>4, <2>1, FramedNat DEF Arguments
  <2>3. FramedBy(size, <<f, g>>) = Framed(Framed(size, f), g)
    BY FramedTwo
  <2>4. QED BY <1>4, <2>2, <2>3
<1>5. QED
  BY <1>1, <1>2, <1>3, <1>4 DEF Filters

\* The streams of a file given other lengths.
LEMMA TimingFields ==
    ASSUME NEW file \in Streams, NEW v \in Nat, NEW a \in Nat
    PROVE  /\ Timing(file, v, a) \in Streams
           /\ Timing(file, v, a).size = file.size
           /\ Timing(file, v, a).video = IfAny(file.video, v)
           /\ Timing(file, v, a).audio = IfAny(file.audio, a)
BY DEF Timing, IfAny, Streams, Lengths, Optional

\* A stream that is not there has no length.
LEMMA LengthNat ==
    ASSUME NEW d \in Lengths
    PROVE  Length(d) \in Nat
BY DEF Length, Lengths, Optional

\* A file is one of those.
LEMMA FilesAreStreams == Files \subseteq Streams
BY DEF Files, Streams, Lengths

\* Where a command starts to read, and how often.
LEMMA OpenedFile ==
    ASSUME NEW x \in Files, NEW cmd, WellFormed(cmd)
    PROVE  /\ Opened(cmd, x) \in Files
           /\ Opened(cmd, x).size = x.size
           /\ Has(Opened(cmd, x), "video") <=> Has(x, "video")
           /\ Has(Opened(cmd, x), "audio") <=> Has(x, "audio")
           /\ Together(x) => Together(Opened(cmd, x))
<1> DEFINE start == IF cmd.copy THEN cmd.seek - (cmd.seek % KeyEvery) ELSE cmd.seek
           before == cmd.loops * More(Length(x.video), Length(x.audio))
           v == Minus(before + Length(x.video), start)
           a == Minus(before + Length(x.audio), start)
<1>1. x \in Streams /\ Length(x.video) \in Nat /\ Length(x.audio) \in Nat
  BY FilesAreStreams, LengthNat DEF Streams
<1>2. start \in Int
  <2>1. cmd.seek \in Nat /\ KeyEvery \in Nat \ {0}
    BY BoundsAssumption DEF WellFormed
  <2>2. cmd.seek % KeyEvery \in Int
    BY <2>1
  <2>3. QED BY <2>1, <2>2
<1>3. before \in Nat
  <2>1. cmd.loops \in Nat /\ More(Length(x.video), Length(x.audio)) \in Nat
    BY <1>1, LessMoreNat DEF WellFormed
  <2>2. QED BY <2>1
<1>4. Opened(cmd, x) = Timing(x, v, a)
  BY DEF Opened
<1> HIDE DEF start, before
<1>5. v \in Nat /\ a \in Nat
  <2>1. before + Length(x.video) \in Int /\ before + Length(x.audio) \in Int
    BY <1>1, <1>3
  <2>2. QED BY <1>2, <2>1, MinusNat
<1>6. x.video = x.audio => v = a
  OBVIOUS
<1> HIDE DEF v, a
<1> DEFINE t == Timing(x, v, a)
<1>7. /\ t \in Streams /\ t.size = x.size
      /\ t.video = IfAny(x.video, v) /\ t.audio = IfAny(x.audio, a)
  BY <1>1, <1>5, TimingFields
<1> HIDE DEF t
<1>8. v # None /\ a # None
  BY <1>5, ArgumentsAssumption
<1>9. (Has(t, "video") <=> Has(x, "video")) /\ (Has(t, "audio") <=> Has(x, "audio"))
  BY <1>7, <1>8 DEF Has, IfAny
<1>10. t \in Files
  <2>1. Has(x, "video") => 0 \notin {x.size[1], x.size[2]}
    BY DEF Files
  <2>2. QED BY <1>7, <1>9, <2>1 DEF Files, Streams, Lengths
<1>11. Together(x) => Together(t)
  BY <1>6, <1>7, <1>9 DEF Together, Has, IfAny
<1>12. QED
  BY <1>4, <1>7, <1>9, <1>10, <1>11 DEF t

\* What the filters make of it.
LEMMA FilteredStreams ==
    ASSUME NEW file \in Files, NEW cmd, WellFormed(cmd)
    PROVE  /\ Filtered(cmd, file) \in Streams
           /\ Filtered(cmd, file).video =
                  IfAny(file.video, TimedBy(Length(file.video), cmd.vf))
           /\ Filtered(cmd, file).audio =
                  IfAny(file.audio, TimedBy(Length(file.audio), cmd.af))
           /\ Has(file, "video") =>
                  Filtered(cmd, file).size = FramedBy(file.size, cmd.vf)
<1> DEFINE v == TimedBy(Length(file.video), cmd.vf)
           a == TimedBy(Length(file.audio), cmd.af)
           t == Timing(file, v, a)
           size == IF Has(file, "video") THEN FramedBy(file.size, cmd.vf) ELSE file.size
<1>1. file \in Streams /\ Length(file.video) \in Nat /\ Length(file.audio) \in Nat
  BY FilesAreStreams, LengthNat DEF Streams
<1>2. v \in Nat /\ a \in Nat
  BY <1>1, FoldTimedNat DEF WellFormed
<1>3. size \in Nat \X Nat
  <2>1. CASE Has(file, "video")
    <3>1. file.size \in Nat \X Nat /\ 0 \notin {file.size[1], file.size[2]}
      BY <2>1 DEF Files
    <3>2. QED BY <2>1, <3>1, FoldFramedNat DEF WellFormed
  <2>2. CASE ~Has(file, "video")
    BY <2>2 DEF Files
  <2>3. QED BY <2>1, <2>2
<1>4. /\ t \in Streams /\ t.size = file.size
      /\ t.video = IfAny(file.video, v) /\ t.audio = IfAny(file.audio, a)
  <2> HIDE DEF v, a
  <2>1. QED BY <1>1, <1>2, TimingFields
<1>5. Filtered(cmd, file) =
          [t EXCEPT !.size = IF Has(file, "video") THEN FramedBy(t.size, cmd.vf) ELSE t.size]
  BY DEF Filtered, TimedBy, FramedBy
<1>6. Filtered(cmd, file) = [t EXCEPT !.size = size]
  <2> HIDE DEF t
  <2>1. QED BY <1>4, <1>5
<1> HIDE DEF t, size
<1>7. /\ [t EXCEPT !.size = size] \in Streams
      /\ [t EXCEPT !.size = size].size = size
      /\ [t EXCEPT !.size = size].video = t.video
      /\ [t EXCEPT !.size = size].audio = t.audio
  BY <1>3, <1>4 DEF Streams
<1>8. QED
  BY <1>4, <1>6, <1>7 DEF size

\* A chain of filters that leaves lengths alone.
LEMMA UntimedLength ==
    ASSUME NEW fs, Untimed(fs), NEW n
    PROVE  TimedBy(n, fs) = n
<1>1. \A f, m : f[1] \notin TimeFilters => Timed(m, f) = m
  BY DEF Timed, TimeFilters
<1>2. CASE fs = <<>>
  BY <1>2, TimedNone
<1>3. ASSUME NEW f, fs = <<f>>, f[1] \notin TimeFilters
      PROVE  TimedBy(n, fs) = n
  BY <1>1, <1>3, TimedOne
<1>4. ASSUME NEW f, NEW g, fs = <<f, g>>, {f[1], g[1]} \cap TimeFilters = {}
      PROVE  TimedBy(n, fs) = n
  <2>1. TimedBy(n, <<f, g>>) = Timed(Timed(n, f), g)
    BY TimedTwo
  <2>2. f[1] \notin TimeFilters /\ g[1] \notin TimeFilters
    BY <1>4
  <2>3. QED BY <1>1, <1>4, <2>1, <2>2
<1>5. QED
  BY <1>2, <1>3, <1>4 DEF Untimed

\* A command of one input that writes both streams treats them alike.
LEMMA FilteredTogether ==
    ASSUME NEW file \in Files, Together(file), NEW cmd, WellFormed(cmd),
           \/ Untimed(cmd.vf) /\ Untimed(cmd.af)
           \/ \E speed \in Speeds :
                  cmd.vf = <<<<"setpts", speed>>>> /\ cmd.af = <<<<"atempo", speed>>>>
    PROVE  Together(Filtered(cmd, file))
<1>1. \A n : TimedBy(n, cmd.vf) = TimedBy(n, cmd.af)
  <2>1. CASE Untimed(cmd.vf) /\ Untimed(cmd.af)
    BY <2>1, UntimedLength
  <2>2. ASSUME NEW speed \in Speeds,
               cmd.vf = <<<<"setpts", speed>>>>, cmd.af = <<<<"atempo", speed>>>>
        PROVE  \A n : TimedBy(n, cmd.vf) = TimedBy(n, cmd.af)
    <3>1. \A n : /\ TimedBy(n, <<<<"setpts", speed>>>>) = Timed(n, <<"setpts", speed>>)
                 /\ TimedBy(n, <<<<"atempo", speed>>>>) = Timed(n, <<"atempo", speed>>)
      BY TimedOne
    <3>2. \A n : Timed(n, <<"setpts", speed>>) = Timed(n, <<"atempo", speed>>)
      BY DEF Timed
    <3>3. QED BY <2>2, <3>1, <3>2
  <2>3. QED BY <2>1, <2>2
<1>2. /\ Filtered(cmd, file).video = IfAny(file.video, TimedBy(Length(file.video), cmd.vf))
      /\ Filtered(cmd, file).audio = IfAny(file.audio, TimedBy(Length(file.audio), cmd.af))
  BY FilteredStreams
<1>3. QED
  BY <1>1, <1>2 DEF Together, Has, IfAny

\* The rest of a length, cut to what is asked for, and what is written.
LEMMA WrittenStreams ==
    ASSUME NEW file \in Streams, NEW cmd, WellFormed(cmd)
    PROVE  LET w == Written(cmd, file)
               alone == \/ cmd.format \in {"audio", "image", "gif"}
                        \/ cmd.drop \cap {"video", "audio"} # {}
           IN  /\ w \in Streams
               /\ Has(w, "video") => /\ w.size = file.size /\ Has(file, "video")
                                     /\ cmd.format # "audio"
               /\ Together(file) \/ cmd.short \/ alone => Together(w)
<1> DEFINE most == IF cmd.limit # None THEN cmd.limit
                   ELSE IfAny(cmd.to, Minus(cmd.to, cmd.from))
           part(d) == IF most = None THEN Minus(d, cmd.from)
                      ELSE Less(Minus(d, cmd.from), most)
           n == Length(file.video)
           m == Length(file.audio)
           both == Less(n, m)
           v == IF cmd.short THEN both ELSE part(n)
           a == IF cmd.short THEN both ELSE part(m)
           cut == Timing(file, v, a)
           video == IF "video" \in cmd.drop \/ cmd.format = "audio" THEN None
                    ELSE IfAny(cut.video, IF cmd.format = "image" THEN 0 ELSE cut.video)
           audio == IF "audio" \in cmd.drop \/ cmd.format \in {"image", "gif"}
                    THEN None ELSE cut.audio
           size == IF video = None THEN <<0, 0>> ELSE cut.size
           w == Written(cmd, file)
<1>1. n \in Nat /\ m \in Nat
  BY LengthNat DEF Streams
<1>2. most = None \/ most \in Nat
  <2>1. cmd.from \in Int /\ (cmd.to = None \/ cmd.to \in Int) /\ cmd.limit \in Lengths
    BY DEF WellFormed, Lengths, Optional
  <2>2. cmd.to \in Int => Minus(cmd.to, cmd.from) \in Nat
    BY <2>1, MinusNat
  <2>3. QED BY <2>1, <2>2 DEF IfAny, Lengths, Optional
<1>3. \A d \in Nat : part(d) \in Nat
  <2> TAKE d \in Nat
  <2>1. cmd.from \in Int /\ d \in Int
    BY DEF WellFormed
  <2>2. Minus(d, cmd.from) \in Nat
    BY <2>1, MinusNat
  <2> HIDE DEF most
  <2>3. QED BY <1>2, <2>2, LessMoreNat
<1>4. v \in Nat /\ a \in Nat
  <2>1. both \in Nat
    BY <1>1, LessMoreNat
  <2> HIDE DEF part, both, n, m
  <2>2. QED BY <1>1, <1>3, <2>1
<1>5. (cmd.short \/ n = m) => v = a
  OBVIOUS
<1>6. w = [cut EXCEPT !.video = video, !.size = size, !.audio = audio]
  <2>1. cut = IF cmd.short THEN Timing(file, both, both) ELSE Timing(file, part(n), part(m))
    OBVIOUS
  <2> HIDE DEF cut, both, part, v, a
  <2>2. w = LET most_ == IF cmd.limit # None THEN cmd.limit
                         ELSE IfAny(cmd.to, Minus(cmd.to, cmd.from))
                c == IF cmd.short THEN Timing(file, both, both)
                     ELSE Timing(file, part(n), part(m))
                video_ == IF "video" \in cmd.drop \/ cmd.format = "audio" THEN None
                          ELSE IfAny(c.video,
                                     IF cmd.format = "image" THEN 0 ELSE c.video)
            IN  [c EXCEPT !.video = video_,
                          !.size = IF video_ = None THEN <<0, 0>> ELSE @,
                          !.audio = IF "audio" \in cmd.drop \/ cmd.format \in {"image", "gif"}
                                    THEN None ELSE @]
    BY DEF Written, both, part
  <2>3. QED BY <2>1, <2>2
<1> HIDE DEF v, a, part, most, both, w
<1>7. cut \in Streams /\ cut.size = file.size
      /\ cut.video = IfAny(file.video, v) /\ cut.audio = IfAny(file.audio, a)
  BY <1>4, TimingFields
<1> HIDE DEF cut
<1>8. video \in Lengths /\ audio \in Lengths /\ size \in Nat \X Nat
  BY <1>7 DEF Streams, Lengths, Optional, IfAny
<1>9. /\ w \in Streams
      /\ w.video = video /\ w.audio = audio /\ w.size = size
  <2> HIDE DEF video, audio, size
  <2>1. QED BY <1>6, <1>7, <1>8 DEF Streams
<1>10. Has(w, "video") => /\ w.size = file.size /\ Has(file, "video")
                          /\ cmd.format # "audio"
  BY <1>7, <1>9 DEF Has, IfAny
<1>11. ASSUME \/ cmd.format \in {"audio", "image", "gif"}
              \/ cmd.drop \cap {"video", "audio"} # {}
       PROVE  Together(w)
  <2>1. Has(w, "audio") => /\ "audio" \notin cmd.drop
                           /\ cmd.format \notin {"image", "gif"}
    BY <1>9 DEF Has
  <2>2. Has(w, "video") => "video" \notin cmd.drop /\ cmd.format # "audio"
    BY <1>9 DEF Has
  <2>3. QED BY <1>11, <2>1, <2>2 DEF Together
<1>12. ASSUME /\ Together(file) \/ cmd.short
              /\ cmd.format \notin {"audio", "image", "gif"}
              /\ cmd.drop \cap {"video", "audio"} = {}
       PROVE  Together(w)
  <2>1. video = IfAny(cut.video, cut.video) /\ audio = cut.audio
    BY <1>12
  <2>2. Has(w, "video") /\ Has(w, "audio") =>
            /\ file.video # None /\ file.audio # None
            /\ w.video = v /\ w.audio = a
    BY <1>7, <1>9, <2>1 DEF Has, IfAny
  <2>3. Has(w, "video") /\ Has(w, "audio") => n = m \/ cmd.short
    BY <1>12, <2>2 DEF Together, Has
  <2>4. QED BY <1>5, <2>2, <2>3 DEF Together
<1>13. QED
  BY <1>9, <1>10, <1>11, <1>12 DEF w

\* A file put together from its streams.
LEMMA FileFields ==
    ASSUME NEW v \in Lengths, NEW size \in Nat \X Nat, NEW a \in Lengths
    PROVE  /\ File(v, size, a) \in Streams
           /\ File(v, size, a).video = v
           /\ File(v, size, a).size = size
           /\ File(v, size, a).audio = a
BY DEF File, Streams

\* Sums and the larger of even sizes are even.
LEMMA EvenSizes ==
    ASSUME NEW a \in Nat, NEW b \in Nat, a % 2 = 0, b % 2 = 0
    PROVE  /\ (a + b) % 2 = 0 /\ More(a, b) % 2 = 0
           /\ Equal(a, b) % 2 = 0 /\ 0 % 2 = 0
BY DEF More, Equal

\* Sizes of stacked pictures.
LEMMA BesideSize ==
    ASSUME NEW s \in Nat \X Nat, NEW t \in Nat \X Nat,
           NEW stack \in {"hstack", "vstack", "xstack"}
    PROVE  /\ Beside(stack, s, t) \in Nat \X Nat
           /\ /\ s[1] % 2 = 0 /\ s[2] % 2 = 0 /\ t[1] % 2 = 0 /\ t[2] % 2 = 0
              => Beside(stack, s, t)[1] % 2 = 0 /\ Beside(stack, s, t)[2] % 2 = 0
<1>1. PICK a \in Nat, b \in Nat, c \in Nat, d \in Nat : s = <<a, b>> /\ t = <<c, d>>
  OBVIOUS
<1>2. /\ a + c \in Nat /\ b + d \in Nat /\ More(b, d) \in Nat
      /\ Equal(b, d) \in Nat /\ Equal(a, c) \in Nat
  BY DEF Equal, More
<1>3. a % 2 = 0 /\ c % 2 = 0 => (a + c) % 2 = 0 /\ Equal(a, c) % 2 = 0
  BY EvenSizes
<1>4. b % 2 = 0 /\ d % 2 = 0 =>
          (b + d) % 2 = 0 /\ Equal(b, d) % 2 = 0 /\ More(b, d) % 2 = 0
  BY EvenSizes
<1>5. Beside(stack, s, t) = CASE stack = "hstack" -> <<a + c, Equal(b, d)>>
                              [] stack = "vstack" -> <<Equal(a, c), b + d>>
                              [] stack = "xstack" -> <<a + c, More(b, d)>>
  BY <1>1 DEF Beside
<1>6. QED
  BY <1>1, <1>2, <1>3, <1>4, <1>5

\* What a graph makes of two files: a file, in step if the two are and none of
\* them is said to outlast the other, and with frames of even size if they are.
Joins(cmd, x, y) ==
    LET out == Joined(cmd, x, y)
    IN  /\ out \in Streams
        /\ Together(x) /\ Together(y) /\ ~OneSided(cmd, x, y) =>
               \/ Together(out) \/ cmd.short
               \/ cmd.format = "audio" \/ cmd.drop \cap {"video", "audio"} # {}
        /\ Even(x) /\ Even(y) /\ cmd.format # "audio" => Even(out)

\* A graph joins if the file it makes is as Joins says.
LEMMA JoinedAgain ==
    ASSUME NEW x \in Files, NEW y \in Files, NEW cmd,
           NEW v \in Lengths, NEW size \in Nat \X Nat, NEW a \in Lengths,
           Joined(cmd, x, y) = File(v, size, a),
           Together(x) /\ Together(y) /\ ~OneSided(cmd, x, y) =>
               \/ v = None \/ a = None \/ v = a \/ cmd.short
               \/ cmd.format = "audio" \/ cmd.drop \cap {"video", "audio"} # {},
           Even(x) /\ Even(y) /\ cmd.format # "audio" =>
               size[1] % 2 = 0 /\ size[2] % 2 = 0
    PROVE  Joins(cmd, x, y)
<1>1. /\ File(v, size, a) \in Streams /\ File(v, size, a).video = v
      /\ File(v, size, a).size = size /\ File(v, size, a).audio = a
  BY FileFields
<1>2. QED
  BY <1>1 DEF Joins, Together, Even, Has

\* The streams that a graph joins are there.
LEMMA NotMissing ==
    ASSUME NEW cmd, NEW x \in Files, NEW y \in Files, cmd.graph # <<>>,
           ~Missing(cmd, x, y)
    PROVE  /\ cmd.inputs # "video_audio" /\ "video" \in cmd.need =>
                  x.video \in Nat /\ y.video \in Nat
           /\ cmd.inputs # "video_audio" /\ "audio" \in cmd.need =>
                  x.audio \in Nat /\ y.audio \in Nat
           /\ cmd.inputs = "video_audio" => x.video \in Nat /\ y.audio \in Nat
           /\ x.size \in Nat \X Nat /\ y.size \in Nat \X Nat
           /\ x.video \in Lengths /\ x.audio \in Lengths
           /\ y.video \in Lengths /\ y.audio \in Lengths
<1>1. /\ x.size \in Nat \X Nat /\ y.size \in Nat \X Nat
      /\ x.video \in Lengths /\ x.audio \in Lengths
      /\ y.video \in Lengths /\ y.audio \in Lengths
  BY FilesAreStreams DEF Streams
<1>2. cmd.inputs # "video_audio" =>
          \A s \in cmd.need : x[s] # None /\ y[s] # None
  BY DEF Missing, Has
<1>3. cmd.inputs = "video_audio" => x["video"] # None /\ y["audio"] # None
  BY DEF Missing, Has
<1>4. x["video"] = x.video /\ y["video"] = y.video /\ x["audio"] = x.audio
      /\ y["audio"] = y.audio
  OBVIOUS
<1>5. QED
  BY <1>1, <1>2, <1>3, <1>4 DEF Lengths, Optional

\* Two videos one after the other, with sound or without.
LEMMA ConcatJoins ==
    ASSUME NEW cmd, NEW x \in Files, NEW y \in Files, cmd.graph = <<"concat">>,
           cmd.inputs = "multi", ~Missing(cmd, x, y),
           \/ cmd.need = {"video", "audio"} /\ cmd.drop = {}
           \/ cmd.need = {"video"} /\ cmd.drop = {"audio"}
    PROVE  Joins(cmd, x, y)
<1> DEFINE size == IF x.size = y.size THEN x.size ELSE <<0, 0>>
<1>1. cmd.graph # <<>> /\ cmd.graph[1] = "concat" /\ cmd.inputs # "video_audio"
  OBVIOUS
<1>2. x.video \in Nat /\ y.video \in Nat /\ x.size \in Nat \X Nat /\ y.size \in Nat \X Nat
  BY <1>1, NotMissing
<1>3. size \in Nat \X Nat /\ (Even(x) => size[1] % 2 = 0 /\ size[2] % 2 = 0)
  BY <1>2 DEF Even
<1> HIDE DEF size
<1>4. CASE cmd.need = {"video", "audio"} /\ cmd.drop = {}
  <2>1. x.audio \in Nat /\ y.audio \in Nat
    BY <1>1, <1>4, NotMissing
  <2> DEFINE first == More(x.video, x.audio)
             v == first + y.video
             a == first + y.audio
  <2>2. Joined(cmd, x, y) = File(v, size, a)
    BY <1>1, <1>4 DEF Joined, size
  <2>3. v \in Lengths /\ a \in Lengths
    <3>1. first \in Nat
      BY <1>2, <2>1, LessMoreNat
    <3>2. QED BY <1>2, <2>1, <3>1 DEF Lengths, Optional
  <2>4. Together(y) => v = a
    BY <1>2, <2>1, ArgumentsAssumption DEF Together, Has
  <2> HIDE DEF v, a
  <2>5. QED BY <1>3, <2>2, <2>3, <2>4, JoinedAgain
<1>5. CASE cmd.drop = {"audio"}
  <2> DEFINE v == x.video + y.video
  <2>1. Joined(cmd, x, y) = File(v, size, None)
    BY <1>1, <1>5 DEF Joined, size
  <2>2. v \in Lengths /\ None \in Lengths
    BY <1>2 DEF Lengths, Optional
  <2> HIDE DEF v
  <2>3. QED BY <1>3, <2>1, <2>2, JoinedAgain
<1>6. QED
  BY <1>4, <1>5

\* One video that fades into another.
LEMMA CrossFadeJoins ==
    ASSUME NEW cmd, NEW x \in Files, NEW y \in Files,
           NEW d \in Nat, NEW o \in Nat, cmd.graph = <<"xfade", d, o>>,
           cmd.inputs = "multi", cmd.need = {"video", "audio"}, ~Missing(cmd, x, y)
    PROVE  Joins(cmd, x, y)
<1> DEFINE size == IF x.size = y.size THEN x.size ELSE <<0, 0>>
           v == IF x.video >= d + o THEN o + y.video ELSE x.video
           a == Minus(x.audio + y.audio, d)
<1>1. /\ cmd.graph # <<>> /\ cmd.graph[1] = "xfade" /\ cmd.graph[2] = d
      /\ cmd.graph[3] = o /\ cmd.inputs # "video_audio"
      /\ "video" \in cmd.need /\ "audio" \in cmd.need
  OBVIOUS
<1>2. /\ x.video \in Nat /\ y.video \in Nat /\ x.audio \in Nat /\ y.audio \in Nat
      /\ x.size \in Nat \X Nat /\ y.size \in Nat \X Nat
  BY <1>1, NotMissing
<1>3. size \in Nat \X Nat /\ (Even(x) => size[1] % 2 = 0 /\ size[2] % 2 = 0)
  BY <1>2 DEF Even
<1>4. Joined(cmd, x, y) = File(v, size, a)
  BY <1>1 DEF Joined
<1> HIDE DEF size
<1>5. v \in Lengths /\ a \in Lengths
  <2>1. x.audio + y.audio \in Int /\ d \in Int
    BY <1>2
  <2>2. a \in Nat
    BY <2>1, MinusNat
  <2>3. v \in Nat
    BY <1>2
  <2>4. QED BY <2>2, <2>3 DEF Lengths, Optional
<1>6. Together(x) /\ Together(y) /\ ~OneSided(cmd, x, y) => v = a
  <2> SUFFICES ASSUME Together(x), Together(y), ~OneSided(cmd, x, y)
               PROVE  v = a
    OBVIOUS
  <2>1. d + o = x.video
    BY <1>1 DEF OneSided
  <2>2. x.video = x.audio /\ y.video = y.audio
    BY <1>2, ArgumentsAssumption DEF Together, Has
  <2>3. v = o + y.video
    BY <1>2, <2>1
  <2>4. a = o + y.video
    BY <1>2, <2>1, <2>2 DEF Minus, More
  <2>5. QED BY <2>3, <2>4
<1> HIDE DEF v, a
<1>7. QED
  BY <1>3, <1>4, <1>5, <1>6, JoinedAgain

\* Videos side by side, or one on top of the other.
LEMMA StackJoins ==
    ASSUME NEW cmd, NEW x \in Files, NEW y \in Files,
           NEW stack \in {"hstack", "vstack", "xstack"}, cmd.graph = <<stack>>,
           cmd.inputs = "multi", cmd.need = {"video"}, ~Missing(cmd, x, y)
    PROVE  Joins(cmd, x, y)
<1> DEFINE size == Beside(stack, x.size, y.size)
           v == More(x.video, y.video)
           a == IF Has(x, "audio") THEN x.audio ELSE y.audio
<1>1. /\ cmd.graph # <<>> /\ cmd.graph[1] = stack /\ cmd.inputs # "video_audio"
      /\ "video" \in cmd.need
  OBVIOUS
<1>2. /\ x.video \in Nat /\ y.video \in Nat
      /\ x.size \in Nat \X Nat /\ y.size \in Nat \X Nat
      /\ x.audio \in Lengths /\ y.audio \in Lengths
  BY <1>1, NotMissing
<1>3. /\ size \in Nat \X Nat
      /\ Even(x) /\ Even(y) => size[1] % 2 = 0 /\ size[2] % 2 = 0
  BY <1>2, BesideSize DEF Even
<1>4. Joined(cmd, x, y) = File(v, size, a)
  BY <1>1 DEF Joined
<1> HIDE DEF size
<1>5. v \in Lengths /\ a \in Lengths
  BY <1>2, LessMoreNat DEF Lengths, Optional
<1>6. Together(x) /\ Together(y) /\ ~OneSided(cmd, x, y) => a = None \/ v = a
  <2> SUFFICES ASSUME Together(x), Together(y), ~OneSided(cmd, x, y), a # None
               PROVE  v = a
    OBVIOUS
  <2>1. x.video = y.video
    BY <1>1 DEF OneSided
  <2>2. x.video # None /\ y.video # None
    BY <1>2, ArgumentsAssumption
  <2>3. a = x.video
    BY <2>1, <2>2 DEF Together, Has
  <2>4. v = x.video
    BY <2>1 DEF More
  <2>5. QED BY <2>3, <2>4
<1> HIDE DEF v, a
<1>7. QED
  BY <1>3, <1>4, <1>5, <1>6, JoinedAgain

\* A picture over the picture of a video.
LEMMA OverlayJoins ==
    ASSUME NEW cmd, NEW x \in Files, NEW y \in Files, cmd.graph = <<"overlay">>,
           cmd.inputs = "overlay", cmd.need = {"video"}, ~Missing(cmd, x, y)
    PROVE  Joins(cmd, x, y)
<1> DEFINE v == More(x.video, y.video)
<1>1. /\ cmd.graph # <<>> /\ cmd.graph[1] = "overlay" /\ cmd.inputs # "video_audio"
      /\ "video" \in cmd.need
  OBVIOUS
<1>2. /\ x.video \in Nat /\ y.video \in Nat
      /\ x.size \in Nat \X Nat /\ x.audio \in Lengths
  BY <1>1, NotMissing
<1>3. Joined(cmd, x, y) = File(v, x.size, x.audio)
  BY <1>1 DEF Joined
<1>4. v \in Lengths
  BY <1>2, LessMoreNat DEF Lengths, Optional
<1>5. Together(x) /\ ~OneSided(cmd, x, y) => x.audio = None \/ v = x.audio
  <2> SUFFICES ASSUME Together(x), ~OneSided(cmd, x, y), x.audio # None
               PROVE  v = x.audio
    OBVIOUS
  <2>1. ~(y.video > x.video)
    BY <1>1 DEF OneSided
  <2>2. v = x.video
    BY <1>2, <2>1 DEF More
  <2>3. x.video = x.audio
    BY <1>2, ArgumentsAssumption DEF Together, Has
  <2>4. QED BY <2>2, <2>3
<1>6. Even(x) => x.size[1] % 2 = 0 /\ x.size[2] % 2 = 0
  BY DEF Even
<1> HIDE DEF v
<1>7. QED
  BY <1>2, <1>3, <1>4, <1>5, <1>6, JoinedAgain

\* The picture of one file and the sound of another.
LEMMA TracksJoin ==
    ASSUME NEW cmd, NEW x \in Files, NEW y \in Files, cmd.graph = <<"tracks">>,
           cmd.inputs = "video_audio", cmd.short, ~Missing(cmd, x, y)
    PROVE  Joins(cmd, x, y)
<1>1. cmd.graph # <<>> /\ cmd.graph[1] = "tracks"
  OBVIOUS
<1>2. x.video \in Lengths /\ y.audio \in Lengths /\ x.size \in Nat \X Nat
  BY <1>1, NotMissing
<1>3. Joined(cmd, x, y) = File(x.video, x.size, y.audio)
  BY <1>1 DEF Joined
<1>4. Even(x) => x.size[1] % 2 = 0 /\ x.size[2] % 2 = 0
  BY DEF Even
<1>5. QED
  BY <1>2, <1>3, <1>4, JoinedAgain

\* Two sounds of equal length make one of that length.
LEMMA MixedLengths ==
    ASSUME NEW g, NEW n \in Nat, NEW m \in Nat,
           \/ \E mode \in MixModes : g = <<"amix", mode>>
           \/ g = <<"aconcat">> \/ g = <<"amerge">>
           \/ \E d \in Nat : g = <<"acrossfade", d>>
    PROVE  Mixed(g, n, m) \in Nat /\ (g[1] = "amix" /\ n = m => Mixed(g, n, m) = n)
<1>1. Less(n, m) \in Nat /\ More(n, m) \in Nat /\ n + m \in Nat
  BY DEF Less, More
<1>2. ASSUME NEW mode \in MixModes, g = <<"amix", mode>>
      PROVE  Mixed(g, n, m) \in Nat /\ (n = m => Mixed(g, n, m) = n)
  BY <1>1, <1>2 DEF Mixed, MixModes, Less, More
<1>3. CASE g = <<"aconcat">>
  BY <1>1, <1>3 DEF Mixed
<1>4. CASE g = <<"amerge">>
  BY <1>1, <1>4 DEF Mixed
<1>5. ASSUME NEW d \in Nat, g = <<"acrossfade", d>>
      PROVE  Mixed(g, n, m) \in Nat /\ g[1] # "amix"
  <2>1. Mixed(g, n, m) = Minus(n + m, d)
    BY <1>5 DEF Mixed
  <2>2. n + m \in Int /\ d \in Int
    BY <1>1
  <2>3. QED BY <1>5, <2>1, <2>2, MinusNat
<1>6. QED BY <1>2, <1>3, <1>4, <1>5

\* Two sounds, and the picture of one of the inputs.
LEMMA MixJoins ==
    ASSUME NEW cmd, NEW x \in Files, NEW y \in Files, Mixes(cmd), ~Missing(cmd, x, y)
    PROVE  Joins(cmd, x, y)
<1> DEFINE g == cmd.graph
           a == Mixed(g, x.audio, y.audio)
           p == Picture(x, y)
<1>1. /\ g # <<>> /\ cmd.inputs # "video_audio" /\ "audio" \in cmd.need
      /\ g[1] \in {"amix", "aconcat", "amerge", "acrossfade"}
      /\ \/ \E mode \in MixModes : g = <<"amix", mode>>
         \/ g = <<"aconcat">> \/ g = <<"amerge">>
         \/ \E d \in Nat : g = <<"acrossfade", d>>
  <2>1. /\ cmd.inputs = "multi" /\ cmd.need = {"audio"}
        /\ \/ \E mode \in MixModes : g = <<"amix", mode>>
           \/ g = <<"aconcat">> \/ g = <<"amerge">>
           \/ \E d \in Nat : g = <<"acrossfade", d>>
    BY DEF Mixes
  <2> HIDE DEF g
  <2>2. g # <<>> /\ g[1] \in {"amix", "aconcat", "amerge", "acrossfade"}
    BY <2>1
  <2>3. QED BY <2>1, <2>2
<1>2. /\ x.audio \in Nat /\ y.audio \in Nat
      /\ x.size \in Nat \X Nat /\ y.size \in Nat \X Nat
      /\ x.video \in Lengths /\ y.video \in Lengths
  BY <1>1, NotMissing
<1>3. p \in {x, y}
  BY DEF Picture
<1>4. Joined(cmd, x, y) = File(p.video, p.size, a)
  BY <1>1 DEF Joined
<1> HIDE DEF p, g
<1>5. a \in Nat /\ (g[1] = "amix" /\ x.audio = y.audio => a = x.audio)
  BY <1>1, <1>2, MixedLengths
<1>6. a \in Lengths /\ p.video \in Lengths /\ p.size \in Nat \X Nat
  BY <1>2, <1>3, <1>5 DEF Lengths, Optional
<1> HIDE DEF a
<1>7. Together(x) /\ Together(y) /\ ~OneSided(cmd, x, y) =>
          \/ p.video = None \/ p.video = a
          \/ cmd.format = "audio" \/ cmd.drop \cap {"video", "audio"} # {}
  <2> SUFFICES ASSUME Together(x), Together(y), ~OneSided(cmd, x, y),
                      p.video # None, cmd.format # "audio",
                      cmd.drop \cap {"video", "audio"} = {}
               PROVE  p.video = a
    OBVIOUS
  <2>1. cmd.format = "av" /\ cmd.drop # {"video"}
    BY DEF Mixes
  <2>2. Has(p, "video")
    BY DEF Has
  <2>3. ~(cmd.name = "MixAudios" /\ x.audio # y.audio) /\ cmd.name # "CrossFadeAudios"
    BY <1>1, <2>1, <2>2 DEF OneSided, p, g
  <2>4. g[1] = "amix" /\ cmd.name = "MixAudios"
    BY <2>1, <2>3 DEF Mixes, g
  <2>5. x.audio # None /\ y.audio # None
    BY <1>2, ArgumentsAssumption
  <2>6. p.video = p.audio
    BY <1>3, <2>2, <2>5 DEF Together, Has
  <2>7. QED BY <1>3, <1>5, <2>3, <2>4, <2>6
<1>8. Even(x) /\ Even(y) => p.size[1] % 2 = 0 /\ p.size[2] % 2 = 0
  BY <1>3 DEF Even
<1>9. QED
  BY <1>4, <1>6, <1>7, <1>8, JoinedAgain

\* Every command of two inputs.
LEMMA JoinedStreams ==
    ASSUME NEW cmd, NEW x \in Files, NEW y \in Files, TwoInputs(cmd),
           ~Missing(cmd, x, y)
    PROVE  Joins(cmd, x, y)
<1>1. ASSUME NEW d \in Nat, NEW o \in Nat, cmd.graph = <<"xfade", d, o>>,
             cmd.inputs = "multi", cmd.need = {"video", "audio"}
      PROVE  Joins(cmd, x, y)
  BY <1>1, CrossFadeJoins
<1>2. ASSUME NEW stack \in {"hstack", "vstack", "xstack"}, cmd.graph = <<stack>>,
             cmd.inputs = "multi", cmd.need = {"video"}
      PROVE  Joins(cmd, x, y)
  BY <1>2, StackJoins
<1>3. QED
  BY <1>1, <1>2, ConcatJoins, OverlayJoins, TracksJoin, MixJoins DEF TwoInputs

\* A side that the editor computes is even.
LEMMA Doubled == \A n \in Nat : (2 * n) % 2 = 0
OBVIOUS

\* A filter that is given no odd side, nor a side of -1, and an even frame.
EvenArguments(f) ==
    /\ f[1] = "scale" => f[3] # -1
    /\ f[1] \in {"scale", "crop", "pad"} =>
           \A side \in {f[2], f[3]} : ~(side > 0 /\ side % 2 = 1)

EvenSize(size) == size[1] % 2 = 0 /\ size[2] % 2 = 0

\* Such a filter leaves the sides even.
LEMMA FramedEven ==
    ASSUME NEW size \in Nat \X Nat, NEW f, FrameArguments(f), EvenArguments(f),
           EvenSize(size), f[1] = "scale" => 0 \notin {size[1], size[2]}
    PROVE  EvenSize(Framed(size, f))
<1>1. PICK a \in Nat, b \in Nat : size = <<a, b>>
  OBVIOUS
<1>2. \A side \in Sides : /\ side \in Nat /\ side > 0
                          /\ ~(side > 0 /\ side % 2 = 1) => side % 2 = 0
  <2> TAKE side \in Sides
  <2>1. side \in Nat /\ side > 0
    BY ArgumentsAssumption
  <2>2. side % 2 = 0 \/ side % 2 = 1
    BY <2>1
  <2>3. QED BY <2>1, <2>2
<1>3. CASE f[1] = "scale" /\ f[2] \in Sides /\ f[3] = -2
  <2>1. a \in Nat \ {0} /\ f[2] % 2 = 0 /\ f[2] \in Nat
    BY <1>1, <1>2, <1>3 DEF EvenArguments
  <2>2. b * f[2] \in Nat /\ 2 * a \in Nat \ {0}
    BY <2>1
  <2> DEFINE n == Rounded(b * f[2], 2 * a)
  <2>3. n \in Nat
    BY <2>2, RoundedNat
  <2>4. Framed(size, f) = <<f[2], 2 * n>>
    <3>1. \A w \in Nat : Scaled(<<a, b>>, w, -2) = <<w, 2 * Rounded(b * w, 2 * a)>>
      BY DEF Scaled
    <3>2. Framed(size, f) = Scaled(<<a, b>>, f[2], -2)
      BY <1>1, <1>3 DEF Framed
    <3>3. QED BY <2>1, <3>1, <3>2
  <2> HIDE DEF n
  <2>5. (2 * n) % 2 = 0
    BY <2>3, Doubled
  <2>6. QED BY <2>1, <2>4, <2>5 DEF EvenSize
<1>4. CASE f[1] = "scale" /\ f[2] \in Sides /\ f[3] \in Sides
  <2>1. f[2] % 2 = 0 /\ f[3] % 2 = 0
    BY <1>2, <1>4 DEF EvenArguments
  <2>2. f[2] \in Nat /\ f[3] \in Nat /\ f[2] > 0 /\ f[3] > 0
    BY <1>2, <1>4
  <2>3. Framed(size, f) = <<f[2], f[3]>>
    <3>1. Framed(size, f) = Scaled(size, f[2], f[3])
      BY <1>4 DEF Framed
    <3> DEFINE w == f[2]
               h == f[3]
    <3>2. w \in Nat /\ h \in Nat /\ w > 0 /\ h > 0
      BY <2>2
    <3> HIDE DEF w, h
    <3>3. Scaled(size, w, h) = <<w, h>>
      BY <3>2 DEF Scaled
    <3>4. QED BY <3>1, <3>3 DEF w, h
  <2>4. QED BY <2>1, <2>3 DEF EvenSize
<1>5. CASE f[1] = "scale" /\ f[2] = -2 /\ f[3] \in Sides
  <2>1. b \in Nat \ {0} /\ f[3] % 2 = 0 /\ f[3] \in Nat
    BY <1>1, <1>2, <1>5 DEF EvenArguments
  <2>2. a * f[3] \in Nat /\ 2 * b \in Nat \ {0}
    BY <2>1
  <2> DEFINE n == Rounded(a * f[3], 2 * b)
  <2>3. n \in Nat
    BY <2>2, RoundedNat
  <2>4. Framed(size, f) = <<2 * n, f[3]>>
    BY <1>1, <1>5, <2>1 DEF Framed, Scaled
  <2> HIDE DEF n
  <2>5. (2 * n) % 2 = 0
    BY <2>3, Doubled
  <2>6. QED BY <2>1, <2>4, <2>5 DEF EvenSize
<1>6. CASE f[1] \in {"crop", "pad"}
  <2>1. f[2] % 2 = 0 /\ f[3] % 2 = 0
    BY <1>2, <1>6 DEF EvenArguments, FrameArguments
  <2>2. Framed(size, f) = <<f[2], f[3]>> \/ Framed(size, f) = <<0, 0>>
    BY <1>6 DEF Framed
  <2>3. 0 % 2 = 0
    OBVIOUS
  <2>4. QED BY <2>1, <2>2, <2>3 DEF EvenSize
<1>7. CASE f[1] = "transpose"
  BY <1>1, <1>7 DEF Framed, EvenSize
<1>8. CASE f[1] \notin {"scale", "crop", "pad", "transpose"}
  BY <1>8 DEF Framed
<1>9. QED
  BY <1>3, <1>4, <1>5, <1>6, <1>7, <1>8 DEF FrameArguments, EvenArguments

\* A video that is encoded after its filters.
LEMMA FilteredEven ==
    ASSUME NEW file \in Files, Has(file, "video"), Even(file), NEW cmd,
           WellFormed(cmd), cmd.format = "av", ~GivenOddSide(cmd)
    PROVE  Even(Filtered(cmd, file))
<1> DEFINE size == file.size
           fs == cmd.vf
<1>1. size \in Nat \X Nat /\ 0 \notin {size[1], size[2]} /\ EvenSize(size)
  BY DEF Files, Even, EvenSize
<1>2. \A i \in DOMAIN fs : EvenArguments(fs[i])
  BY DEF WellFormed, Sized, GivenOddSide, EvenArguments
<1>3. Filters(fs) /\ Filtered(cmd, file).size = FramedBy(size, fs)
  BY FilteredStreams DEF WellFormed
<1> HIDE DEF fs, size
<1>4. EvenSize(FramedBy(size, fs))
  <2>1. CASE fs = <<>>
    BY <1>1, <2>1, FramedNone
  <2>2. ASSUME NEW f, fs = <<f>>, Arguments(f)
        PROVE  EvenSize(FramedBy(size, fs))
    <3>1. EvenArguments(f)
      BY <1>2, <2>2
    <3>2. EvenSize(Framed(size, f))
      BY <1>1, <2>2, <3>1, FramedEven DEF Arguments
    <3>3. QED BY <2>2, <3>2, FramedOne
  <2>3. ASSUME NEW f, NEW g, fs = <<f, g>>, Arguments(f), Arguments(g),
               \/ f[1] = "fps" /\ g[1] = "scale"
               \/ f[1] = "scale" /\ g[1] = "crop"
        PROVE  EvenSize(FramedBy(size, fs))
    <3>1. EvenArguments(f) /\ EvenArguments(g)
      <4>1. 1 \in DOMAIN fs /\ 2 \in DOMAIN fs /\ fs[1] = f /\ fs[2] = g
        BY <2>3
      <4>2. QED BY <1>2, <4>1
    <3>2. EvenSize(Framed(size, f)) /\ Framed(size, f) \in Nat \X Nat
      BY <1>1, <2>3, <3>1, FramedEven, FramedNat DEF Arguments
    <3>3. f[1] = "fps" => Framed(size, f) = size
      BY DEF Framed
    <3>4. EvenSize(Framed(Framed(size, f), g))
      BY <1>1, <2>3, <3>1, <3>2, <3>3, FramedEven DEF Arguments
    <3>5. FramedBy(size, <<f, g>>) = Framed(Framed(size, f), g)
      BY FramedTwo
    <3>6. QED BY <2>3, <3>4, <3>5
  <2>4. QED BY <1>3, <2>1, <2>2, <2>3 DEF Filters
<1>5. QED
  BY <1>3, <1>4 DEF EvenSize, Even

\* What a command writes: streams, in step and of even size where its input is.
LEMMA OutputFacts ==
    ASSUME NEW cmd, Editable(cmd), NEW x \in Files, NEW y,
           cmd.graph # <<>> => y \in Files, ~Missing(cmd, x, y)
    PROVE  LET out == Output(cmd, x, y)
               joins == cmd.graph # <<>>
           IN  /\ out \in Streams
               /\ /\ Together(x) /\ (joins => Together(y))
                  /\ ~OneSided(cmd, x, y) /\ cmd.format # "null"
                  => Together(out)
               /\ /\ Even(x) /\ (joins => Even(y)) /\ Has(out, "video")
                  /\ cmd.format = "av" /\ ~GivenOddSide(cmd)
                  => Even(out)
<1> DEFINE out == Output(cmd, x, y)
           alone == \/ cmd.format \in {"audio", "image", "gif"}
                    \/ cmd.drop \cap {"video", "audio"} # {}
<1>1. CASE cmd.graph # <<>>
  <2> DEFINE file == Joined(cmd, x, y)
  <2>1. Joins(cmd, x, y)
    BY <1>1, JoinedStreams DEF Editable
  <2>2. file \in Streams /\ out = Written(cmd, file) /\ WellFormed(cmd)
    BY <1>1, <2>1 DEF Joins, Output, Editable
  <2> HIDE DEF file, out
  <2>3. /\ out \in Streams
        /\ Has(out, "video") => out.size = file.size
        /\ Together(file) \/ cmd.short \/ alone => Together(out)
    BY <2>2, WrittenStreams
  <2>4. Together(x) /\ Together(y) /\ ~OneSided(cmd, x, y) =>
            Together(file) \/ cmd.short \/ alone
    BY <2>1 DEF Joins, file
  <2>5. Even(x) /\ Even(y) /\ cmd.format = "av" => Even(file)
    BY <2>1 DEF Joins, file
  <2>6. Has(out, "video") /\ Even(file) => Even(out)
    BY <2>3 DEF Even
  <2>7. QED
    BY <1>1, <2>3, <2>4, <2>5, <2>6 DEF out
<1>2. CASE cmd.graph = <<>>
  <2> DEFINE before == Opened(cmd, x)
             file == Filtered(cmd, before)
  <2>1. WellFormed(cmd) /\ OneInput(cmd) /\ out = Written(cmd, file)
    BY <1>2 DEF Editable, Output
  <2>2. /\ before \in Files /\ before.size = x.size
        /\ Has(before, "video") <=> Has(x, "video")
        /\ Together(x) => Together(before)
    BY <2>1, OpenedFile
  <2> HIDE DEF before, out
  <2>3. file \in Streams /\ (Has(file, "video") => Has(before, "video"))
    BY <2>1, <2>2, FilteredStreams DEF Has, IfAny
  <2>4. /\ out \in Streams
        /\ Has(out, "video") => out.size = file.size /\ Has(file, "video")
        /\ Together(file) \/ cmd.short \/ alone => Together(out)
    <3> HIDE DEF file
    <3>1. QED BY <2>1, <2>3, WrittenStreams
  <2>5. Together(before) /\ ~OneSided(cmd, x, y) /\ cmd.format # "null" =>
            Together(file) \/ alone
    <3> SUFFICES ASSUME Together(before), ~OneSided(cmd, x, y), cmd.format # "null",
                        ~alone, Has(file, "video")
                 PROVE  Together(file)
      BY DEF Together
    <3>1. /\ cmd.name # "FreezeLastFrame"
          /\ ~(cmd.name \in SoundTimings /\ cmd.format = "av")
      BY <2>2, <2>3 DEF OneSided
    <3>2. \/ Untimed(cmd.vf) /\ Untimed(cmd.af)
          \/ \E speed \in Speeds :
                 cmd.vf = <<<<"setpts", speed>>>> /\ cmd.af = <<<<"atempo", speed>>>>
      BY <2>1, <3>1 DEF OneInput
    <3>3. QED BY <2>1, <2>2, <3>2, FilteredTogether
  <2>6. Even(x) => Even(before)
    BY <2>2 DEF Even
  <2>7. Even(before) /\ Has(before, "video") /\ cmd.format = "av" /\ ~GivenOddSide(cmd)
            => Even(file)
    BY <2>1, <2>2, FilteredEven
  <2>8. Has(out, "video") /\ Even(file) => Even(out)
    BY <2>4 DEF Even
  <2> HIDE DEF file
  <2>9. QED
    BY <1>2, <2>2, <2>3, <2>4, <2>5, <2>6, <2>7, <2>8 DEF out
<1>3. QED
  BY <1>1, <1>2

-----------------------------------------------------------------------------
(* Chains of commands.                                                      *)

Paths == Callers \cup {Shared}

\* The commands that a chain may try.
Tried == EditorCommands \cup {DetectVideoStabilization(path) : path \in Paths}
                        \cup {StabilizeVideo(path) : path \in Paths}

Chains == [steps  : Nat,
           result : {"running", "raised", "done"},
           odd    : Tried \cup {None},
           asked  : Paths \cup {None},
           used   : Callers \cup {None},
           parted : BOOLEAN]

EditTypeOK ==
    /\ work \in [Callers -> Files]
    /\ motion \in [Paths -> Callers \cup {None}]
    /\ chain \in [Callers -> Chains]

\* The transforms that a caller names after itself describe its own video.
OwnTransforms == \A c \in Callers : motion[c] \in {None, c}

\* A chain whose command was refused for an odd size has ended.
OddEnds == \A c \in Callers : chain[c].odd # None => chain[c].result # "running"

EditInv ==
    /\ EditTypeOK /\ OwnTransforms /\ OddEnds
    /\ InStep /\ OwnMotion /\ ComputedSizesEncode

\* What Edit and Stabilization call Execute with.
Proper(c, cmd, path, second) ==
    /\ Editable(cmd) /\ cmd \in Tried /\ path \in Paths \cup {None}
    /\ cmd.inputs = "images" => second \in Images
    /\ cmd.graph # <<>> => second \in Sources /\ cmd.inputs # "images"
    /\ cmd.name = "StabilizeVideo" => path \in {c, Shared} /\ cmd.motion = path
    /\ cmd.motion # None => cmd.motion \in {c, Shared}

\* Edit, with a command that the caller may run.
LEMMA RegularProper ==
    ASSUME NEW c \in Callers, NEW cmd \in Commands[c], NEW second \in Seconds(cmd)
    PROVE  Proper(c, cmd, None, second)
<1>1. Regular(cmd)
  BY CommandsRegular
<1>2. Editable(cmd) /\ cmd.name # "StabilizeVideo" /\ cmd.motion = None
  BY <1>1 DEF Regular, Plain, Editable
<1>3. cmd \in Tried
  BY CommandsAssumption DEF Tried
<1>4. cmd.inputs = "images" => second \in Images
  BY DEF Seconds
<1>5. cmd.graph # <<>> => cmd.inputs \in {"multi", "video_audio", "overlay"}
  BY <1>2 DEF Editable, TwoInputs, Mixes
<1>6. cmd.inputs \in {"multi", "video_audio", "overlay"} => second \in Sources
  BY DEF Seconds
<1>7. QED
  BY <1>2, <1>3, <1>4, <1>5, <1>6 DEF Proper

\* Stabilization, with transforms of the caller's own or shared ones.
LEMMA StabilizationProper ==
    ASSUME NEW c \in Callers, NEW path \in {c, Shared},
           NEW cmd \in {DetectVideoStabilization(path), StabilizeVideo(path)}
    PROVE  Proper(c, cmd, path, None)
<1>1. /\ Filters(<<>>) /\ Untimed(<<>>)
      /\ Filters(<<<<"vidstabdetect">>>>) /\ Filters(<<<<"vidstabtransform">>>>)
      /\ Untimed(<<<<"vidstabdetect">>>>) /\ Untimed(<<<<"vidstabtransform">>>>)
  <2>1. {"vidstabdetect", "vidstabtransform"} \cap (TimeFilters \cup FrameFilters) = {}
    BY DEF TimeFilters, FrameFilters
  <2>2. QED BY <2>1, OtherFilter DEF Filters, Untimed
<1>2. cmd \in Tried
  BY DEF Tried, Paths
<1>3. Editable(cmd)
  <2>1. CASE cmd = DetectVideoStabilization(path)
    BY <1>1, <2>1 DEF Editable, WellFormed, OneInput, Sized, DetectVideoStabilization,
                      Null, Vf, Cmd, Lengths, Optional
  <2>2. CASE cmd = StabilizeVideo(path)
    BY <1>1, <2>2 DEF Editable, WellFormed, OneInput, Sized, StabilizeVideo,
                      Vf, Cmd, Lengths, Optional
  <2>3. QED BY <2>1, <2>2
<1>4. /\ cmd.graph = <<>> /\ cmd.inputs = "media" /\ cmd.motion = path
  BY DEF DetectVideoStabilization, StabilizeVideo, Null, Vf, Cmd
<1>5. QED
  BY <1>2, <1>3, <1>4 DEF Proper, Paths

\* What one run of a command does, by its status.
Attempt(c, cmd, path, second, status) ==
    LET x == IF cmd.inputs = "images" THEN second ELSE work[c]
        refusals == Refusals(cmd, x, second)
        old == chain[c]
        stabilizes == cmd.name = "StabilizeVideo" /\ refusals = {}
    IN  /\ status = "ok" => refusals = {}
        /\ status = "odd" => "odd" \in refusals
        /\ chain' = [chain EXCEPT ![c] =
               [steps  |-> old.steps + 1,
                result |-> IF status = "ok" THEN "running" ELSE "raised",
                odd    |-> IF status = "odd" THEN cmd ELSE old.odd,
                asked  |-> IF stabilizes THEN path ELSE old.asked,
                used   |-> IF stabilizes THEN motion[cmd.motion] ELSE old.used,
                parted |-> old.parted \/ (status = "ok" /\ OneSided(cmd, x, second))]]
        /\ work' = IF cmd.format = "null" \/ status # "ok" THEN work
                   ELSE [work EXCEPT ![c] = Output(cmd, x, second)]
        /\ motion' = IF cmd.format = "null" /\ cmd.motion # None /\ status = "ok"
                     THEN [motion EXCEPT ![cmd.motion] = c] ELSE motion

\* Execute is an attempt with some status, by a chain that is running.
LEMMA ExecuteAttempts ==
    ASSUME EditTypeOK, NEW c \in Callers, NEW cmd, NEW path, NEW second,
           Execute(c, cmd, path, second)
    PROVE  /\ chain[c].result = "running"
           /\ \E status : Attempt(c, cmd, path, second, status)
<1> DEFINE x == IF cmd.inputs = "images" THEN second ELSE work[c]
           refusals == Refusals(cmd, x, second)
           statuses == refusals \cup {"killed"} \cup (IF refusals = {} THEN {"ok"} ELSE {})
           stabilizes == cmd.name = "StabilizeVideo" /\ refusals = {}
           old == chain[c]
           after(status) ==
               [old EXCEPT
                  !.steps = @ + 1,
                  !.asked = IF stabilizes THEN path ELSE @,
                  !.used = IF stabilizes THEN motion[cmd.motion] ELSE @,
                  !.parted = @ \/ (status = "ok" /\ OneSided(cmd, x, second))]
<1>1. chain[c].result = "running"
  BY DEF Execute
<1>2. PICK status \in statuses :
          /\ Run(c, cmd, after(status), status)
          /\ work' = IF cmd.format = "null" \/ status # "ok" THEN work
                     ELSE [work EXCEPT ![c] = Output(cmd, x, second)]
          /\ motion' = IF cmd.format = "null" /\ cmd.motion # None /\ status = "ok"
                       THEN [motion EXCEPT ![cmd.motion] = c] ELSE motion
  BY DEF Execute
<1>3. "ok" \notin refusals
  BY DEF Refusals
<1>4. (status = "ok" => refusals = {}) /\ (status = "odd" => "odd" \in refusals)
  <2> HIDE DEF refusals
  <2>1. QED BY <1>3
<1>5. old \in Chains
  BY DEF EditTypeOK
<1> HIDE DEF refusals, stabilizes, old, x
<1>6. (IF status = "ok" THEN after(status)
       ELSE [after(status) EXCEPT !.result = "raised",
                                  !.odd = IF status = "odd" THEN cmd ELSE @])
      = [steps  |-> old.steps + 1,
         result |-> IF status = "ok" THEN "running" ELSE "raised",
         odd    |-> IF status = "odd" THEN cmd ELSE old.odd,
         asked  |-> IF stabilizes THEN path ELSE old.asked,
         used   |-> IF stabilizes THEN motion[cmd.motion] ELSE old.used,
         parted |-> old.parted \/ (status = "ok" /\ OneSided(cmd, x, second))]
  BY <1>1, <1>5 DEF Chains, old
<1>7. Attempt(c, cmd, path, second, status)
  BY <1>2, <1>4, <1>6 DEF Attempt, Run, x, refusals, stabilizes, old
<1>8. QED
  BY <1>1, <1>7

\* What ffmpeg does not refuse is a file.
LEMMA RefusalFacts ==
    ASSUME NEW cmd, NEW x \in Files, NEW y, Editable(cmd),
           cmd.graph # <<>> => y \in Files
    PROVE  LET refusals == Refusals(cmd, x, y)
               out == Output(cmd, x, y)
           IN  /\ refusals = {} =>
                      /\ ~Missing(cmd, x, y) /\ out \in Files
                      /\ cmd.name = "StabilizeVideo" => motion[cmd.motion] # None
               /\ "odd" \in refusals =>
                      /\ ~Missing(cmd, x, y) /\ Has(out, "video")
                      /\ cmd.format = "av" /\ ~Even(out)
<1> DEFINE refusals == Refusals(cmd, x, y)
           out == Output(cmd, x, y)
<1>1. CASE Missing(cmd, x, y)
  BY <1>1 DEF Refusals
<1>2. CASE ~Missing(cmd, x, y)
  <2>1. out \in Streams
    BY <1>2, OutputFacts
  <2>2. refusals = {r \in {"empty", "size", "odd", "motion"} :
                 CASE r = "empty" -> ~Has(out, "video") /\ ~Has(out, "audio")
                   [] r = "size" -> Has(out, "video") /\ 0 \in {out.size[1], out.size[2]}
                   [] r = "odd" -> /\ Has(out, "video") /\ cmd.format = "av" /\ ~cmd.copy
                                   /\ 1 \in {out.size[1] % 2, out.size[2] % 2}
                   [] r = "motion" -> /\ cmd.name = "StabilizeVideo"
                                      /\ motion[cmd.motion] = None}
    BY <1>2 DEF Refusals
  <2> HIDE DEF out, refusals
  <2>3. /\ "size" \in refusals <=> Has(out, "video") /\ 0 \in {out.size[1], out.size[2]}
        /\ "motion" \in refusals <=> /\ cmd.name = "StabilizeVideo"
                                     /\ motion[cmd.motion] = None
        /\ "odd" \in refusals =>
               /\ Has(out, "video") /\ cmd.format = "av"
               /\ 1 \in {out.size[1] % 2, out.size[2] % 2}
    BY <2>2
  <2>4. refusals = {} => out \in Files
    BY <2>1, <2>3 DEF Files, Streams, Lengths
  <2>5. "odd" \in refusals => ~Even(out)
    BY <2>3 DEF Even
  <2>6. QED
    BY <1>2, <2>3, <2>4, <2>5 DEF out, refusals
<1>3. QED
  BY <1>1, <1>2

\* One run of a command keeps the invariant: its types first.
LEMMA AttemptTypes ==
    ASSUME EditInv, NEW c \in Callers, NEW cmd, NEW path, NEW second,
           Proper(c, cmd, path, second), NEW status,
           chain[c].result = "running", Attempt(c, cmd, path, second, status)
    PROVE  EditTypeOK' /\ OwnTransforms' /\ OddEnds' /\ OwnMotion'
<1> DEFINE x == IF cmd.inputs = "images" THEN second ELSE work[c]
           refusals == Refusals(cmd, x, second)
           out == Output(cmd, x, second)
           old == chain[c]
           stabilizes == cmd.name = "StabilizeVideo" /\ refusals = {}
           new == [steps  |-> old.steps + 1,
                   result |-> IF status = "ok" THEN "running" ELSE "raised",
                   odd    |-> IF status = "odd" THEN cmd ELSE old.odd,
                   asked  |-> IF stabilizes THEN path ELSE old.asked,
                   used   |-> IF stabilizes THEN motion[cmd.motion] ELSE old.used,
                   parted |-> old.parted \/ (status = "ok" /\ OneSided(cmd, x, second))]
<1>1. EditTypeOK /\ c \in Paths
  BY DEF EditInv, Paths
<1>2. x \in Files /\ Editable(cmd) /\ (cmd.graph # <<>> => second \in Files)
  <2>1. work[c] \in Files
    BY <1>1 DEF EditTypeOK
  <2>2. QED BY <2>1, FilesAssumption DEF Proper
<1>3. /\ refusals = {} => out \in Files
      /\ stabilizes => motion[cmd.motion] # None
  BY <1>2, RefusalFacts
<1>4. /\ status = "ok" => refusals = {}
      /\ chain' = [chain EXCEPT ![c] = new]
      /\ work' = IF cmd.format = "null" \/ status # "ok" THEN work
                 ELSE [work EXCEPT ![c] = out]
      /\ motion' = IF cmd.format = "null" /\ cmd.motion # None /\ status = "ok"
                   THEN [motion EXCEPT ![cmd.motion] = c] ELSE motion
  BY DEF Attempt
<1>5. /\ old \in Chains /\ chain \in [Callers -> Chains]
      /\ work \in [Callers -> Files] /\ motion \in [Paths -> Callers \cup {None}]
  BY <1>1 DEF EditTypeOK
<1>6. stabilizes => path \in {c, Shared} /\ cmd.motion = path
  BY DEF Proper
<1>7. cmd.motion # None => cmd.motion \in {c, Shared}
  BY DEF Proper
<1>8. cmd \in Tried /\ path \in Paths \cup {None}
  BY DEF Proper
<1> HIDE DEF x, refusals, out
<1>9. new \in Chains
  <2>1. stabilizes => motion[cmd.motion] \in Callers \cup {None}
    BY <1>5, <1>6 DEF Paths
  <2> HIDE DEF stabilizes
  <2>2. (old.parted \/ (status = "ok" /\ OneSided(cmd, x, second))) \in BOOLEAN
    BY <1>5 DEF Chains
  <2>3. QED BY <1>5, <1>8, <2>1, <2>2 DEF Chains
<1>10. EditTypeOK'
  <2>1. work' \in [Callers -> Files]
    BY <1>3, <1>4, <1>5
  <2>2. motion' \in [Paths -> Callers \cup {None}]
    BY <1>4, <1>5
  <2> HIDE DEF new
  <2>3. chain' \in [Callers -> Chains]
    BY <1>4, <1>5, <1>9
  <2>4. QED BY <2>1, <2>2, <2>3 DEF EditTypeOK
<1>11. OwnTransforms'
  <2> SUFFICES ASSUME NEW d \in Callers PROVE motion'[d] \in {None, d}
    BY DEF OwnTransforms
  <2>1. motion[d] \in {None, d} /\ d \in Paths /\ d # Shared
    BY CallersAssumption DEF EditInv, OwnTransforms, Paths
  <2>2. motion'[d] = motion[d] \/ (d = c /\ motion'[d] = c)
    BY <1>4, <1>5, <1>7, <2>1
  <2>3. QED BY <2>1, <2>2
<1>12. \A d \in Callers : chain'[d] = IF d = c THEN new ELSE chain[d]
  <2> HIDE DEF new
  <2>1. QED BY <1>4, <1>5
<1>13. OddEnds'
  <2> SUFFICES ASSUME NEW d \in Callers, chain'[d].odd # None
               PROVE  chain'[d].result # "running"
    BY DEF OddEnds
  <2>1. old.odd = None
    BY DEF EditInv, OddEnds
  <2>2. new.odd # None => new.result # "running"
    BY <2>1
  <2>3. chain[d].odd # None => chain[d].result # "running"
    BY DEF EditInv, OddEnds
  <2> HIDE DEF new
  <2>4. QED BY <1>12, <2>2, <2>3
<1>14. OwnMotion'
  <2> SUFFICES ASSUME NEW d \in Callers, chain'[d].asked = d
               PROVE  chain'[d].used = d
    BY DEF OwnMotion
  <2>1. chain[d].asked = d => chain[d].used = d
    BY DEF EditInv, OwnMotion
  <2>2. new.asked = c => new.used = c
    <3>1. CASE stabilizes
      <4>1. new.asked = path /\ new.used = motion[cmd.motion]
        BY <3>1
      <4>2. path = c => motion[c] \in {None, c} /\ motion[c] # None
        BY <1>3, <1>6, <3>1 DEF EditInv, OwnTransforms
      <4>3. QED BY <1>6, <3>1, <4>1, <4>2
    <3>2. CASE ~stabilizes
      <4>1. new.asked = old.asked /\ new.used = old.used
        BY <3>2
      <4>2. old.asked = c => old.used = c
        BY DEF EditInv, OwnMotion
      <4>3. QED BY <4>1, <4>2
    <3>3. QED BY <3>1, <3>2
  <2> HIDE DEF new
  <2>3. QED BY <1>12, <2>1, <2>2
<1>15. QED
  BY <1>10, <1>11, <1>13, <1>14

\* And then what it does to lengths and sizes.
LEMMA AttemptLengths ==
    ASSUME EditInv, NEW c \in Callers, NEW cmd, NEW path, NEW second,
           Proper(c, cmd, path, second), NEW status,
           chain[c].result = "running", Attempt(c, cmd, path, second, status)
    PROVE  InStep' /\ ComputedSizesEncode'
<1> DEFINE x == IF cmd.inputs = "images" THEN second ELSE work[c]
           refusals == Refusals(cmd, x, second)
           out == Output(cmd, x, second)
           old == chain[c]
           joins == cmd.graph # <<>>
           files == Sources \cup Images
<1>1. /\ chain \in [Callers -> Chains] /\ work \in [Callers -> Files]
      /\ c \in Callers
  BY DEF EditInv, EditTypeOK
<1>2. x \in Files /\ Editable(cmd) /\ (joins => second \in Files /\ second \in files)
  <2>1. work[c] \in Files
    BY <1>1
  <2>2. QED BY <2>1, FilesAssumption DEF Proper
<1>3. /\ status = "ok" => refusals = {}
      /\ status = "odd" => "odd" \in refusals
      /\ work' = IF cmd.format = "null" \/ status # "ok" THEN work
                 ELSE [work EXCEPT ![c] = out]
  BY DEF Attempt
<1>4. /\ \A d \in Callers : d # c => chain'[d] = chain[d] /\ work'[d] = work[d]
      /\ chain'[c].odd = IF status = "odd" THEN cmd ELSE old.odd
      /\ chain'[c].parted = (old.parted \/ (status = "ok" /\ OneSided(cmd, x, second)))
  BY <1>1 DEF Attempt
<1>5. old.odd = None
  BY DEF EditInv, OddEnds
<1>6. /\ refusals = {} => ~Missing(cmd, x, second)
      /\ "odd" \in refusals =>
             /\ ~Missing(cmd, x, second) /\ Has(out, "video")
             /\ cmd.format = "av" /\ ~Even(out)
  BY <1>2, RefusalFacts
<1>7. ~Missing(cmd, x, second) =>
          /\ /\ Together(x) /\ (joins => Together(second))
             /\ ~OneSided(cmd, x, second) /\ cmd.format # "null"
             => Together(out)
          /\ /\ Even(x) /\ (joins => Even(second)) /\ Has(out, "video")
             /\ cmd.format = "av" /\ ~GivenOddSide(cmd)
             => Even(out)
  BY <1>2, OutputFacts
<1>8. x = work[c] \/ x \in files
  BY DEF Proper
<1> HIDE DEF refusals, out, old, x
<1>9. InStep'
  <2> SUFFICES ASSUME \A file \in files : Together(file), NEW d \in Callers,
                      ~chain'[d].parted
               PROVE  Together(work'[d])
    BY DEF InStep
  <2>1. chain[d].parted \/ Together(work[d])
    BY DEF EditInv, InStep
  <2>2. CASE d # c \/ cmd.format = "null" \/ status # "ok"
    <3>1. work'[d] = work[d]
      BY <1>3, <1>4, <2>2
    <3>2. ~chain[d].parted
      BY <1>4 DEF old
    <3>3. QED BY <2>1, <3>1, <3>2
  <2>3. CASE d = c /\ cmd.format # "null" /\ status = "ok"
    <3>1. ~old.parted /\ ~OneSided(cmd, x, second)
      BY <1>4, <2>3
    <3>2. Together(x)
      BY <1>8, <2>1, <2>3, <3>1 DEF old
    <3>3. joins => Together(second)
      BY <1>2
    <3>4. Together(out)
      BY <1>3, <1>6, <1>7, <2>3, <3>1, <3>2, <3>3
    <3>5. work'[d] = out
      BY <1>1, <1>3, <2>3
    <3>6. QED BY <3>4, <3>5
  <2>4. QED BY <2>2, <2>3
<1>10. ComputedSizesEncode'
  <2> SUFFICES ASSUME \A file \in files : Even(file), NEW d \in Callers,
                      chain'[d].odd # None, Even(work'[d])
               PROVE  GivenOddSide(chain'[d].odd)
    BY DEF ComputedSizesEncode
  <2>1. CASE d # c
    BY <1>4, <2>1 DEF EditInv, ComputedSizesEncode
  <2>2. CASE d = c
    <3>1. status = "odd" /\ chain'[d].odd = cmd
      BY <1>4, <1>5, <2>2
    <3>2. work'[d] = work[c]
      BY <1>3, <2>2, <3>1
    <3>3. Even(x) /\ (joins => Even(second))
      BY <1>2, <1>8, <3>2
    <3>4. /\ ~Missing(cmd, x, second) /\ Has(out, "video") /\ cmd.format = "av"
          /\ ~Even(out)
      BY <1>3, <1>6, <3>1
    <3>5. GivenOddSide(cmd)
      BY <1>7, <3>3, <3>4
    <3>6. QED BY <3>1, <3>5
  <2>3. QED BY <2>1, <2>2
<1>11. QED
  BY <1>9, <1>10

\* Every step keeps the invariant.
LEMMA ExecuteKeeps ==
    ASSUME EditInv, NEW c \in Callers, NEW cmd, NEW path, NEW second,
           Proper(c, cmd, path, second), Execute(c, cmd, path, second)
    PROVE  EditInv'
<1>1. EditTypeOK
  BY DEF EditInv
<1>2. chain[c].result = "running" /\ \E status : Attempt(c, cmd, path, second, status)
  BY <1>1, ExecuteAttempts
<1>3. PICK status : Attempt(c, cmd, path, second, status)
  BY <1>2
<1>4. EditTypeOK' /\ OwnTransforms' /\ OddEnds' /\ OwnMotion'
  BY <1>2, <1>3, AttemptTypes
<1>5. InStep' /\ ComputedSizesEncode'
  BY <1>2, <1>3, AttemptLengths
<1>6. QED
  BY <1>4, <1>5 DEF EditInv

\* A report says how the chain ended.
LEMMA ReportKeeps ==
    ASSUME EditInv, NEW c \in Callers, Report(c)
    PROVE  EditInv'
<1>1. /\ work' = work /\ motion' = motion /\ chain \in [Callers -> Chains]
      /\ chain' = [chain EXCEPT ![c].result = "done"]
  BY DEF EditInv, EditTypeOK, Report
<1>2. \A d \in Callers :
          /\ chain'[d] \in Chains
          /\ chain'[d].odd = chain[d].odd /\ chain'[d].asked = chain[d].asked
          /\ chain'[d].used = chain[d].used /\ chain'[d].parted = chain[d].parted
          /\ chain[d].result # "running" => chain'[d].result # "running"
  BY <1>1 DEF Chains
<1>3. EditTypeOK'
  BY <1>1, <1>2 DEF EditInv, EditTypeOK
<1>4. OwnTransforms' /\ OwnMotion'
  BY <1>1, <1>2 DEF EditInv, OwnTransforms, OwnMotion
<1>5. OddEnds'
  BY <1>2 DEF EditInv, OddEnds
<1>6. InStep'
  BY <1>1, <1>2 DEF EditInv, InStep
<1>7. ComputedSizesEncode'
  BY <1>1, <1>2 DEF EditInv, ComputedSizesEncode
<1>8. QED
  BY <1>3, <1>4, <1>5, <1>6, <1>7 DEF EditInv

\* It holds of new chains.
LEMMA EditInvInit == EditInit => EditInv
<1> SUFFICES ASSUME EditInit PROVE EditInv
  OBVIOUS
<1>1. \A c \in Callers : /\ work[c] \in Sources /\ motion[c] = None
                         /\ chain[c] = NewChain
  BY StartsAssumption DEF EditInit
<1>2. NewChain \in Chains /\ NewChain.odd = None /\ NewChain.asked = None
  BY DEF NewChain, Chains
<1>3. EditTypeOK
  BY <1>1, <1>2, FilesAssumption, StartsAssumption DEF EditInit, EditTypeOK, Paths
<1>4. OwnTransforms /\ OddEnds
  BY <1>1, <1>2 DEF OwnTransforms, OddEnds
<1>5. OwnMotion
  BY <1>1, <1>2, CallersAssumption DEF OwnMotion
<1>6. InStep /\ ComputedSizesEncode
  BY <1>1, <1>2 DEF InStep, ComputedSizesEncode
<1>7. QED
  BY <1>3, <1>4, <1>5, <1>6 DEF EditInv

\* And of every step of every caller.
LEMMA EditInvStep == EditInv /\ [EditNext]_editVars => EditInv'
<1> SUFFICES ASSUME EditInv, [EditNext]_editVars PROVE EditInv'
  OBVIOUS
<1>1. ASSUME NEW c \in Callers, Edit(c) PROVE EditInv'
  <2>1. PICK cmd \in Commands[c] :
            \E second \in Seconds(cmd) : Execute(c, cmd, None, second)
    BY <1>1 DEF Edit
  <2>2. PICK second \in Seconds(cmd) : Execute(c, cmd, None, second)
    BY <2>1
  <2>3. Proper(c, cmd, None, second)
    BY RegularProper
  <2>4. QED BY <2>2, <2>3, ExecuteKeeps
<1>2. ASSUME NEW c \in Callers, Stabilization(c) PROVE EditInv'
  <2>1. PICK path \in {c, Shared} :
            \/ Execute(c, DetectVideoStabilization(path), path, None)
            \/ Execute(c, StabilizeVideo(path), path, None)
    BY <1>2 DEF Stabilization
  <2>2. \A cmd \in {DetectVideoStabilization(path), StabilizeVideo(path)} :
            Proper(c, cmd, path, None)
    BY StabilizationProper
  <2>3. QED BY <2>1, <2>2, ExecuteKeeps
<1>3. ASSUME NEW c \in Callers, Report(c) PROVE EditInv'
  BY <1>3, ReportKeeps
<1>4. CASE UNCHANGED editVars
  BY <1>4 DEF editVars, EditInv, EditTypeOK, OwnTransforms, OddEnds, InStep,
              OwnMotion, ComputedSizesEncode
<1>5. QED
  BY <1>1, <1>2, <1>3, <1>4 DEF EditNext

\* The files that chains reach are files, a chain is what NewChain says, and
\* transforms are those of a caller (BaseEditor.execute, CommandRunner.run).
THEOREM EditTypes == EditSpec => []EditTypeOK
<1>1. EditInv => EditTypeOK
  BY DEF EditInv
<1>2. QED
  BY EditInvInit, EditInvStep, <1>1, PTL DEF EditSpec

\* Whatever chain of operations a caller runs, with whatever times, counts and
\* speeds, on files of whatever length, sound and picture stay in step, but for
\* the operations that are said to touch one of them (editor/video, editor/audio).
THEOREM ChainsInStep == EditSpec => []InStep
<1>1. EditInv => InStep
  BY DEF EditInv
<1>2. QED
  BY EditInvInit, EditInvStep, <1>1, PTL DEF EditSpec

\* However many callers stabilize at a time, one that names a transforms file
\* of its own gets its own motion (DetectVideoStabilization, StabilizeVideo).
THEOREM TransformsOwned == EditSpec => []OwnMotion
<1>1. EditInv => OwnMotion
  BY DEF EditInv
<1>2. QED
  BY EditInvInit, EditInvStep, <1>1, PTL DEF EditSpec

\* A command that is refused for an odd frame was given an odd side, whatever
\* the even size of the video before it (editor/video/geometry, frames).
THEOREM SizesEncode == EditSpec => []ComputedSizesEncode
<1>1. EditInv => ComputedSizesEncode
  BY DEF EditInv
<1>2. QED
  BY EditInvInit, EditInvStep, <1>1, PTL DEF EditSpec
=============================================================================
