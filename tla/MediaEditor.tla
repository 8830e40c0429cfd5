------------------------------ MODULE MediaEditor ------------------------------
(***************************************************************************)
(* Callers of kyrg.editor run chains of operations: each operation reads   *)
(* the file the one before it wrote, some read a second file, and every    *)
(* one is an ffmpeg run through CommandRunner.  ffmpeg is external: what   *)
(* it does to the streams of a file.  Subtitle streams are not modelled.   *)
(***************************************************************************)
EXTENDS MediaCommands, SequencesExt

CONSTANTS
    Callers,   \* chains that run at the same time
    Sources,   \* the files there are before
    Starts,    \* the choices of those that the callers begin with
    Images,    \* image sequences, as the video they make
    Commands,  \* caller -> the commands it may run
    MaxEdits,  \* bound on the length of a chain
    KeyEvery   \* distance of key frames, in ticks

Has(file, stream) == file[stream] # None

\* What a file holds: how long its streams are, and the size of its frames.
Files ==
    {f \in [video : Optional(Nat), size : Nat \X Nat, audio : Optional(Nat)] :
        Has(f, "video") => 0 \notin {f.size[1], f.size[2]}}

ASSUME BoundsAssumption == MaxEdits \in Nat /\ KeyEvery \in Nat \ {0}
ASSUME FilesAssumption == Sources \cup Images \subseteq Files
ASSUME StartsAssumption == Starts \subseteq [Callers -> Sources]
ASSUME CallersAssumption == Shared \notin Callers /\ None \notin Callers
ASSUME CommandsAssumption == Commands \in [Callers -> SUBSET EditorCommands]

VARIABLES
    work,    \* caller -> the file its last operation wrote
    motion,  \* transforms file -> the caller whose video it describes
    chain    \* caller -> how its chain goes

editVars == <<work, motion, chain>>

File(video, size, audio) ==
    [video |-> video, size |-> size, audio |-> audio]

NewChain == [steps |-> 0, result |-> "running",
             odd |-> None,       \* history: the command of a frame of odd size
             asked |-> None,     \* history: the last transforms asked for,
             used |-> None,      \* and whose motion they held
             parted |-> FALSE]   \* history: a stream may outlast the other

EditInit ==
    /\ work \in Starts
    /\ motion = [p \in Callers \cup {Shared} |-> None]
    /\ chain = [c \in Callers |-> NewChain]

-----------------------------------------------------------------------------
(* ffmpeg                                                                   *)

Less(a, b) == IF a < b THEN a ELSE b
More(a, b) == IF a < b THEN b ELSE a
Minus(a, b) == More(a - b, 0)
Rounded(a, b) == (2 * a + b) \div (2 * b)
Length(d) == IF d = None THEN 0 ELSE d
IfAny(d, length) == IF d = None THEN None ELSE length
Timing(file, video, audio) ==
    [file EXCEPT !.video = IfAny(@, video), !.audio = IfAny(@, audio)]

\* -stream_loop, and -ss before the input: a copy starts at a key frame.
Opened(cmd, file) ==
    LET start == IF cmd.copy THEN cmd.seek - (cmd.seek % KeyEvery) ELSE cmd.seek
        before == cmd.loops * More(Length(file.video), Length(file.audio))
    IN  Timing(file, Minus(before + Length(file.video), start),
                     Minus(before + Length(file.audio), start))

Scaled(size, w, h) ==
    CASE h = -1 -> <<w, Rounded(size[2] * w, size[1])>>
      [] h = -2 -> <<w, 2 * Rounded(size[2] * w, 2 * size[1])>>
      [] w = -2 -> <<2 * Rounded(size[1] * h, 2 * size[2]), h>>
      [] h > 0 /\ w > 0 -> <<w, h>>

\* A frame that cannot be made has size <<0, 0>>.
Framed(size, f) ==
    CASE f[1] = "scale" -> Scaled(size, f[2], f[3])
      [] f[1] = "crop" -> IF f[2] <= size[1] /\ f[3] <= size[2]
                          THEN <<f[2], f[3]>> ELSE <<0, 0>>
      [] f[1] = "pad" -> IF f[2] >= size[1] /\ f[3] >= size[2]
                         THEN <<f[2], f[3]>> ELSE <<0, 0>>
      [] f[1] = "transpose" -> <<size[2], size[1]>>
      [] OTHER -> size

Trimmed(length, start, end, duration) ==
    LET stop == Less(IF end = None THEN length ELSE end,
                     IF duration = None THEN length ELSE start + duration)
    IN  Minus(Less(stop, length), start)

Timed(length, f) ==
    CASE f[1] \in {"setpts", "atempo"} -> (length * f[2][2]) \div f[2][1]
      [] f[1] \in {"tpad", "apad", "adelay", "aecho"} -> length + f[2]
      [] f[1] = "silenceremove" -> Minus(length, f[2])
      [] f[1] = "atrim" -> Trimmed(length, f[2], f[3], f[4])
      [] OTHER -> length

Filtered(cmd, file) ==
    [Timing(file, FoldLeft(Timed, Length(file.video), cmd.vf),
                  FoldLeft(Timed, Length(file.audio), cmd.af))
        EXCEPT !.size = IF Has(file, "video") THEN FoldLeft(Framed, @, cmd.vf) ELSE @]

Equal(a, b) == IF a = b THEN a ELSE 0
Beside(stack, a, b) ==
    CASE stack = "hstack" -> <<a[1] + b[1], Equal(a[2], b[2])>>
      [] stack = "vstack" -> <<Equal(a[1], b[1]), a[2] + b[2]>>
      [] stack = "xstack" -> <<a[1] + b[1], More(a[2], b[2])>>

Mixed(g, a, b) ==
    CASE g[1] = "acrossfade" -> Minus(a + b, g[2])
      [] g[1] = "aconcat" -> a + b
      [] g[1] = "amerge" -> Less(a, b)
      [] g[1] = "amix" -> CASE g[2] = "longest" -> More(a, b)
                            [] g[2] = "shortest" -> Less(a, b)
                            [] g[2] = "first" -> a

\* The input whose picture ffmpeg selects: the larger, or the first of equals.
Pixels(file) == file.size[1] * file.size[2]
Picture(x, y) ==
    IF Has(y, "video") /\ (Has(x, "video") => Pixels(y) > Pixels(x)) THEN y ELSE x

\* Two inputs; more are joined two at a time.
Joined(cmd, x, y) ==
    LET g == cmd.graph
        silent == "audio" \in cmd.drop
        first == IF silent THEN x.video ELSE More(x.video, x.audio)
    IN  CASE g[1] = "concat" ->
               File(first + y.video, IF x.size = y.size THEN x.size ELSE <<0, 0>>,
                    IF silent THEN None ELSE first + y.audio)
          [] g[1] = "xfade" ->
               File(IF x.video >= g[2] + g[3] THEN g[3] + y.video ELSE x.video,
                    IF x.size = y.size THEN x.size ELSE <<0, 0>>,
                    Minus(x.audio + y.audio, g[2]))
          [] g[1] \in {"hstack", "vstack", "xstack"} ->
               File(More(x.video, y.video), Beside(g[1], x.size, y.size),
                    IF Has(x, "audio") THEN x.audio ELSE y.audio)
          [] g[1] = "overlay" -> File(More(x.video, y.video), x.size, x.audio)
          [] g[1] = "tracks" -> File(x.video, x.size, y.audio)
          [] OTHER -> File(Picture(x, y).video, Picture(x, y).size,
                           Mixed(g, x.audio, y.audio))

\* -ss, -to and -t of the output (-t wins), -shortest, -vn and -an, and the
\* streams that the format of the output has.
Written(cmd, file) ==
    LET most == IF cmd.limit # None THEN cmd.limit
                ELSE IfAny(cmd.to, Minus(cmd.to, cmd.from))
        rest(d) == Minus(d, cmd.from)
        part(d) == IF most = None THEN rest(d) ELSE Less(rest(d), most)
        both == Less(Length(file.video), Length(file.audio))
        cut == IF cmd.short THEN Timing(file, both, both)
               ELSE Timing(file, part(Length(file.video)), part(Length(file.audio)))
        video == IF "video" \in cmd.drop \/ cmd.format = "audio" THEN None
                 ELSE IfAny(cut.video, IF cmd.format = "image" THEN 0 ELSE cut.video)
    IN  [cut EXCEPT
            !.video = video,
            !.size = IF video = None THEN <<0, 0>> ELSE @,
            !.audio = IF "audio" \in cmd.drop \/ cmd.format \in {"image", "gif"}
                      THEN None ELSE @]

Output(cmd, x, y) ==
    Written(cmd, IF cmd.graph # <<>> THEN Joined(cmd, x, y)
                 ELSE Filtered(cmd, Opened(cmd, x)))

\* A stream that a filter graph or a -map names is not there.
Missing(cmd, x, y) ==
    IF cmd.inputs = "video_audio" THEN ~Has(x, "video") \/ ~Has(y, "audio")
    ELSE \E s \in cmd.need : ~Has(x, s) \/ (cmd.graph # <<>> /\ ~Has(y, s))

\* Why ffmpeg refuses a command; libx264 writes frames of even size only.
Refusals(cmd, x, y) ==
    IF Missing(cmd, x, y) THEN {"stream"}
    ELSE LET out == Output(cmd, x, y)
         IN  {r \in {"empty", "size", "odd", "motion"} :
                 CASE r = "empty" -> ~Has(out, "video") /\ ~Has(out, "audio")
                   [] r = "size" -> Has(out, "video") /\ 0 \in {out.size[1], out.size[2]}
                   [] r = "odd" -> /\ Has(out, "video") /\ cmd.format = "av" /\ ~cmd.copy
                                   /\ 1 \in {out.size[1] % 2, out.size[2] % 2}
                   [] r = "motion" -> /\ cmd.name = "StabilizeVideo"
                                      /\ motion[cmd.motion] = None}

-----------------------------------------------------------------------------
\* The second file of a command, by its context class.
Seconds(cmd) ==
    CASE cmd.inputs \in {"multi", "video_audio", "overlay"} -> Sources
      [] cmd.inputs = "images" -> Images
      [] cmd.inputs = "media" -> {None}

\* The commands of editor/audio that change the length of a sound: written to
\* the path of a video, it is no longer that of the picture.
SoundTimings == {"RemoveSilence", "AddEcho", "DelayAudio", "PadAudio", "TrimAudio",
                 "ChangeAudioSpeed"}

\* The commands that may leave one stream longer than the other.
OneSided(cmd, x, y) ==
    \/ cmd.name = "FreezeLastFrame"
    \/ cmd.name \in SoundTimings /\ cmd.format = "av" /\ Has(x, "video")
    \/ /\ cmd.format = "av" /\ cmd.graph # <<>> /\ Has(Picture(x, y), "video")
       /\ \/ cmd.name = "MixAudios" /\ x.audio # y.audio
          \/ cmd.name = "CrossFadeAudios"
    \/ cmd.graph # <<>> /\
       \/ cmd.graph[1] = "overlay" /\ y.video > x.video
       \/ cmd.graph[1] \in {"hstack", "vstack", "xstack"} /\ x.video # y.video
       \/ cmd.graph[1] = "xfade" /\ cmd.graph[2] + cmd.graph[3] # x.video

\* CommandRunner.run with check=True: an exit status other than 0 is raised,
\* the caller's chain ends, and what the file holds is of no use.
Run(c, cmd, after, status) ==
    chain' = [chain EXCEPT ![c] =
        IF status = "ok" THEN after
        ELSE [after EXCEPT !.result = "raised",
                           !.odd = IF status = "odd" THEN cmd ELSE @]]

\* BaseEditor.execute; the path is that of the transforms, if any.
Execute(c, cmd, path, second) ==
    LET x == IF cmd.inputs = "images" THEN second ELSE work[c]
        refusals == Refusals(cmd, x, second)
        statuses == refusals \cup {"killed"} \cup IF refusals = {} THEN {"ok"} ELSE {}
        stabilizes == cmd.name = "StabilizeVideo" /\ refusals = {}
    IN  /\ chain[c].result = "running" /\ chain[c].steps < MaxEdits
        /\ \E status \in statuses :
               /\ Run(c, cmd,
                      [chain[c] EXCEPT
                         !.steps = @ + 1,
                         !.asked = IF stabilizes THEN path ELSE @,
                         !.used = IF stabilizes THEN motion[cmd.motion] ELSE @,
                         !.parted = @ \/ (status = "ok" /\ OneSided(cmd, x, second))],
                      status)
               /\ work' = IF cmd.format = "null" \/ status # "ok" THEN work
                          ELSE [work EXCEPT ![c] = Output(cmd, x, second)]
               /\ motion' = IF cmd.format = "null" /\ cmd.motion # None /\ status = "ok"
                            THEN [motion EXCEPT ![cmd.motion] = c] ELSE motion

Edit(c) ==
    \E cmd \in Commands[c] : \E second \in Seconds(cmd) :
        Execute(c, cmd, None, second)

\* Stabilization takes two commands, and the file between them may be shared.
Stabilization(c) ==
    \E path \in {c, Shared} :
        \/ Execute(c, DetectVideoStabilization(path), path, None)
        \/ Execute(c, StabilizeVideo(path), path, None)

\* A caller that has raised nothing reports its file.
Report(c) ==
    /\ chain[c].result = "running" /\ chain[c].steps > 0
    /\ chain' = [chain EXCEPT ![c].result = "done"]
    /\ UNCHANGED <<work, motion>>

EditNext == \E c \in Callers : Edit(c) \/ Stabilization(c) \/ Report(c)

EditSpec == EditInit /\ [][EditNext]_editVars

-----------------------------------------------------------------------------
\* Sound and picture stay in step through every chain of operations on files
\* in step, but for the ones that are said to touch one of them: a frozen last
\* frame, an overlay or a stack of a longer video, a crossfade that does not end
\* the first video (editor/video: timing, cutting, composition, overlays, streams),
\* and, when the caller has them write a video, a sound that is cut, stretched,
\* delayed or padded and a mix of sounds of different lengths (editor/audio:
\* timing, cleanup, effects, mixing).
Together(file) ==
    Has(file, "video") /\ Has(file, "audio") => file.video = file.audio

InStep ==
    (\A file \in Sources \cup Images : Together(file)) =>
        \A c \in Callers : chain[c].parted \/ Together(work[c])

\* A caller that names a transforms file of its own is never stabilized with
\* the motion of another's video (DetectVideoStabilization, StabilizeVideo).
OwnMotion ==
    \A c \in Callers :
        chain[c].asked = c => chain[c].used = c

\* A size that the editor computes can be encoded: where files have frames of
\* even size, libx264 is asked for an odd one only by an operation that was
\* given an odd width or height (editor/video/geometry, frames).
Even(file) == file.size[1] % 2 = 0 /\ file.size[2] % 2 = 0

GivenOddSide(cmd) ==
    \E i \in DOMAIN cmd.vf :
        /\ cmd.vf[i][1] \in {"scale", "crop", "pad"}
        /\ \E side \in {cmd.vf[i][2], cmd.vf[i][3]} : side > 0 /\ side % 2 = 1

ComputedSizesEncode ==
    (\A file \in Sources \cup Images : Even(file)) =>
        \A c \in Callers :
            chain[c].odd # None /\ Even(work[c]) => GivenOddSide(chain[c].odd)
=============================================================================
