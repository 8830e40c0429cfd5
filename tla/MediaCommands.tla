----------------------------- MODULE MediaCommands -----------------------------
(***************************************************************************)
(* kyrg.editor: every class builds the command line of one ffmpeg run.  A  *)
(* command is what its arguments say about streams, time and frame size;   *)
(* a filter is its name with the arguments that change these, and other    *)
(* options (gains, frequencies, codecs, colours, texts) are left out.      *)
(* Times are in ticks, a speed is a fraction <<num, den>>.                 *)
(***************************************************************************)
EXTENDS Integers, Sequences

CONSTANTS
    None,
    Shared,  \* transforms.trf, the default path of transforms
    Ticks,   \* bound: the times and counts that a caller may give
    Speeds,  \* bound: the speeds
    Sides    \* bound: the widths and heights

ASSUME ArgumentsAssumption ==
    /\ Ticks \subseteq Nat /\ None \notin Int
    /\ Speeds \subseteq (Nat \ {0}) \X (Nat \ {0})
    /\ Sides \subseteq Nat \ {0}

Cmd(name) ==
    [name   |-> name,
     inputs |-> "media",   \* the context class
     seek   |-> 0,         \* -ss before the input
     loops  |-> 0,         \* -stream_loop
     from   |-> 0,         \* -ss after the input
     to     |-> None,      \* -to
     limit  |-> None,      \* -t
     vf     |-> <<>>,      \* -vf
     af     |-> <<>>,      \* -af
     graph  |-> <<>>,      \* -filter_complex, or -map from two inputs
     need   |-> {},        \* streams that are mapped by name
     drop   |-> {},        \* -vn, -an, or what -map leaves out
     copy   |-> FALSE,     \* -c copy, -c:v copy
     short  |-> FALSE,     \* -shortest
     motion |-> None,      \* file of stabilization transforms
     format |-> "av"]      \* what the output path or -f asks for

Vf(name, filters) == [Cmd(name) EXCEPT !.vf = filters]
Af(name, filters) == [Cmd(name) EXCEPT !.af = filters]
Graph(name, inputs, graph) ==
    [Cmd(name) EXCEPT !.inputs = inputs, !.graph = graph]
Null(cmd) == [cmd EXCEPT !.format = "null"]

-----------------------------------------------------------------------------
(* editor/audio                                                             *)

AnalyzeVolume == Null(Af("AnalyzeVolume", <<<<"volumedetect">>>>))
AnalyzeAudioStats == Null(Af("AnalyzeAudioStats", <<<<"astats">>>>))

RemoveSilence(cut) == Af("RemoveSilence", <<<<"silenceremove", cut>>>>)
DetectSilence == Null(Af("DetectSilence", <<<<"silencedetect">>>>))
ReduceNoise == Af("ReduceNoise", <<<<"afftdn">>>>)
DeClickAudio == Af("DeClickAudio", <<<<"adeclick">>>>)
DeClipAudio == Af("DeClipAudio", <<<<"adeclip">>>>)

ToAudio(name) == [Cmd(name) EXCEPT !.drop = {"video"}]
ExtractAudio == ToAudio("ExtractAudio")
ConvertAudio == ToAudio("ConvertAudio")
ConvertToWav == ToAudio("ConvertToWav")
ConvertToMp3 == ToAudio("ConvertToMp3")
ConvertToAac == ToAudio("ConvertToAac")
ConvertToWhisperFormat == ToAudio("ConvertToWhisperFormat")
ResampleAudio == Cmd("ResampleAudio")
ChangeAudioChannels == Cmd("ChangeAudioChannels")

ChangeVolume == Af("ChangeVolume", <<<<"volume">>>>)
NormalizeVolume == Af("NormalizeVolume", <<<<"loudnorm">>>>)
DynamicNormalize == Af("DynamicNormalize", <<<<"dynaudnorm">>>>)
CompressAudio == Af("CompressAudio", <<<<"acompressor">>>>)
LimitAudio == Af("LimitAudio", <<<<"alimiter">>>>)
GateAudio == Af("GateAudio", <<<<"agate">>>>)

AddEcho(delay) == Af("AddEcho", <<<<"aecho", delay>>>>)
TremoloAudio == Af("TremoloAudio", <<<<"tremolo">>>>)
VibratoAudio == Af("VibratoAudio", <<<<"vibrato">>>>)
ChorusAudio == Af("ChorusAudio", <<<<"chorus">>>>)
PhaserAudio == Af("PhaserAudio", <<<<"aphaser">>>>)
CrushAudio == Af("CrushAudio", <<<<"acrusher">>>>)

HighPassFilter == Af("HighPassFilter", <<<<"highpass">>>>)
LowPassFilter == Af("LowPassFilter", <<<<"lowpass">>>>)
BandPassFilter == Af("BandPassFilter", <<<<"bandpass">>>>)
BandRejectFilter == Af("BandRejectFilter", <<<<"bandreject">>>>)
EqualizeAudio == Af("EqualizeAudio", <<<<"equalizer">>>>)

\* Without -map ffmpeg adds the picture of an input, if there is one.
MixTracks(name, graph) == [Graph(name, "multi", graph) EXCEPT !.need = {"audio"}]
MapTrack(name, graph) == [MixTracks(name, graph) EXCEPT !.drop = {"video"}]
MixAudios(mode) == MixTracks("MixAudios", <<"amix", mode>>)
ConcatAudios == MapTrack("ConcatAudios", <<"aconcat">>)
MergeAudioChannels == MapTrack("MergeAudioChannels", <<"amerge">>)
PanAudio == Af("PanAudio", <<<<"pan">>>>)
BalanceStereo == Af("BalanceStereo", <<<<"pan">>>>)
MixVoiceWithMusic(mode) == MapTrack("MixVoiceWithMusic", <<"amix", mode>>)
DuckBackgroundMusic == MapTrack("DuckBackgroundMusic", <<"amix", "first">>)

TrimAudio(start, end, duration) ==
    Af("TrimAudio", <<<<"atrim", start, end, duration>>>>)
DelayAudio(delay) == Af("DelayAudio", <<<<"adelay", delay>>>>)
PadAudio(pad) == Af("PadAudio", <<<<"apad", pad>>>>)
LoopAudio(count, duration) ==
    [Cmd("LoopAudio") EXCEPT !.loops = count, !.limit = duration]
ChangeAudioSpeed(tempo) == Af("ChangeAudioSpeed", <<<<"atempo", tempo>>>>)
ReverseAudio == Af("ReverseAudio", <<<<"areverse">>>>)
FadeInAudio == Af("FadeInAudio", <<<<"afade">>>>)
FadeOutAudio == Af("FadeOutAudio", <<<<"afade">>>>)
CrossFadeAudios(duration) ==
    MixTracks("CrossFadeAudios", <<"acrossfade", duration>>)

-----------------------------------------------------------------------------
(* editor/video                                                             *)

AdjustVideoColor == Vf("AdjustVideoColor", <<<<"eq">>>>)
ConvertToGrayscale == Vf("ConvertToGrayscale", <<<<"format">>>>)
InvertVideoColors == Vf("InvertVideoColors", <<<<"negate">>>>)
BlurVideo == Vf("BlurVideo", <<<<"boxblur">>>>)
SharpenVideo == Vf("SharpenVideo", <<<<"unsharp">>>>)
DenoiseVideo == Vf("DenoiseVideo", <<<<"hqdn3d">>>>)
AddVignette == Vf("AddVignette", <<<<"vignette">>>>)

ConcatVideos ==
    [Graph("ConcatVideos", "multi", <<"concat">>) EXCEPT !.need = {"video", "audio"}]
ConcatVideosWithoutAudio ==
    [Graph("ConcatVideosWithoutAudio", "multi", <<"concat">>)
        EXCEPT !.need = {"video"}, !.drop = {"audio"}]
Stack(name, filter) == [Graph(name, "multi", <<filter>>) EXCEPT !.need = {"video"}]
StackVideosHorizontal == Stack("StackVideosHorizontal", "hstack")
StackVideosVertical == Stack("StackVideosVertical", "vstack")
GridVideos == Stack("GridVideos", "xstack")
CrossFadeVideos(duration, offset) ==
    [Graph("CrossFadeVideos", "multi", <<"xfade", duration, offset>>)
        EXCEPT !.need = {"video", "audio"}]

Copy(name) == [Cmd(name) EXCEPT !.copy = TRUE]
TranscodeVideo == Cmd("TranscodeVideo")
ConvertToMp4 == Cmd("ConvertToMp4")
ChangeVideoContainer == Copy("ChangeVideoContainer")
OptimizeVideoForWeb == Copy("OptimizeVideoForWeb")
CompressVideo == Cmd("CompressVideo")
SetVideoBitrate == Cmd("SetVideoBitrate")
SetPixelFormat == Cmd("SetPixelFormat")

TrimVideo(start, end, duration, copy) ==
    [Cmd("TrimVideo") EXCEPT !.seek = start, !.to = end, !.limit = duration,
                             !.copy = copy]
TrimVideoAccurate(start, end, duration) ==
    [Cmd("TrimVideoAccurate") EXCEPT !.from = start, !.to = end, !.limit = duration]
SplitVideoSegment(start, duration) ==
    [Copy("SplitVideoSegment") EXCEPT !.seek = start, !.limit = duration]

Still(name, timestamp, filters) ==
    [Vf(name, filters) EXCEPT !.seek = timestamp, !.format = "image"]
ExtractFrame(timestamp) == Still("ExtractFrame", timestamp, <<>>)
GenerateThumbnail(timestamp, width) ==
    Still("GenerateThumbnail", timestamp,
          IF width = None THEN <<>> ELSE <<<<"scale", width, -2>>>>)
ExtractFrames == Still("ExtractFrames", 0, <<<<"fps">>>>)
ExtractSceneFrames == Still("ExtractSceneFrames", 0, <<<<"select">>>>)
CreateVideoFromImages == [Cmd("CreateVideoFromImages") EXCEPT !.inputs = "images"]
ConvertVideoToGif(width) ==
    [Vf("ConvertVideoToGif", <<<<"fps">>, <<"scale", width, -1>>>>)
        EXCEPT !.format = "gif"]

ResizeVideo(width, height) == Vf("ResizeVideo", <<<<"scale", width, height>>>>)
\* Mutant: -1 for the other side.
ScaleVideoByWidthOdd(width) ==
    Vf("ScaleVideoByWidth", <<<<"scale", width, -1>>>>)

ScaleVideoByWidth(width) == Vf("ScaleVideoByWidth", <<<<"scale", width, -2>>>>)
ScaleVideoByHeight(height) == Vf("ScaleVideoByHeight", <<<<"scale", -2, height>>>>)
CropVideo(width, height) == Vf("CropVideo", <<<<"crop", width, height>>>>)
CenterCropVertical(width, height) ==
    Vf("CenterCropVertical", <<<<"scale", -2, height>>, <<"crop", width, height>>>>)
PadVideo(width, height) == Vf("PadVideo", <<<<"pad", width, height>>>>)
ChangeDisplayAspectRatio == Cmd("ChangeDisplayAspectRatio")
SetSampleAspectRatio == Vf("SetSampleAspectRatio", <<<<"setsar">>>>)
RotateVideo == Vf("RotateVideo", <<<<"rotate">>>>)
Rotate90Clockwise == Vf("Rotate90Clockwise", <<<<"transpose">>>>)
Rotate90CounterClockwise == Vf("Rotate90CounterClockwise", <<<<"transpose">>>>)
FlipVideoHorizontal == Vf("FlipVideoHorizontal", <<<<"hflip">>>>)
FlipVideoVertical == Vf("FlipVideoVertical", <<<<"vflip">>>>)

StripMetadata == Copy("StripMetadata")
AddVideoMetadata == Copy("AddVideoMetadata")

AddTextOverlay == Vf("AddTextOverlay", <<<<"drawtext">>>>)
Overlay(name) == [Graph(name, "overlay", <<"overlay">>) EXCEPT !.need = {"video"}]
AddWatermark == Overlay("AddWatermark")
OverlayImage == Overlay("OverlayImage")
PictureInPicture == Overlay("PictureInPicture")

DetectVideoStabilization(path) ==
    [Null(Vf("DetectVideoStabilization", <<<<"vidstabdetect">>>>)) EXCEPT !.motion = path]

\* Mutant: the path given is not passed on.
StabilizeByDefault(path) ==
    [Vf("StabilizeVideo", <<<<"vidstabtransform">>>>) EXCEPT !.motion = Shared]

StabilizeVideo(path) ==
    [Vf("StabilizeVideo", <<<<"vidstabtransform">>>>) EXCEPT !.motion = path]

SilentCopy(name) == [Copy(name) EXCEPT !.drop = {"audio"}]
RemoveVideoAudio == SilentCopy("RemoveVideoAudio")
ExtractVideoStream == SilentCopy("ExtractVideoStream")
WithTrack(name) ==
    [Graph(name, "video_audio", <<"tracks">>)
        EXCEPT !.need = {"video", "audio"}, !.copy = TRUE, !.short = TRUE]
ReplaceVideoAudio == WithTrack("ReplaceVideoAudio")
AddAudioToVideo == WithTrack("AddAudioToVideo")
ExtractVideoFrameAudioSafe ==
    [SilentCopy("ExtractVideoFrameAudioSafe") EXCEPT !.need = {"video"}]

AddSubtitles == Vf("AddSubtitles", <<<<"subtitles">>>>)
AddStyledSubtitles == Vf("AddStyledSubtitles", <<<<"subtitles">>>>)
EmbedSubtitles == Copy("EmbedSubtitles")
RemoveSubtitles == Copy("RemoveSubtitles")

ChangeFrameRate == Cmd("ChangeFrameRate")
ChangeVideoSpeed(speed) ==
    [Vf("ChangeVideoSpeed", <<<<"setpts", speed>>>>) EXCEPT !.drop = {"audio"}]

\* Mutant: the sound keeps its tempo.
ChangePictureSpeed(speed) ==
    [Vf("ChangePlaybackSpeed", <<<<"setpts", speed>>>>)
        EXCEPT !.need = {"video", "audio"}]

ChangePlaybackSpeed(speed) ==
    [Vf("ChangePlaybackSpeed", <<<<"setpts", speed>>>>)
        EXCEPT !.af = <<<<"atempo", speed>>>>, !.need = {"video", "audio"}]
ReverseVideo(reverseAudio) ==
    [Vf("ReverseVideo", <<<<"reverse">>>>)
        EXCEPT !.af = IF reverseAudio THEN <<<<"areverse">>>> ELSE <<>>,
               !.drop = IF reverseAudio THEN {} ELSE {"audio"}]
LoopVideo(count, duration) ==
    [Copy("LoopVideo") EXCEPT !.loops = count, !.limit = duration]
FreezeLastFrame(duration) == Vf("FreezeLastFrame", <<<<"tpad", duration>>>>)
FadeInVideo == Vf("FadeInVideo", <<<<"fade">>>>)
FadeOutVideo == Vf("FadeOutVideo", <<<<"fade">>>>)
-----------------------------------------------------------------------------
(* Every command with every argument, but for the two that stabilize: these *)
(* take the name of a file that other commands do not know.                 *)

Optional(args) == args \cup {None}
MixModes == {"longest", "first", "shortest"}

PlainAudioCommands ==
    {AnalyzeVolume, AnalyzeAudioStats, DetectSilence, ReduceNoise, DeClickAudio,
     DeClipAudio, ExtractAudio, ConvertAudio, ConvertToWav, ConvertToMp3,
     ConvertToAac, ConvertToWhisperFormat, ResampleAudio, ChangeAudioChannels,
     ChangeVolume, NormalizeVolume, DynamicNormalize, CompressAudio, LimitAudio,
     GateAudio, TremoloAudio, VibratoAudio, ChorusAudio, PhaserAudio, CrushAudio,
     HighPassFilter, LowPassFilter, BandPassFilter, BandRejectFilter,
     EqualizeAudio, PanAudio, BalanceStereo, ReverseAudio, FadeInAudio, FadeOutAudio}

AudioMixes ==
    {ConcatAudios, MergeAudioChannels, DuckBackgroundMusic}
    \cup (UNION {{MixAudios(mode), MixVoiceWithMusic(mode)} : mode \in MixModes})
    \cup {CrossFadeAudios(duration) : duration \in Ticks}

AudioTimings ==
    (UNION {{RemoveSilence(t), AddEcho(t), DelayAudio(t), PadAudio(t)} : t \in Ticks})
    \cup {TrimAudio(start, end, duration) :
             start \in Ticks, end \in Optional(Ticks), duration \in Optional(Ticks)}
    \cup {LoopAudio(count, duration) : count \in Ticks, duration \in Optional(Ticks)}
    \cup {ChangeAudioSpeed(tempo) : tempo \in Speeds}

\* The caller names the output path: that of a sound, or of a video, which keeps
\* the picture unless the command says otherwise.
OnPath(cmd, format) ==
    IF cmd.format = "null" THEN cmd ELSE [cmd EXCEPT !.format = format]

AudioCommands ==
    {OnPath(cmd, format) : cmd \in PlainAudioCommands \cup AudioMixes \cup AudioTimings,
                           format \in {"av", "audio"}}

PlainVideoCommands ==
    {AdjustVideoColor, ConvertToGrayscale, InvertVideoColors, BlurVideo,
     SharpenVideo, DenoiseVideo, AddVignette, TranscodeVideo, ConvertToMp4,
     ChangeVideoContainer, OptimizeVideoForWeb, CompressVideo, SetVideoBitrate,
     SetPixelFormat, ExtractFrames, ExtractSceneFrames, ChangeDisplayAspectRatio,
     SetSampleAspectRatio, RotateVideo, Rotate90Clockwise, Rotate90CounterClockwise,
     FlipVideoHorizontal, FlipVideoVertical, StripMetadata, AddVideoMetadata,
     AddTextOverlay, RemoveVideoAudio, ExtractVideoStream, AddSubtitles,
     AddStyledSubtitles, EmbedSubtitles, RemoveSubtitles, ChangeFrameRate,
     FadeInVideo, FadeOutVideo}

VideoJoins ==
    {ConcatVideos, ConcatVideosWithoutAudio, StackVideosHorizontal,
     StackVideosVertical, GridVideos, AddWatermark, OverlayImage, PictureInPicture,
     ReplaceVideoAudio, AddAudioToVideo, CreateVideoFromImages,
     ExtractVideoFrameAudioSafe}
    \cup {CrossFadeVideos(duration, offset) : duration \in Ticks, offset \in Ticks}

VideoSizings ==
    (UNION {{ScaleVideoByWidth(side), ScaleVideoByHeight(side),
            ConvertVideoToGif(side)} : side \in Sides})
    \cup (UNION {{ResizeVideo(width, height), CropVideo(width, height),
                 CenterCropVertical(width, height), PadVideo(width, height)} :
                     width \in Sides, height \in Sides})
    \cup {GenerateThumbnail(t, width) : t \in Ticks, width \in Optional(Sides)}

VideoTimings ==
    {ReverseVideo(reverseAudio) : reverseAudio \in BOOLEAN}
    \cup (UNION {{ExtractFrame(t), FreezeLastFrame(t)} : t \in Ticks})
    \cup (UNION {{ChangeVideoSpeed(speed), ChangePlaybackSpeed(speed)} : speed \in Speeds})
    \cup {LoopVideo(count, duration) : count \in Ticks, duration \in Optional(Ticks)}
    \cup {SplitVideoSegment(start, duration) : start \in Ticks, duration \in Ticks}

VideoTrims ==
    {TrimVideo(start, end, duration, copy) :
         start \in Ticks, end \in Optional(Ticks), duration \in Optional(Ticks),
         copy \in BOOLEAN}
    \cup {TrimVideoAccurate(start, end, duration) :
             start \in Ticks, end \in Optional(Ticks), duration \in Optional(Ticks)}

VideoCommands ==
    PlainVideoCommands \cup VideoJoins \cup VideoSizings \cup VideoTimings \cup VideoTrims

EditorCommands == AudioCommands \cup VideoCommands
=============================================================================
