-------------------------- MODULE ProcessorsProofs --------------------------
(***************************************************************************)
(* Proofs about one attempt at a request, for any set of forms.            *)
(***************************************************************************)
EXTENDS Processors, TLAPS

----------------------------------------------------------------------------
(* Requests.                                                               *)

\* A parameter left out because it is zero is read back as zero.
LEMMA StoredIsReadBack ==
    ASSUME NEW q, q = [f \in DOMAIN ZeroParams |-> q[f]]
    PROVE  ParseParams(StoredParams(q)) = q
BY DEF ParseParams, StoredParams

LEMMA ParsedForm ==
    ASSUME NEW f
    PROVE  /\ DOMAIN parseAndValidateParams(f) = DOMAIN ZeroParams
           /\ ParseParams(StoredParams(parseAndValidateParams(f)))
                = parseAndValidateParams(f)
<1>1. parseAndValidateParams(f) =
         [x \in DOMAIN ZeroParams |-> parseAndValidateParams(f)[x]]
  BY DEF parseAndValidateParams, ZeroParams
<1> QED
  BY <1>1, StoredIsReadBack

\* No table lists the empty extension.
LEMMA TablesHaveNames ==
    ASSUME NEW operation \in Operations
    PROVE  "" \notin inputFormats[operation] /\ "" \notin outputFormats[operation]
<1>1. "" \notin Images \cup Audio \cup Video \cup {"pdf"}
  BY DEF Images, Audio, Video
<1>2. /\ inputFormats[operation] \subseteq Images \cup Audio \cup Video \cup {"pdf"}
      /\ outputFormats[operation] \subseteq Images \cup Audio \cup Video \cup {"pdf"}
  <2>1. CASE operation \in {"image_convert", "image_compress", "image_remove_bg"}
    BY <2>1 DEF inputFormats, outputFormats, Images
  <2>2. CASE operation \in {"audio_convert", "audio_compress"}
    BY <2>2 DEF inputFormats, outputFormats
  <2>3. CASE operation \in {"pdf_compress", "video_compress"}
    BY <2>3 DEF inputFormats, outputFormats, Video
  <2> QED
    BY <2>1, <2>2, <2>3 DEF Operations
<1> QED
  BY <1>1, <1>2

LEMMA FormatIsNamed ==
    ASSUME NEW f, Accepts(f)
    PROVE  OutputFormat(f) # ""
<1>1. CASE f.operation \in {"image_compress", "audio_compress"}
  <2>1. normalizeExt(f.ext) # ""
    BY TablesHaveNames DEF Accepts, ValidInputFormat
  <2> QED
    BY <1>1, <2>1 DEF OutputFormat, DefaultFormat
<1>2. CASE f.operation \notin {"image_compress", "audio_compress"}
  <2>1. ValidOutputFormat(f.operation, OutputFormat(f))
    BY <1>2 DEF Accepts, OutputAccepted
  <2> QED
    BY <2>1, TablesHaveNames DEF Accepts, ValidOutputFormat, ValidInputFormat
<1> QED
  BY <1>1, <1>2

\* The numbers of an accepted form are within the bounds of its operation,
\* those it leaves out included.
LEMMA AcceptedNumbers ==
    ASSUME NEW f, Accepts(f), NEW q, q = parseAndValidateParams(f)
    PROVE  /\ q.output_format = OutputFormat(f)
           /\ q.quality \in 0..100 /\ q.image_quality \in 0..100
           /\ q.image_dpi \in {0} \cup DPIs
           /\ f.operation \in {"image_compress", "audio_compress",
                               "video_compress"} => q.quality > 0
           /\ f.operation = "pdf_compress" =>
                 q.image_dpi \in DPIs /\ q.image_quality > 0
<1>1. /\ q.output_format = OutputFormat(f)
      /\ q.quality = Number(f.quality, Default(f.operation))
      /\ q.image_dpi =
            Number(f.image_dpi, IF f.operation = "pdf_compress" THEN 150 ELSE 0)
      /\ q.image_quality =
            Number(f.image_quality, IF f.operation = "pdf_compress" THEN 75 ELSE 0)
  BY DEF parseAndValidateParams
<1>2. /\ f.quality \in {Absent} \cup 1..100
      /\ f.image_quality \in {Absent} \cup 1..100
      /\ f.image_dpi \in {Absent} \cup DPIs
  BY DEF Accepts, NumbersValid
<1>3. /\ Default(f.operation) \in 0..100
      /\ f.operation \in {"image_compress", "audio_compress", "video_compress"}
         => Default(f.operation) > 0
  BY DEF Default, DefaultQualities
<1> QED
  BY <1>1, <1>2, <1>3 DEF Number, Absent, DPIs

\* The type of a name does not depend on its spelling, and libvips writes
\* the format it is asked for, heic as heif.
LEMMA SpellingOfNames ==
    ASSUME NEW ext
    PROVE  /\ MimeForExtension(ToLower(ext)) = MimeForExtension(ext)
           /\ bimgType(ext) # "none" =>
                 SameFormat(MimeForExtension(ext),
                            MimeForExtension(bimgType(ext)))
<1>1. ToLower(ToLower(ext)) = ToLower(ext)
  BY DEF ToLower, Capitals
<1>2. MimeForExtension(ToLower(ext)) = MimeForExtension(ext)
  BY <1>1 DEF MimeForExtension, normalizeExt
<1>3. ASSUME bimgType(ext) # "none"
      PROVE  SameFormat(MimeForExtension(ext), MimeForExtension(bimgType(ext)))
  <2>1. ext \in {"jpeg", "jpg", "tiff", "tif", "heif", "heic", "png", "webp",
                 "gif", "avif"}
    BY <1>3 DEF bimgType, bimgTypes
  <2>2. CASE ext \in {"jpeg", "jpg"}
    BY <2>2 DEF bimgType, bimgTypes, SameFormat, MimeForExtension,
                normalizeExt, ToLower, Capitals, ShortNames, Images
  <2>3. CASE ext \in {"tiff", "tif"}
    BY <2>3 DEF bimgType, bimgTypes, SameFormat, MimeForExtension,
                normalizeExt, ToLower, Capitals, ShortNames, Images
  <2>4. CASE ext \in {"heif", "heic"}
    BY <2>4 DEF bimgType, bimgTypes, SameFormat, MimeForExtension,
                normalizeExt, ToLower, Capitals, ShortNames, Images
  <2>5. CASE ext \in {"png", "webp", "gif", "avif"}
    BY <2>5 DEF bimgType, bimgTypes, SameFormat
  <2> QED
    BY <2>1, <2>2, <2>3, <2>4, <2>5
<1> QED
  BY <1>2, <1>3

----------------------------------------------------------------------------
(* The invariant of an attempt.                                            *)

AttemptTyped ==
    /\ form \in Forms
    /\ step \in Tools \cup Final \cup {"submitted", "accepted", "stat"}
    /\ ended \in BOOLEAN /\ mishap \in BOOLEAN
    /\ scratch \in Contents /\ output.content \in Contents

AttemptInv == /\ AttemptTyped /\ ReadsBack
              /\ RightTool /\ WholeOrGivenUp /\ MishapNoted

\* What the worker reads back, at any time after the form was accepted.
LEMMA ParamsRead ==
    ASSUME ReadsBack, Attempted
    PROVE  /\ Accepts(form) /\ p = parseAndValidateParams(form)
           /\ DOMAIN p = DOMAIN ZeroParams
           /\ p.output_format = OutputFormat(form) /\ p.output_format # ""
           /\ OutExt = p.output_format
<1>1. Accepts(form) /\ p = parseAndValidateParams(form)
  BY ParsedForm DEF ReadsBack, p
<1>2. p.output_format = OutputFormat(form) /\ p.output_format # ""
  BY <1>1, AcceptedNumbers, FormatIsNamed
<1> QED
  BY <1>1, <1>2, ParsedForm DEF OutExt

\* The ways a tool that runs to its end, or is killed, leaves the output.
LEMMA ToolEnds ==
    ASSUME mishap \in BOOLEAN, NEW tool, NEW format, NEW next, NEW fallback,
           Succeed(tool, format, next) \/ Fail(tool, format, fallback)
    PROVE  /\ step = tool /\ UNCHANGED <<form, params, ended, scratch>>
           /\ \/ /\ step' = next /\ mishap' = mishap
                 /\ output' = [content |-> "whole", format |-> format]
              \/ step' = next /\ mishap' = TRUE /\ output' = NoFile
              \/ /\ step' = fallback /\ mishap' = TRUE
                 /\ output' \in {output, [content |-> "partial", format |-> format]}
BY DEF Succeed, Fail, Produce, Goto

\* A tool whose result goes to the worker's look at it keeps the invariant,
\* if its format and its fallback are the right ones.
LEMMA ToolKeeps ==
    ASSUME AttemptInv, NEW tool \in Tools, NEW format, NEW fallback,
           Succeed(tool, format, "stat") \/ Fail(tool, format, fallback),
           SameFormat(MimeForExtension(p.output_format),
                      MimeForExtension(format)),
           fallback \in Tools \cup {"retry"},
           step' = fallback => RightTool',
           fallback \in {"qpdf_optimized", "copy"} =>
              scratch \in {"none", "whole"}
    PROVE  AttemptInv'
<1>1. /\ step = tool /\ UNCHANGED <<form, params, ended, scratch>> /\ p' = p
      /\ \/ /\ step' = "stat" /\ mishap' = mishap
            /\ output' = [content |-> "whole", format |-> format]
         \/ step' = "stat" /\ mishap' = TRUE /\ output' = NoFile
         \/ /\ step' = fallback /\ mishap' = TRUE
            /\ output' \in {output, [content |-> "partial", format |-> format]}
  BY ToolEnds DEF AttemptInv, AttemptTyped, p
<1>2. /\ output'.content \in Contents /\ mishap' \in BOOLEAN
      /\ step' \in Tools \cup {"stat", "retry"}
  <2>1. /\ output.content \in Contents /\ mishap \in BOOLEAN
        /\ "none" \in Contents /\ "partial" \in Contents /\ "whole" \in Contents
    BY DEF AttemptInv, AttemptTyped, Contents
  <2>2. output'.content \in Contents
    <3>1. CASE output' = [content |-> "whole", format |-> format]
      BY <2>1, <3>1
    <3>2. CASE output' = NoFile
      BY <2>1, <3>2 DEF NoFile
    <3>3. CASE output' = output
      BY <2>1, <3>3
    <3>4. CASE output' = [content |-> "partial", format |-> format]
      BY <2>1, <3>4
    <3> QED
      BY <1>1, <3>1, <3>2, <3>3, <3>4
  <2>3. mishap' \in BOOLEAN
    BY <1>1, <2>1
  <2> QED
    BY <1>1, <2>2, <2>3
<1>3. AttemptTyped' /\ ReadsBack'
  <2>1. AttemptTyped'
    BY <1>1, <1>2 DEF AttemptInv, AttemptTyped, Final
  <2> QED
    BY <1>1, <2>1 DEF AttemptInv, ReadsBack, Attempted, Tools
<1>4. RightTool'
  BY <1>1 DEF RightTool
<1>5. WholeOrGivenUp'
  <2>1. CASE step' = "stat" /\ output' = [content |-> "whole", format |-> format]
    BY <1>1, <2>1 DEF WholeOrGivenUp
  <2>2. CASE step' = "stat" /\ output' = NoFile
    BY <1>1, <2>2 DEF WholeOrGivenUp, NoFile
  <2>3. CASE step' = fallback
    <3>1. step' \notin {"stat", "completed"}
      BY <2>3 DEF Tools
    <3> QED
      BY <1>1, <2>3, <3>1 DEF WholeOrGivenUp
  <2> QED
    BY <1>1, <2>1, <2>2, <2>3
<1>6. MishapNoted'
  <2>1. CASE /\ mishap' = mishap
             /\ output' = [content |-> "whole", format |-> format]
    BY <1>1, <2>1 DEF AttemptInv, MishapNoted
  <2>2. CASE mishap' = TRUE
    BY <2>2 DEF MishapNoted
  <2> QED
    BY <1>1, <2>1, <2>2
<1> QED
  BY <1>3, <1>4, <1>5, <1>6 DEF AttemptInv

\* A step that gives the attempt up.
LEMMA GivingUpKeeps ==
    ASSUME AttemptInv, step \in Tools,
           UNCHANGED <<form, params, ended, scratch, output, mishap>>,
           step' = "retry"
    PROVE  AttemptInv'
<1>1. AttemptTyped'
  BY DEF AttemptInv, AttemptTyped, Final
<1>2. ReadsBack'
  BY DEF AttemptInv, ReadsBack, Attempted, Tools
<1>3. RightTool' /\ WholeOrGivenUp' /\ MishapNoted'
  BY DEF AttemptInv, RightTool, WholeOrGivenUp, MishapNoted
<1> QED
  BY <1>1, <1>2, <1>3 DEF AttemptInv

LEMMA ToolsKeep ==
    ASSUME AttemptInv, Tool
    PROVE  AttemptInv'
<1> USE DEF Tools
<1>0. step \in Tools =>
         /\ Attempted /\ ReadsBack /\ RightTool /\ UNCHANGED <<form, params>>
         /\ p' = p
         /\ OutExt = p.output_format /\ p.output_format = OutputFormat(form)
  <2>1. UNCHANGED <<form, params>>
    BY DEF Tool, FFmpeg, Bimg, Optimize, Pngquant, Rembg, Ghostscript,
           QpdfOptimized, QpdfOriginal, QpdfMinimal, Copy, Command, Succeed,
           Fail, Produce, Unable
  <2> QED
    BY <2>1, ParamsRead DEF AttemptInv, Attempted, p
<1>1. CASE FFmpeg
  <2>1. CASE Unable("ffmpeg")
    BY <2>1, GivingUpKeeps DEF Unable, Goto
  <2>2. CASE Command("ffmpeg", OutExt, "stat", "retry")
    <3>1. step = "ffmpeg"
      BY <2>2 DEF Command, Succeed, Fail
    <3>2. SameFormat(MimeForExtension(p.output_format), MimeForExtension(OutExt))
      BY <1>0, <3>1 DEF SameFormat
    <3>3. step' = "retry" => RightTool'
      BY DEF RightTool
    <3> QED
      BY <2>2, <3>2, <3>3, ToolKeeps DEF Command
  <2> QED
    BY <1>1, <2>1, <2>2 DEF FFmpeg
<1>2. CASE Bimg
  <2>1. step = "bimg"
    BY <1>2 DEF Bimg, Succeed, Fail
  <2>2. SameFormat(MimeForExtension(p.output_format),
                   MimeForExtension(bimgType(p.output_format)))
    BY <1>0, <2>1, SpellingOfNames DEF RightTool
  <2>3. step' = "retry" => RightTool'
    BY DEF RightTool
  <2> QED
    BY <1>2, <2>2, <2>3, ToolKeeps DEF Bimg
<1>3. CASE Optimize \/ Pngquant
  <2>1. step \in {"optimize", "pngquant"}
    BY <1>3 DEF Optimize, Pngquant, Command, Succeed, Fail
  <2>2. form.operation = "image_compress" /\ p.output_format = "png"
    BY <1>0, <2>1 DEF RightTool
  <2>3. SameFormat(MimeForExtension(p.output_format), MimeForExtension("png"))
    BY <2>2 DEF SameFormat
  <2>4. step' \in {"retry", "optimize"} => RightTool'
    BY <1>0, <2>1, <2>2 DEF RightTool
  <2> QED
    BY <1>3, <2>3, <2>4, ToolKeeps DEF Optimize, Pngquant, Command
<1>4. CASE Rembg
  <2>1. step = "rembg"
    BY <1>4 DEF Rembg, Command, Succeed, Fail, Unable
  <2>2. SameFormat(MimeForExtension(p.output_format),
                   MimeForExtension(p.output_format))
    BY DEF SameFormat
  <2>3. step' = "retry" => RightTool'
    BY DEF RightTool
  <2>4. p.output_format # ""
    BY <2>1, ParamsRead DEF AttemptInv, Attempted
  <2>5. \/ Unable("rembg")
        \/ Succeed("rembg", p.output_format, "stat")
        \/ Fail("rembg", p.output_format, "retry")
    BY <1>4, <2>4 DEF Rembg
  <2>6. CASE Unable("rembg")
    BY <2>6, GivingUpKeeps DEF Unable, Goto
  <2>7. CASE \/ Succeed("rembg", p.output_format, "stat")
             \/ Fail("rembg", p.output_format, "retry")
    BY <2>2, <2>3, <2>7, ToolKeeps
  <2> QED
    BY <2>5, <2>6, <2>7
<1>5. CASE Ghostscript
  <2>1. /\ step = "gs" /\ UNCHANGED <<form, params, ended, output>>
        /\ step' \in {"qpdf_optimized", "qpdf_original"}
        /\ step' = "qpdf_optimized" => scratch' \in {"whole", "none"}
        /\ scratch' \in Contents
        /\ mishap' \in BOOLEAN /\ (mishap => mishap')
    BY <1>5
    DEF Ghostscript, Goto, Contents, AttemptInv, AttemptTyped
  <2>2. AttemptTyped' /\ ReadsBack'
    BY <2>1 DEF AttemptInv, AttemptTyped, ReadsBack, Attempted, Final
  <2>3. RightTool'
    BY <1>0, <2>1 DEF RightTool
  <2>4. WholeOrGivenUp' /\ MishapNoted'
    BY <2>1 DEF AttemptInv, WholeOrGivenUp, MishapNoted
  <2> QED
    BY <2>2, <2>3, <2>4 DEF AttemptInv
\* All that is left are the tools of a PDF.
<1>6. ASSUME step \in {"qpdf_optimized", "qpdf_original", "qpdf_minimal", "copy"}
      PROVE  /\ form.operation = "pdf_compress"
             /\ SameFormat(MimeForExtension(p.output_format),
                           MimeForExtension("pdf"))
             /\ step' \in {"retry", "copy", "qpdf_minimal"} => RightTool'
  <2>1. form.operation = "pdf_compress" /\ UNCHANGED form
    BY <1>0, <1>6 DEF RightTool
  <2>2. p.output_format = "pdf"
    BY <1>0, <1>6, <2>1 DEF OutputFormat
  <2> QED
    BY <2>1, <2>2 DEF RightTool, SameFormat
<1>7. CASE QpdfOptimized
  <2>1. step = "qpdf_optimized"
    BY <1>7 DEF QpdfOptimized, Command, Succeed, Fail
  <2>2. scratch \in {"none", "whole"}
    BY <2>1 DEF AttemptInv, WholeOrGivenUp
  <2> QED
    BY <1>6, <1>7, <2>1, <2>2, ToolKeeps DEF QpdfOptimized, Command
<1>8. CASE QpdfOriginal \/ QpdfMinimal
  <2>1. step \in {"qpdf_original", "qpdf_minimal"}
    BY <1>8 DEF QpdfOriginal, QpdfMinimal, Command, Succeed, Fail
  <2> QED
    BY <1>6, <1>8, <2>1, ToolKeeps DEF QpdfOriginal, QpdfMinimal, Command
<1>9. CASE Copy
  <2>1. step = "copy"
    BY <1>9 DEF Copy, Fail
  <2>2. scratch \in {"none", "whole"}
    BY <2>1 DEF AttemptInv, WholeOrGivenUp
  <2>3. CASE Fail("copy", "pdf", "retry")
    BY <1>6, <2>1, <2>3, ToolKeeps
  <2>4. CASE /\ scratch # "none" /\ Produce(scratch, "pdf")
             /\ UNCHANGED mishap /\ Goto("stat")
    <3>1. /\ UNCHANGED <<form, params, ended, scratch, mishap>>
          /\ output' = [content |-> "whole", format |-> "pdf"]
          /\ step' = "stat"
      BY <2>2, <2>4 DEF Produce, Goto
    <3>2. AttemptTyped' /\ ReadsBack' /\ RightTool'
      BY <2>1, <3>1
      DEF AttemptInv, AttemptTyped, ReadsBack, Attempted, RightTool, Contents
    <3>3. WholeOrGivenUp' /\ MishapNoted'
      BY <1>0, <1>6, <2>1, <3>1 DEF AttemptInv, WholeOrGivenUp, MishapNoted
    <3> QED
      BY <3>2, <3>3 DEF AttemptInv
  <2> QED
    BY <1>9, <2>3, <2>4 DEF Copy
<1> QED
  BY <1>1, <1>2, <1>3, <1>4, <1>5, <1>7, <1>8, <1>9 DEF Tool

LEMMA AttemptInductive == AttemptInv /\ [Next]_processorVars => AttemptInv'
<1> SUFFICES ASSUME AttemptInv, [Next]_processorVars
             PROVE  AttemptInv'
  OBVIOUS
<1> USE DEF Goto
<1>1. CASE Submit
  <2>1. /\ step = "submitted" /\ step' \in {"accepted", "refused"}
        /\ UNCHANGED <<form, ended, scratch, output, mishap>>
        /\ step' = "accepted" =>
              /\ Accepts(form)
              /\ params' = StoredParams(parseAndValidateParams(form))
    BY <1>1 DEF Submit
  <2>2. AttemptTyped' /\ ReadsBack'
    BY <2>1 DEF AttemptInv, AttemptTyped, ReadsBack, Attempted, Final
  <2>3. RightTool' /\ WholeOrGivenUp' /\ MishapNoted'
    BY <2>1 DEF AttemptInv, RightTool, WholeOrGivenUp, MishapNoted
  <2> QED
    BY <2>2, <2>3 DEF AttemptInv
<1>2. CASE Dispatch
  <2>1. /\ step = "accepted" /\ step' = IF ended THEN "retry" ELSE FirstTool
        /\ UNCHANGED <<form, params, ended, scratch, output, mishap>> /\ p' = p
    BY <1>2 DEF Dispatch, p
  <2>2. FirstTool \in {"bimg", "optimize", "pngquant", "rembg", "gs", "ffmpeg",
                       "retry"}
    BY DEF FirstTool, ConvertingTool, CompressingTool
  <2>3. AttemptTyped' /\ ReadsBack'
    BY <2>1, <2>2
    DEF AttemptInv, AttemptTyped, ReadsBack, Attempted, Tools, Final
  <2>4. RightTool'
    BY <2>1 DEF RightTool, FirstTool, ConvertingTool, CompressingTool
  <2>5. WholeOrGivenUp' /\ MishapNoted'
    BY <2>1, <2>2 DEF AttemptInv, WholeOrGivenUp, MishapNoted
  <2> QED
    BY <2>3, <2>4, <2>5 DEF AttemptInv
<1>3. CASE Tool
  BY <1>3, ToolsKeep
<1>4. CASE Stat
  <2>1. /\ step = "stat"
        /\ step' = IF output.content = "none" THEN "failed" ELSE "completed"
        /\ UNCHANGED <<form, params, ended, scratch, output, mishap>> /\ p' = p
    BY <1>4 DEF Stat, p
  <2>2. AttemptTyped' /\ ReadsBack' /\ RightTool'
    BY <2>1
    DEF AttemptInv, AttemptTyped, ReadsBack, Attempted, RightTool, Final
  <2>3. WholeOrGivenUp' /\ MishapNoted'
    BY <2>1 DEF AttemptInv, WholeOrGivenUp, MishapNoted
  <2> QED
    BY <2>2, <2>3 DEF AttemptInv
<1>5. CASE ContextEnds
  <2>1. /\ UNCHANGED <<form, params, step, scratch, output>> /\ p' = p
        /\ ended' = TRUE /\ mishap' = TRUE
    BY <1>5 DEF ContextEnds, p
  <2>2. AttemptTyped' /\ ReadsBack' /\ RightTool'
    BY <2>1 DEF AttemptInv, AttemptTyped, ReadsBack, Attempted, RightTool
  <2>3. WholeOrGivenUp' /\ MishapNoted'
    BY <2>1 DEF AttemptInv, WholeOrGivenUp, MishapNoted
  <2> QED
    BY <2>2, <2>3 DEF AttemptInv
<1>6. CASE UNCHANGED processorVars
  <2>1. UNCHANGED <<form, params, step, ended, scratch, output, mishap>> /\ p' = p
    BY <1>6 DEF processorVars, p
  <2>2. AttemptTyped' /\ ReadsBack' /\ RightTool'
    BY <2>1 DEF AttemptInv, AttemptTyped, ReadsBack, Attempted, RightTool
  <2>3. WholeOrGivenUp' /\ MishapNoted'
    BY <2>1 DEF AttemptInv, WholeOrGivenUp, MishapNoted
  <2> QED
    BY <2>2, <2>3 DEF AttemptInv
<1> QED
  BY <1>1, <1>2, <1>3, <1>4, <1>5, <1>6 DEF Next

LEMMA AttemptInit == Init => AttemptInv
<1> SUFFICES ASSUME Init
             PROVE  AttemptInv
  OBVIOUS
<1>1. AttemptTyped
  BY DEF Init, AttemptTyped, Contents, NoFile
<1>2. ReadsBack /\ RightTool
  BY DEF Init, ReadsBack, Attempted, RightTool
<1>3. WholeOrGivenUp /\ MishapNoted
  BY DEF Init, WholeOrGivenUp, MishapNoted
<1> QED
  BY <1>1, <1>2, <1>3 DEF AttemptInv

LEMMA AttemptAlways == Spec => []AttemptInv
BY AttemptInit, AttemptInductive, PTL DEF Spec

LEMMA SoundParameters ==
    ASSUME AttemptInv
    PROVE  ProcessorsTypeOK
<1>1. ASSUME Attempted
      PROVE  /\ DOMAIN p = DOMAIN ZeroParams
             /\ p.output_format # ""
             /\ p.quality \in 0..100 /\ p.image_quality \in 0..100
             /\ p.image_dpi \in {0} \cup DPIs
             /\ Slides \/ step = "pngquant" => p.quality > 0
             /\ step = "gs" => p.image_dpi > 0 /\ p.image_quality > 0
  <2>1. /\ Accepts(form) /\ p = parseAndValidateParams(form)
        /\ DOMAIN p = DOMAIN ZeroParams /\ p.output_format # ""
    BY <1>1, ParamsRead DEF AttemptInv
  <2>2. Slides \/ step = "pngquant" =>
           form.operation \in {"image_compress", "audio_compress",
                               "video_compress"}
    BY DEF AttemptInv, RightTool, Slides
  <2>3. step = "gs" => form.operation = "pdf_compress"
    BY DEF AttemptInv, RightTool
  <2>4. /\ p.quality \in 0..100 /\ p.image_quality \in 0..100
        /\ p.image_dpi \in {0} \cup DPIs
        /\ form.operation \in {"image_compress", "audio_compress",
                               "video_compress"} => p.quality > 0
        /\ form.operation = "pdf_compress" =>
              p.image_dpi \in DPIs /\ p.image_quality > 0
    <3> HIDE DEF p
    <3> QED
      BY <2>1, AcceptedNumbers
  <2>5. p.image_dpi \in DPIs => p.image_dpi > 0
    BY DEF DPIs
  <2> QED
    BY <2>1, <2>2, <2>3, <2>4, <2>5
<1> QED
  BY <1>1 DEF AttemptInv, AttemptTyped, ProcessorsTypeOK, Attempted

\* A tool with a slider is given a number the slider has.
LEMMA SliderNumber ==
    ASSUME AttemptInv, Attempted, Slides \/ step = "pngquant"
    PROVE  p.quality \in 1..100
<1>1. p.quality \in 0..100 /\ p.quality > 0
  BY SoundParameters DEF ProcessorsTypeOK, Attempted
<1> QED
  BY <1>1

\* Whatever form arrives, the parameters of an accepted one are within the
\* bounds of its operation when the worker reads them back.
THEOREM ParametersAreSound == Spec => []ProcessorsTypeOK
BY SoundParameters, AttemptAlways, PTL

\* No file that a failed or killed tool cut short is served as a result.
THEOREM ResultsAreWhole == Spec => []CompletedIsWhole
<1>1. AttemptInv => CompletedIsWhole
  BY DEF AttemptInv, WholeOrGivenUp, CompletedIsWhole
<1> QED
  BY <1>1, AttemptAlways, PTL

\* A result is downloaded under a name and a type that tell what it holds.
THEOREM NamesTellContents == Spec => []NameTellsContent
<1>1. AttemptInv => NameTellsContent
  <2> SUFFICES ASSUME AttemptInv, step = "completed"
               PROVE  LET mime == MimeForExtension(
                                     OutputName(form.ext, p.output_format))
                      IN  SameFormat(mime, MimeForExtension(output.format))
    BY DEF NameTellsContent
  <2>1. SameFormat(MimeForExtension(p.output_format),
                   MimeForExtension(output.format))
    BY DEF AttemptInv, WholeOrGivenUp
  <2>2. p.output_format # ""
    BY ParamsRead DEF AttemptInv, Attempted
  <2> QED
    BY <2>1, <2>2, SpellingOfNames DEF OutputName
<1> QED
  BY <1>1, AttemptAlways, PTL

----------------------------------------------------------------------------
(* The numbers tools are given.                                            *)

\* Go's division by the 99 steps of a slider.
LEMMA Steps ==
    ASSUME NEW x \in Int
    PROVE  /\ Quo(x, 99) \in Int
           /\ x >= 0 => 99 * Quo(x, 99) <= x /\ x < 99 * Quo(x, 99) + 99
           /\ x <= 0 => 99 * Quo(x, 99) >= x /\ x > 99 * Quo(x, 99) - 99
BY DEF Quo

\* Between its ends a scale is the quotient alone; the ends fit it.
LEMMA ScaleIsQuotient ==
    ASSUME NEW scale, scale[1] \in Int, scale[2] \in Int, NEW q \in 1..100
    PROVE  Scaled(q, scale) = scale[1] + Quo((q - 1) * (scale[2] - scale[1]), 99)
<1>1. CASE q = 1
  BY <1>1 DEF Scaled, MapRange, Quo
<1>2. CASE q = 100
  <2> DEFINE slope == scale[2] - scale[1]
  <2>1. slope \in Int /\ (q - 1) * slope = 99 * slope
    BY <1>2
  <2>2. Quo(99 * slope, 99) = slope
    <3> HIDE DEF slope
    <3> QED
      BY <2>1, Steps, 99 * slope \in Int
  <2> QED
    BY <1>2, <2>1, <2>2 DEF Scaled, MapRange
<1>3. CASE q \in 2..99
  BY <1>3 DEF Scaled, MapRange
<1> QED
  BY <1>1, <1>2, <1>3

\* Any scale, rising or falling, is followed by the slider from one end to
\* the other.
LEMMA ScaleIsFollowed ==
    ASSUME NEW scale, scale[1] \in Int, scale[2] \in Int, NEW q \in 1..100,
           NEW slope, slope = scale[2] - scale[1]
    PROVE  /\ Scaled(q, scale) \in Int
           /\ Scaled(1, scale) = scale[1] /\ Scaled(100, scale) = scale[2]
           /\ -99 < 99 * (Scaled(q, scale) - scale[1]) - (q - 1) * slope
           /\ 99 * (Scaled(q, scale) - scale[1]) - (q - 1) * slope < 99
           /\ IF slope > 0 THEN Scaled(q + 1, scale) - Scaled(q, scale) >= 0
              ELSE Scaled(q + 1, scale) - Scaled(q, scale) <= 0
           /\ IF slope > 0 THEN Scaled(q, scale) \in scale[1]..scale[2]
              ELSE Scaled(q, scale) \in scale[2]..scale[1]
<1> DEFINE x == (q - 1) * slope
<1>0. slope \in Int
  OBVIOUS
<1>1. /\ x \in Int
      /\ slope > 0 => 0 <= x /\ x <= 99 * slope
      /\ slope <= 0 => 99 * slope <= x /\ x <= 0
  <2>1. x \in Int
    BY <1>0
  <2>2. slope > 0 => 0 <= x /\ x <= 99 * slope
    BY <1>0
  <2>3. slope <= 0 => 99 * slope <= x /\ x <= 0
    BY <1>0
  <2> QED
    BY <2>1, <2>2, <2>3
<1>2. Scaled(q, scale) = scale[1] + Quo(x, 99)
  BY ScaleIsQuotient
<1>3. Scaled(1, scale) = scale[1] /\ Scaled(100, scale) = scale[2]
  BY DEF Scaled, MapRange
<1>4. CASE q = 100
  BY <1>0, <1>3, <1>4 DEF Scaled, MapRange
<1>5. CASE q \in 1..99
  <2>1. Scaled(q + 1, scale) = scale[1] + Quo(x + slope, 99)
    <3>1. q + 1 \in 1..100 /\ ((q + 1) - 1) * slope = x + slope
      BY <1>0, <1>5
    <3> QED
      BY <3>1, ScaleIsQuotient
  <2>2. x + slope \in Int
    BY <1>0, <1>1
  <2>3. /\ Quo(x, 99) \in Int
        /\ x >= 0 => 99 * Quo(x, 99) <= x /\ x < 99 * Quo(x, 99) + 99
        /\ x <= 0 => 99 * Quo(x, 99) >= x /\ x > 99 * Quo(x, 99) - 99
    BY <1>1, Steps
  <2>4. LET y == x + slope
        IN  /\ Quo(y, 99) \in Int
            /\ y >= 0 => 99 * Quo(y, 99) <= y /\ y < 99 * Quo(y, 99) + 99
            /\ y <= 0 => 99 * Quo(y, 99) >= y /\ y > 99 * Quo(y, 99) - 99
    BY <2>2, Steps
  <2>5. scale[1] \in Int /\ scale[2] \in Int /\ scale[2] = scale[1] + slope
    BY <1>0
  <2> HIDE DEF x
  <2>6. ASSUME slope > 0
        PROVE  /\ Quo(x + slope, 99) >= Quo(x, 99)
               /\ 0 <= Quo(x, 99) /\ Quo(x, 99) <= slope
    BY <1>0, <1>1, <2>3, <2>4, <2>6
  <2>7. ASSUME ~(slope > 0)
        PROVE  /\ Quo(x + slope, 99) <= Quo(x, 99)
               /\ slope <= Quo(x, 99) /\ Quo(x, 99) <= 0
    BY <1>0, <1>1, <2>3, <2>4, <2>7
  <2>8. /\ Scaled(q, scale) \in Int
        /\ Scaled(q, scale) - scale[1] = Quo(x, 99)
        /\ Scaled(q + 1, scale) - Scaled(q, scale)
              = Quo(x + slope, 99) - Quo(x, 99)
    BY <1>2, <2>1, <2>3, <2>4, <2>5
  <2>9. -99 < 99 * Quo(x, 99) - x /\ 99 * Quo(x, 99) - x < 99
    BY <1>1, <2>3
  <2>10. IF slope > 0 THEN Scaled(q + 1, scale) - Scaled(q, scale) >= 0
         ELSE Scaled(q + 1, scale) - Scaled(q, scale) <= 0
    BY <2>3, <2>4, <2>6, <2>7, <2>8
  <2>11. IF slope > 0 THEN Scaled(q, scale) \in scale[1]..scale[2]
         ELSE Scaled(q, scale) \in scale[2]..scale[1]
    BY <1>0, <1>2, <2>3, <2>5, <2>6, <2>7, <2>8
  <2> QED
    BY <1>3, <2>8, <2>9, <2>10, <2>11 DEF x
<1> QED
  BY <1>4, <1>5

\* A tool with a slider takes every setting between the ends of its scale.
LEMMA ScalesInRange ==
    ASSUME AttemptInv, Slides, step = "ffmpeg"
    PROVE  /\ Scale[1] \in Int /\ Scale[2] \in Int
           /\ Scale[1]..Scale[2] \subseteq ToolRange
           /\ Scale[2]..Scale[1] \subseteq ToolRange
           /\ Scale[2] \in ToolRange
           /\ OutExt = "flac" => 12 \in ToolRange
<1>1. CASE form.operation = "video_compress"
  <2>1. OutExt \in {"mp4", "mkv", "webm"}
    <3>1. Accepts(form) /\ OutExt = OutputFormat(form)
      BY ParamsRead DEF AttemptInv, Attempted
    <3>2. ValidOutputFormat("video_compress", OutExt)
      BY <1>1, <3>1 DEF Accepts, OutputAccepted
    <3>3. outputFormats["video_compress"] = {"mp4", "mkv", "webm"}
      BY DEF outputFormats
    <3>4. {"mp4", "mkv", "webm"} # {}
      OBVIOUS
    <3> QED
      BY <3>2, <3>3, <3>4 DEF ValidOutputFormat
  <2>2. CASE OutExt = "webm"
    <3>1. Scale = <<50, 15>> /\ ToolRange = 0..63
      BY <1>1, <2>2 DEF Scale, VideoScale, ToolRange, CodecRange
    <3> QED
      BY <2>2, <3>1
  <2>3. CASE OutExt \in {"mp4", "mkv"}
    <3>1. Scale = <<45, 17>> /\ ToolRange = 0..51
      BY <1>1, <2>3 DEF Scale, VideoScale, ToolRange, CodecRange
    <3> QED
      BY <2>3, <3>1
  <2> QED
    BY <2>1, <2>2, <2>3
<1>2. CASE form.operation # "video_compress"
  <2>1. Scale = AudioScale[OutExt]
    BY <1>2 DEF Scale
  <2>2. OutExt \in {"mp3", "ogg", "opus", "aac", "m4a", "flac", "wma"}
    BY <1>2 DEF Slides, AudioScale
  <2>3. CASE OutExt = "mp3"
    <3>1. Scale = <<32, 320>> /\ ToolRange = 8..320
      BY <2>1, <2>3 DEF AudioScale, ToolRange, CodecRange
    <3> QED
      BY <2>3, <3>1
  <2>4. CASE OutExt = "ogg"
    <3>1. Scale = <<0, 10>> /\ ToolRange = -1..10
      BY <2>1, <2>4 DEF AudioScale, ToolRange, CodecRange
    <3> QED
      BY <2>4, <3>1
  <2>5. CASE OutExt = "opus"
    <3>1. Scale = <<16, 256>> /\ ToolRange = 6..256
      BY <2>1, <2>5 DEF AudioScale, ToolRange, CodecRange
    <3> QED
      BY <2>5, <3>1
  <2>6. CASE OutExt \in {"aac", "m4a"}
    <3>1. Scale = <<32, 256>> /\ ToolRange = 8..512
      BY <2>1, <2>6 DEF AudioScale, ToolRange, CodecRange
    <3> QED
      BY <2>6, <3>1
  <2>7. CASE OutExt = "flac"
    <3>1. Scale = <<12, 0>> /\ ToolRange = 0..12
      BY <2>1, <2>7 DEF AudioScale, ToolRange, CodecRange
    <3> QED
      BY <2>7, <3>1
  <2>8. CASE OutExt = "wma"
    <3>1. Scale = <<32, 192>> /\ ToolRange = 24..320
      BY <2>1, <2>8 DEF AudioScale, ToolRange, CodecRange
    <3> QED
      BY <2>8, <3>1
  <2> QED
    BY <2>2, <2>3, <2>4, <2>5, <2>6, <2>7, <2>8
<1> QED
  BY <1>1, <1>2

\* Whatever form was accepted, no tool is called with a number outside the
\* range it takes.
THEOREM ArgumentsStayInRange == Spec => []ArgumentsInRange
<1>1. AttemptInv => ArgumentsInRange
  <2> SUFFICES ASSUME AttemptInv
               PROVE  ArgumentsInRange
    OBVIOUS
  <2>2. ASSUME step = "pngquant"
        PROVE  /\ 0 <= minQuality(p.quality)
               /\ minQuality(p.quality) <= p.quality /\ p.quality <= 100
    <3>1. p.quality \in 1..100
      BY <2>2, SliderNumber DEF Attempted
    <3> QED
      BY <3>1 DEF minQuality
  <2>3. ASSUME step = "ffmpeg", Slides
        PROVE  Setting(p.quality) \in ToolRange
    <3>1. /\ Scale[1] \in Int /\ Scale[2] \in Int
          /\ Scale[1]..Scale[2] \subseteq ToolRange
          /\ Scale[2]..Scale[1] \subseteq ToolRange
          /\ Scale[2] \in ToolRange
          /\ OutExt = "flac" => 12 \in ToolRange
      BY <2>3, ScalesInRange
    <3>2. p.quality \in 1..100
      BY <2>3, SliderNumber DEF Attempted
    <3>3. /\ Scaled(p.quality, Scale) \in Scale[1]..Scale[2] \cup Scale[2]..Scale[1]
          /\ Scaled(100, Scale) = Scale[2]
      <4> HIDE DEF Scale
      <4> QED
        BY <3>1, <3>2, ScaleIsFollowed
    <3> QED
      BY <3>1, <3>3 DEF Setting
  <2>4. ASSUME step = "gs"
        PROVE  /\ monoDPI(p.image_dpi) \in p.image_dpi..600
               /\ pdfPreset(p.image_quality) \in Presets
    <3>1. p.image_dpi \in DPIs
      <4>1. form.operation = "pdf_compress" /\ Attempted /\ ReadsBack
        BY <2>4 DEF AttemptInv, RightTool, Attempted
      <4>2. Accepts(form) /\ p = parseAndValidateParams(form)
        BY <4>1, ParamsRead
      <4> QED
        BY <4>1, <4>2, AcceptedNumbers
    <3>2. monoDPI(p.image_dpi) \in p.image_dpi..600
      BY <3>1 DEF DPIs, monoDPI
    <3> QED
      BY <3>2 DEF pdfPreset, Presets
  <2> QED
    BY <2>2, <2>3, <2>4 DEF ArgumentsInRange
<1> QED
  BY <1>1, AttemptAlways, PTL

\* The slider follows every scale there is, rising or falling, and never
\* turns back.
THEOREM SlidersAreFaithful == Spec => []SliderIsFaithful
<1>1. AttemptInv => SliderIsFaithful
  <2> SUFFICES ASSUME AttemptInv, step = "ffmpeg", Slides, ~LosslessAudio
               PROVE  LET low == Scale[1]
                          high == Scale[2]
                          slope == high - low
                          off == 99 * (Setting(p.quality) - low)
                                   - (p.quality - 1) * slope
                          gain == Setting(p.quality + 1) - Setting(p.quality)
                      IN  /\ Setting(1) = low /\ Setting(100) = high
                          /\ -99 < off /\ off < 99
                          /\ IF slope > 0 THEN gain >= 0 ELSE gain <= 0
    BY DEF SliderIsFaithful
  <2>1. p.quality \in 1..100
    BY SliderNumber DEF Attempted
  <2>2. Scale[1] \in Int /\ Scale[2] \in Int
    BY ScalesInRange
  <2>3. \A q : Setting(q) = Scaled(q, Scale)
    BY DEF Setting
  <2> HIDE DEF Scale
  <2> QED
    BY <2>1, <2>2, <2>3, ScaleIsFollowed
<1> QED
  BY <1>1, AttemptAlways, PTL

----------------------------------------------------------------------------
(* The page.                                                               *)

\* The names the tables list are not changed by the API's normalization,
\* or only to another one of the same table.
LEMMA NamesAreNormal ==
    ASSUME NEW operation \in Operations, NEW ext
    PROVE  /\ ToLower(ext) \in inputFormats[operation]
                => normalizeExt(ext) \in inputFormats[operation]
           /\ operation # "image_compress" /\ operation # "audio_compress"
                /\ ext \in outputFormats[operation]
                => normalizeExt(ext) = ext
<1>1. CASE operation \in {"image_convert", "image_compress", "image_remove_bg"}
  BY <1>1 DEF inputFormats, outputFormats, Images, normalizeExt, ShortNames,
              ToLower, Capitals
<1>2. CASE operation \in {"audio_convert", "audio_compress"}
  BY <1>2 DEF inputFormats, outputFormats, Audio, normalizeExt, ShortNames,
              ToLower, Capitals
<1>3. CASE operation \in {"pdf_compress", "video_compress"}
  BY <1>3 DEF inputFormats, outputFormats, Video, normalizeExt, ShortNames,
              ToLower, Capitals
<1> QED
  BY <1>1, <1>2, <1>3 DEF Operations

\* The tables, entry by entry: what the API publishes and what the page falls
\* back on are what the API's validation takes.
LEMMA PublishedImages ==
    ASSUME NEW formats \in {formatsJSON, fallbackFormats},
           NEW tool \in {"image_convert", "image_compress", "image_remove_bg"}
    PROVE  /\ formats[tool].input = inputFormats[tool]
           /\ formats[tool].output = outputFormats[tool]
<1>1. /\ formats["image_convert"].input = Images
      /\ formats["image_convert"].output =
            {"jpeg", "png", "webp", "tiff", "gif", "avif", "heif", "bmp"}
  <2>1. CASE formats = formatsJSON
    BY <2>1 DEF formatsJSON, Images
  <2>2. CASE formats = fallbackFormats
    BY <2>2 DEF fallbackFormats, Images
  <2> QED
    BY <2>1, <2>2
<1>2. /\ formats["image_compress"].input = Images
      /\ formats["image_compress"].output = {}
  <2>1. CASE formats = formatsJSON
    BY <2>1 DEF formatsJSON, Images
  <2>2. CASE formats = fallbackFormats
    BY <2>2 DEF fallbackFormats, Images
  <2> QED
    BY <2>1, <2>2
<1>3. /\ formats["image_remove_bg"].input =
            {"jpeg", "jpg", "png", "webp", "tiff", "tif", "bmp"}
      /\ formats["image_remove_bg"].output = {"png", "webp"}
  <2>1. CASE formats = formatsJSON
    BY <2>1 DEF formatsJSON
  <2>2. CASE formats = fallbackFormats
    BY <2>2 DEF fallbackFormats
  <2> QED
    BY <2>1, <2>2
<1>4. /\ inputFormats["image_convert"] = Images
      /\ inputFormats["image_compress"] = Images
      /\ inputFormats["image_remove_bg"] =
            Images \ {"gif", "avif", "heif", "heic"}
      /\ outputFormats["image_convert"] = Images \ {"jpg", "tif", "heic"}
      /\ outputFormats["image_compress"] = {}
      /\ outputFormats["image_remove_bg"] = {"png", "webp"}
  BY DEF inputFormats, outputFormats
<1>5. /\ Images \ {"gif", "avif", "heif", "heic"} =
            {"jpeg", "jpg", "png", "webp", "tiff", "tif", "bmp"}
      /\ Images \ {"jpg", "tif", "heic"} =
            {"jpeg", "png", "webp", "tiff", "gif", "avif", "heif", "bmp"}
  BY DEF Images
<1> QED
  BY <1>1, <1>2, <1>3, <1>4, <1>5

LEMMA PublishedMedia ==
    ASSUME NEW formats \in {formatsJSON, fallbackFormats},
           NEW tool \in {"pdf_compress", "audio_convert", "audio_compress",
                         "video_compress"}
    PROVE  /\ formats[tool].input = inputFormats[tool]
           /\ formats[tool].output = outputFormats[tool]
<1>1. /\ formats["audio_convert"].input = Audio
      /\ formats["audio_convert"].output =
            {"mp3", "wav", "flac", "ogg", "opus", "aac", "m4a", "aiff"}
      /\ formats["audio_compress"].input = Audio
      /\ formats["audio_compress"].output = {}
  <2>1. CASE formats = formatsJSON
    BY <2>1 DEF formatsJSON, Audio
  <2>2. CASE formats = fallbackFormats
    BY <2>2 DEF fallbackFormats, Audio
  <2> QED
    BY <2>1, <2>2
<1>2. /\ formats["video_compress"].input = Video
      /\ formats["video_compress"].output = {"mp4", "mkv", "webm"}
      /\ formats["pdf_compress"].input = {"pdf"}
      /\ formats["pdf_compress"].output = {"pdf"}
  <2>1. CASE formats = formatsJSON
    BY <2>1 DEF formatsJSON, Video
  <2>2. CASE formats = fallbackFormats
    BY <2>2 DEF fallbackFormats, Video
  <2> QED
    BY <2>1, <2>2
<1>3. /\ inputFormats["audio_convert"] = Audio
      /\ inputFormats["audio_compress"] = Audio
      /\ inputFormats["video_compress"] = Video
      /\ inputFormats["pdf_compress"] = {"pdf"}
      /\ outputFormats["audio_convert"] = Audio \ {"wma"}
      /\ outputFormats["audio_compress"] = {}
      /\ outputFormats["video_compress"] = {"mp4", "mkv", "webm"}
      /\ outputFormats["pdf_compress"] = {"pdf"}
  BY DEF inputFormats, outputFormats
<1>4. Audio \ {"wma"} =
         {"mp3", "wav", "flac", "ogg", "opus", "aac", "m4a", "aiff"}
  BY DEF Audio
<1> QED
  BY <1>1, <1>2, <1>3, <1>4

LEMMA TablesAgree ==
    ASSUME NEW tool \in Operations,
           NEW formats \in {formatsJSON, fallbackFormats}
    PROVE  /\ formats[tool].input = inputFormats[tool]
           /\ formats[tool].output = outputFormats[tool]
<1>1. CASE tool \in {"image_convert", "image_compress", "image_remove_bg"}
  BY <1>1, PublishedImages
<1>2. CASE tool \in {"pdf_compress", "audio_convert", "audio_compress",
                     "video_compress"}
  BY <1>2, PublishedMedia
<1> QED
  BY <1>1, <1>2 DEF Operations

\* Each tool of the page is an operation of the API, and the reverse.
LEMMA ToolsAreOperations == DOMAIN toolConfig = Operations
BY DEF toolConfig, Operations

\* What the panel of a tool sends.
LEMMA PanelSends ==
    ASSUME NEW tool \in Operations
    PROVE  /\ \A outputs :
                 FormatSelect(tool, outputs) =
                    IF tool \in {"image_convert", "image_remove_bg",
                                "audio_convert", "video_compress"}
                       /\ outputs # {} THEN outputs ELSE {""}
           /\ Panel(tool, "quality", 1..100, Absent) \subseteq {Absent} \cup 1..100
           /\ Panel(tool, "image_quality", 1..100, Absent)
                 \subseteq {Absent} \cup 1..100
           /\ Panel(tool, "image_dpi", DpiOptions, Absent)
                 \subseteq {Absent} \cup DpiOptions
<1>1. tool \in {"image_convert", "image_remove_bg", "audio_convert",
               "video_compress"}
         <=> toolConfig[tool] \cap {"output_format", "output_format_bg"} # {}
  BY DEF toolConfig, Operations
<1> QED
  BY <1>1 DEF FormatSelect, Panel

\* The API accepts what the page sends, in a format some tool can make.
LEMMA PageFormsAccepted ==
    ASSUME NEW f \in PageForms
    PROVE  /\ Accepts(f)
           /\ f.operation = "image_remove_bg" => OutputFormat(f) \in {"png", "webp"}
           /\ f.operation \notin {"image_remove_bg", "pdf_compress"} =>
                 OutputFormat(f) \in Images \cup Audio \cup Video
           /\ f.operation = "image_compress" =>
                 OutputFormat(f) = normalizeExt(f.ext) /\ OutputFormat(f) \in Images
<1>1. /\ f.operation \in Operations /\ f.file = "fits"
      /\ ToLower(f.ext) \in inputFormats[f.operation]
      /\ f.output_format \in FormatSelect(f.operation, outputFormats[f.operation])
      /\ f.quality \in {Absent} \cup 1..100
      /\ f.image_quality \in {Absent} \cup 1..100
      /\ f.image_dpi \in {Absent} \cup DpiOptions
  <2>1. PICK tool \in Operations, formats \in {formatsJSON, fallbackFormats} :
           f \in FormsOfTool(tool, formats)
    BY ToolsAreOperations DEF PageForms
  <2>2. /\ f.operation = tool /\ f.file = "fits"
        /\ ToLower(f.ext) \in formats[tool].input
        /\ f.output_format \in FormatSelect(tool, formats[tool].output)
        /\ f.quality \in Panel(tool, "quality", 1..100, Absent)
        /\ f.image_quality \in Panel(tool, "image_quality", 1..100, Absent)
        /\ f.image_dpi \in Panel(tool, "image_dpi", DpiOptions, Absent)
    BY <2>1 DEF FormsOfTool
  <2>3. /\ formats[tool].input = inputFormats[tool]
        /\ formats[tool].output = outputFormats[tool]
    BY TablesAgree
  <2>4. /\ f.quality \in {Absent} \cup 1..100
        /\ f.image_quality \in {Absent} \cup 1..100
        /\ f.image_dpi \in {Absent} \cup DpiOptions
    BY <2>2, PanelSends
  <2> QED
    BY <2>2, <2>3, <2>4
<1>2. NumbersValid(f)
  BY <1>1 DEF NumbersValid, DpiOptions, DPIs
<1>3. normalizeExt(f.ext) \in inputFormats[f.operation]
  BY <1>1, NamesAreNormal
<1>4. CASE f.operation \in {"image_convert", "image_remove_bg", "audio_convert",
                            "video_compress"}
  <2>0. outputFormats[f.operation] # {}
    BY <1>4 DEF outputFormats, Images, Audio
  <2>1. f.output_format \in outputFormats[f.operation] /\ f.output_format # ""
    <3>1. FormatSelect(f.operation, outputFormats[f.operation])
             = outputFormats[f.operation]
      BY <1>1, <1>4, <2>0, PanelSends
    <3> QED
      BY <1>1, <3>1, TablesHaveNames
  <2>2. OutputFormat(f) = f.output_format
    BY <1>1, <1>4, <2>1, NamesAreNormal DEF OutputFormat
  <2>4. OutputAccepted(f)
    BY <2>0, <2>1, <2>2 DEF OutputAccepted, ValidOutputFormat
  <2>5. outputFormats[f.operation] \subseteq Images \cup Audio \cup Video
    BY <1>4 DEF outputFormats, Images, Video
  <2>6. f.operation = "image_remove_bg" => OutputFormat(f) \in {"png", "webp"}
    <3>1. outputFormats["image_remove_bg"] = {"png", "webp"}
      BY DEF outputFormats
    <3> QED
      BY <2>1, <2>2, <3>1
  <2> QED
    BY <1>1, <1>2, <1>3, <1>4, <2>1, <2>2, <2>4, <2>5, <2>6
    DEF Accepts, ValidInputFormat
<1>5. CASE f.operation \in {"image_compress", "audio_compress"}
  <2>0. f.output_format = ""
    <3>1. outputFormats[f.operation] = {}
      BY <1>5 DEF outputFormats
    <3>2. FormatSelect(f.operation, outputFormats[f.operation]) = {""}
      BY <3>1 DEF FormatSelect
    <3> QED
      BY <1>1, <3>2
  <2>1. normalizeExt(f.output_format) = ""
    BY <2>0 DEF normalizeExt, ToLower, Capitals, ShortNames
  <2>2. OutputFormat(f) = normalizeExt(f.ext)
    BY <1>5, <2>1 DEF OutputFormat, DefaultFormat
  <2>3. /\ f.operation = "image_compress" => inputFormats[f.operation] = Images
        /\ f.operation = "audio_compress" => inputFormats[f.operation] = Audio
    BY DEF inputFormats
  <2> QED
    BY <1>1, <1>2, <1>3, <1>5, <2>2, <2>3
    DEF Accepts, ValidInputFormat, OutputAccepted
<1>6. CASE f.operation = "pdf_compress"
  <2>1. outputFormats["pdf_compress"] = {"pdf"} /\ {"pdf"} # {}
    BY DEF outputFormats
  <2>2. OutputFormat(f) = "pdf"
    BY <1>6 DEF OutputFormat
  <2>3. OutputAccepted(f)
    BY <1>6, <2>1, <2>2 DEF OutputAccepted, ValidOutputFormat
  <2> QED
    BY <1>1, <1>2, <1>3, <1>6, <2>3 DEF Accepts, ValidInputFormat
<1> QED
  BY <1>1, <1>4, <1>5, <1>6 DEF Operations

\* What the page lets the user compose is accepted, and fails only for a
\* cause that is not in the form.
THEOREM PageIsServed == Spec => []PageRequestsServed
<1>1. Init => PageRequestsServed
  BY DEF Init, PageRequestsServed
<1>2. AttemptInv /\ PageRequestsServed /\ [Next]_processorVars
         => PageRequestsServed'
  <2> SUFFICES ASSUME AttemptInv, PageRequestsServed, [Next]_processorVars,
                      form' \in PageForms
               PROVE  /\ step' # "refused"
                      /\ step' \in {"retry", "failed"} =>
                            mishap' \/ CompressesBMP'
    BY DEF PageRequestsServed
  <2> USE DEF Goto
  <2>1. UNCHANGED form /\ form \in PageForms
    BY DEF Next, Submit, Dispatch, Tool, Stat, ContextEnds, processorVars,
           FFmpeg, Bimg, Optimize, Pngquant, Rembg, Ghostscript, QpdfOptimized,
           QpdfOriginal, QpdfMinimal, Copy, Command, Succeed, Fail, Produce,
           Unable
  <2>2. /\ Attempted => p.output_format = OutputFormat(form) /\ OutExt = p.output_format
        /\ CompressesBMP' = CompressesBMP
    BY <2>1, ParamsRead DEF AttemptInv, CompressesBMP
  <2>3. CASE Submit
    BY <2>1, <2>3, PageFormsAccepted DEF Submit
  <2>4. CASE Dispatch
    <3>1. /\ step = "accepted" /\ UNCHANGED mishap
          /\ step' = IF ended THEN "retry" ELSE FirstTool
      BY <2>4 DEF Dispatch
    <3>2. CASE ended
      BY <3>1, <3>2 DEF AttemptInv, MishapNoted
    <3>3. CASE step' = FirstTool
      <4>1. FirstTool # "refused" /\ FirstTool # "failed"
        BY DEF FirstTool, ConvertingTool, CompressingTool
      <4>2. ASSUME FirstTool = "retry"
            PROVE  CompressesBMP
        <5>1. /\ form.operation = "image_compress" /\ p.output_format # "png"
              /\ bimgType(p.output_format) = "none"
          BY <4>2 DEF FirstTool, ConvertingTool, CompressingTool
        <5>2. p.output_format = normalizeExt(form.ext) /\ p.output_format \in Images
          BY <2>1, <2>2, <3>1, <5>1, PageFormsAccepted DEF Attempted
        <5>3. p.output_format = "bmp"
          BY <5>1, <5>2 DEF Images, bimgType, bimgTypes
        <5> QED
          BY <5>1, <5>2, <5>3 DEF CompressesBMP
      <4> QED
        BY <2>2, <3>3, <4>1, <4>2
    <3> QED
      BY <3>1, <3>2, <3>3
  <2>5. CASE Tool
    <3>1. ASSUME FFmpeg
          PROVE  Command("ffmpeg", OutExt, "stat", "retry")
      <4>1. step = "ffmpeg"
        BY <3>1 DEF FFmpeg, Command, Succeed, Fail, Unable
      <4>2. form.operation \notin {"image_remove_bg", "pdf_compress"}
        BY <4>1 DEF AttemptInv, RightTool
      <4>3. OutExt \in Images \cup Audio \cup Video
        BY <2>1, <2>2, <4>1, <4>2, PageFormsAccepted DEF Attempted
      <4> QED
        BY <3>1, <4>3 DEF FFmpeg
    <3>2. ASSUME Rembg
          PROVE  \/ Succeed("rembg", p.output_format, "stat")
                 \/ Fail("rembg", p.output_format, "retry")
      <4>1. step = "rembg"
        BY <3>2 DEF Rembg, Command, Succeed, Fail, Unable
      <4>2. form.operation = "image_remove_bg"
        BY <4>1 DEF AttemptInv, RightTool
      <4>3. p.output_format \in {"png", "webp"}
        BY <2>1, <2>2, <4>1, <4>2, PageFormsAccepted DEF Attempted
      <4>4. p.output_format # ""
        BY <4>3
      <4> QED
        BY <3>2, <4>3, <4>4 DEF Rembg
    <3>3. ASSUME NEW tool, NEW format, NEW fallback,
                 Succeed(tool, format, "stat") \/ Fail(tool, format, fallback)
          PROVE  mishap' = TRUE \/ step' = "stat"
      BY <3>3 DEF Succeed, Fail
    <3>4. mishap' = TRUE \/ step' \in {"stat", "qpdf_optimized"}
      <4>1. CASE FFmpeg \/ Rembg
        BY <3>1, <3>2, <3>3, <4>1 DEF Command
      <4>2. CASE Bimg \/ Optimize
        BY <4>2 DEF Bimg, Optimize, Succeed, Fail
      <4>3. CASE Pngquant \/ QpdfOriginal \/ QpdfMinimal
        BY <3>3, <4>3 DEF Pngquant, QpdfOriginal, QpdfMinimal, Command
      <4>4. CASE QpdfOptimized \/ Copy
        BY <3>3, <4>4 DEF QpdfOptimized, Copy, Command, Fail
      <4>5. CASE Ghostscript
        BY <4>5 DEF Ghostscript
      <4> QED
        BY <2>5, <4>1, <4>2, <4>3, <4>4, <4>5 DEF Tool
    <3>5. step' # "refused"
      BY <2>5
      DEF Tool, FFmpeg, Bimg, Optimize, Pngquant, Rembg, Ghostscript,
          QpdfOptimized, QpdfOriginal, QpdfMinimal, Copy, Command, Succeed,
          Fail, Unable
    <3> QED
      BY <3>4, <3>5
  <2>6. CASE Stat
    <3>1. /\ step = "stat" /\ UNCHANGED mishap
          /\ step' = IF output.content = "none" THEN "failed" ELSE "completed"
      BY <2>6 DEF Stat
    <3>2. CASE output.content = "none"
      BY <3>1, <3>2 DEF AttemptInv, MishapNoted
    <3>3. CASE output.content # "none"
      BY <3>1, <3>3
    <3> QED
      BY <3>2, <3>3
  <2>7. CASE ContextEnds
    <3>1. mishap' = TRUE /\ UNCHANGED step /\ step \in Tools \cup {"accepted"}
      BY <2>7 DEF ContextEnds
    <3> QED
      BY <3>1 DEF Tools
  <2>8. CASE UNCHANGED processorVars
    BY <2>1, <2>2, <2>8 DEF processorVars, PageRequestsServed
  <2> QED
    BY <2>3, <2>4, <2>5, <2>6, <2>7, <2>8 DEF Next
<1> QED
  BY <1>1, <1>2, AttemptAlways, PTL DEF Spec

=============================================================================
