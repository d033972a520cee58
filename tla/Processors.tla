----------------------------- MODULE Processors -----------------------------
(***************************************************************************)
(* One attempt at one request, from the form to the result: validation,    *)
(* dispatch (cmd/worker) and the processors (internal/processor), each a   *)
(* chain of tools with fallbacks.  A tool may fail at any time and leave a *)
(* file cut short; the attempt's context may end at any time, by its       *)
(* timeout or by SIGTERM.  An external command is killed then; libvips and *)
(* the copying of files go on.  Whatever dispatch returns nil for is       *)
(* encrypted, stored and served as the result.                             *)
(***************************************************************************)
EXTENDS Requests

CONSTANT Forms    \* the forms that arrive

VARIABLES
    form,      \* the request
    params,    \* jobs.params
    step,      \* what runs now, or how the attempt ended
    ended,     \* the context of the attempt is over
    scratch,   \* gs_intermediate.pdf
    output,    \* the file output.<ext> in the sandbox
    mishap     \* history: a tool failed or the context ended

processorVars == <<form, params, step, ended, scratch, output, mishap>>

Tools == {"bimg", "optimize", "pngquant", "gs", "qpdf_optimized",
          "qpdf_original", "qpdf_minimal", "copy", "rembg", "ffmpeg"}

\* "retry" is handleProcessError, "failed" failJob.
Final == {"refused", "completed", "failed", "retry"}

Contents == {"none", "partial", "whole"}

NoFile == [content |-> "none", format |-> ""]

\* The parameters the worker reads back.
p == ParseParams(params)

Init ==
    /\ form \in Forms
    /\ params = <<>>
    /\ step = "submitted"
    /\ ended = FALSE /\ mishap = FALSE
    /\ scratch = "none" /\ output = NoFile

Goto(next) == step' = next

----------------------------------------------------------------------------
(* The API.                                                                *)

Submit ==
    /\ step = "submitted"
    /\ \/ /\ Accepts(form)
          /\ params' = StoredParams(parseAndValidateParams(form))
          /\ Goto("accepted")
       \/ ~Accepts(form) /\ UNCHANGED params /\ Goto("refused")
    /\ UNCHANGED <<form, ended, scratch, output, mishap>>

----------------------------------------------------------------------------
(* The worker.                                                             *)

\* The extension of the file tools write, and ffmpeg goes by.
OutExt == IF p.output_format = "" THEN ToLower(form.ext) ELSE p.output_format

\* The types libvips is asked for; none for bmp.
bimgTypes == [jpeg |-> "jpeg", jpg |-> "jpeg", tiff |-> "tiff", tif |-> "tiff",
              heif |-> "heif", heic |-> "heif", png |-> "png",
              webp |-> "webp", gif |-> "gif", avif |-> "avif"]

bimgType(format) ==
    IF format \in DOMAIN bimgTypes THEN bimgTypes[format] ELSE "none"

ConvertingTool ==
    IF bimgType(p.output_format) = "none" THEN "ffmpeg" ELSE "bimg"

\* None for a format that is neither PNG nor a type of bimg: the attempt
\* fails.
CompressingTool ==
    IF p.output_format = "png" THEN IF p.lossless THEN "optimize" ELSE "pngquant"
    ELSE IF bimgType(p.output_format) = "none" THEN "retry" ELSE "bimg"

FirstTool ==
    IF form.operation = "image_convert" THEN ConvertingTool
    ELSE IF form.operation = "image_compress" THEN CompressingTool
    ELSE IF form.operation = "image_remove_bg" THEN "rembg"
    ELSE IF form.operation = "pdf_compress" THEN "gs"
    ELSE "ffmpeg"

\* Every processor looks at its context first.
Dispatch ==
    /\ step = "accepted"
    /\ Goto(IF ended THEN "retry" ELSE FirstTool)
    /\ UNCHANGED <<form, params, ended, scratch, output, mishap>>

\* The worker looks whether there is an output, not what is in it.
Stat ==
    /\ step = "stat"
    /\ Goto(IF output.content = "none" THEN "failed" ELSE "completed")
    /\ UNCHANGED <<form, params, ended, scratch, output, mishap>>

\* TimeoutFor(operation) is over, or the worker is told to stop.
ContextEnds ==
    /\ step \in Tools \cup {"accepted"} /\ ~ended
    /\ ended' = TRUE /\ mishap' = TRUE
    /\ UNCHANGED <<form, params, step, scratch, output>>

----------------------------------------------------------------------------
(* Tools.  One that ends well leaves a whole file or an empty one: "none".  *)

Produce(content, format) ==
    /\ output' = IF content = "none" THEN NoFile
                 ELSE [content |-> content, format |-> format]
    /\ UNCHANGED <<form, params, ended, scratch>>

Succeed(tool, format, next) ==
    /\ step = tool
    /\ \E content \in {"whole", "none"} :
          /\ Produce(content, format)
          /\ mishap' = (mishap \/ content = "none")
    /\ Goto(next)

\* A file the tool was about to write may be left cut short.
Fail(tool, format, next) ==
    /\ step = tool
    /\ \/ UNCHANGED <<form, params, ended, scratch, output>>
       \/ Produce("partial", format)
    /\ mishap' = TRUE
    /\ Goto(next)

\* runCommand and the request to rembg succeed before the context is over.
Command(tool, format, next, fallback) ==
    \/ ~ended /\ Succeed(tool, format, next)
    \/ Fail(tool, format, fallback)

\* The tool does not know the format it is asked for.
Unable(tool) ==
    /\ step = tool
    /\ Goto("retry")
    /\ UNCHANGED <<form, params, ended, scratch, output, mishap>>

\* Mutant of FFmpeg: exec.Command in place of exec.CommandContext, so that
\* the end of the context does not end a command that hangs.
FFmpegForEver ==
    ~ended /\ Command("ffmpeg", OutExt, "stat", "retry")

\* ffmpeg goes by the extension of the file it is to write.
FFmpeg ==
    IF OutExt \in Images \cup Audio \cup Video
    THEN Command("ffmpeg", OutExt, "stat", "retry")
    ELSE Unable("ffmpeg")

\* The context is looked at once more before the result is written.
Bimg ==
    \/ ~ended /\ Succeed("bimg", bimgType(p.output_format), "stat")
    \/ Fail("bimg", bimgType(p.output_format), "retry")

\* compressPNGLossless: never looks at the context.
Optimize ==
    Succeed("optimize", "png", "stat") \/ Fail("optimize", "png", "retry")

\* Any failure, that of the context included, leads to the lossless way.
Pngquant == Command("pngquant", "png", "stat", "optimize")

\* The service knows png and webp only; an empty answer is an error.
Rembg ==
    LET format == IF p.output_format = "" THEN "png" ELSE p.output_format
    IN  IF format \in {"png", "webp"}
        THEN \/ /\ ~ended /\ Succeed("rembg", format, "stat")
                /\ output' # NoFile
             \/ Fail("rembg", format, "retry")
        ELSE Unable("rembg")

\* Writes the scratch file; its failure is not the end.
Ghostscript ==
    /\ step = "gs"
    /\ \/ /\ ~ended
          /\ scratch' \in {"whole", "none"}
          /\ mishap' = (mishap \/ scratch' = "none")
          /\ Goto("qpdf_optimized")
       \/ /\ scratch' \in {"none", "partial"}
          /\ mishap' = TRUE
          /\ Goto("qpdf_original")
    /\ UNCHANGED <<form, params, ended, output>>

QpdfOptimized ==
    \/ /\ scratch = "whole"
       /\ Command("qpdf_optimized", "pdf", "stat", "copy")
    \/ Fail("qpdf_optimized", "pdf", "copy")

\* copyFile: what gs has made, as it is.
Copy ==
    \/ /\ step = "copy" /\ scratch # "none"
       /\ Produce(scratch, "pdf")
       /\ UNCHANGED mishap
       /\ Goto("stat")
    \/ Fail("copy", "pdf", "retry")

\* Mutant of QpdfOriginal: falls back to copying whatever gs has left.
QpdfOriginalOrCopy == Command("qpdf_original", "pdf", "stat", "copy")

QpdfOriginal == Command("qpdf_original", "pdf", "stat", "qpdf_minimal")

QpdfMinimal == Command("qpdf_minimal", "pdf", "stat", "retry")

Tool ==
    \/ FFmpeg \/ Bimg \/ Optimize \/ Pngquant \/ Rembg
    \/ Ghostscript \/ QpdfOptimized \/ QpdfOriginal \/ QpdfMinimal \/ Copy

Next == Submit \/ Dispatch \/ Tool \/ Stat \/ ContextEnds

Spec == Init /\ [][Next]_processorVars

\* The timeout fires.  Once it has, a command is killed and a request given
\* up, and what does not look at the context ends by itself; no tool is
\* expected to end before.
Fairness ==
    /\ WF_processorVars(Submit \/ Dispatch \/ Stat)
    /\ WF_processorVars(ContextEnds)
    /\ WF_processorVars(ended /\ Tool)

LiveSpec == Spec /\ Fairness

----------------------------------------------------------------------------
(* The numbers tools are given.                                            *)

\* Go divides towards zero.
Quo(a, b) == IF a >= 0 THEN a \div b ELSE -((-a) \div b)

\* Mutant of MapRange: divides first.
MapRangeCoarse(value, inMin, inMax, outMin, outMax) ==
    IF value <= inMin THEN outMin
    ELSE IF value >= inMax THEN outMax
    ELSE outMin + Quo(value - inMin, inMax - inMin) * (outMax - outMin)

MapRange(value, inMin, inMax, outMin, outMax) ==
    IF value <= inMin THEN outMin
    ELSE IF value >= inMax THEN outMax
    ELSE outMin + Quo((value - inMin) * (outMax - outMin), inMax - inMin)

AudioScale == [mp3 |-> <<32, 320>>, ogg |-> <<0, 10>>, opus |-> <<16, 256>>,
               aac |-> <<32, 256>>, m4a |-> <<32, 256>>, flac |-> <<12, 0>>,
               wma |-> <<32, 192>>]

VideoScale(format) == IF format = "webm" THEN <<50, 15>> ELSE <<45, 17>>

Scaled(quality, scale) == MapRange(quality, 1, 100, scale[1], scale[2])

\* What ffmpeg is told by the slider, if anything.
Slides ==
    \/ form.operation = "video_compress"
    \/ form.operation = "audio_compress" /\ OutExt \in DOMAIN AudioScale

Scale == IF form.operation = "video_compress"
         THEN VideoScale(OutExt) ELSE AudioScale[OutExt]

\* Of the two only AudioCompress looks at the checkbox.
LosslessAudio == form.operation = "audio_compress" /\ p.lossless

\* Lossless audio: flac at its highest level, others at full quality.
Setting(quality) ==
    IF ~LosslessAudio THEN Scaled(quality, Scale)
    ELSE IF OutExt = "flac" THEN 12 ELSE Scaled(100, Scale)

\* What the codecs take: bit rates in kbit/s, the quality of Vorbis, the level
\* of flac, the factors of x264 and VP9.
CodecRange == [mp3 |-> 8..320, ogg |-> -1..10, opus |-> 6..256,
               aac |-> 8..512, m4a |-> 8..512, flac |-> 0..12,
               wma |-> 24..320, webm |-> 0..63]

ToolRange == IF OutExt \in DOMAIN CodecRange THEN CodecRange[OutExt] ELSE 0..51

\* Mutant of minQuality: not kept from falling below zero.
minQualityRaw(quality) == quality - 20

minQuality(quality) == IF quality - 20 < 0 THEN 0 ELSE quality - 20

pdfPreset(quality) ==
    IF quality <= 30 THEN "/screen"
    ELSE IF quality <= 60 THEN "/ebook"
    ELSE IF quality <= 85 THEN "/printer"
    ELSE "/prepress"

Presets == {"/screen", "/ebook", "/printer", "/prepress"}

monoDPI(dpi) == IF dpi * 2 > 600 THEN 600 ELSE dpi * 2

----------------------------------------------------------------------------
(* What the properties rest on; together they are inductive.               *)

Attempted == step \notin {"submitted", "refused"}

\* What the worker reads back is what the API has made of an accepted form.
ReadsBack ==
    Attempted => Accepts(form) /\ params = StoredParams(parseAndValidateParams(form))

\* No fallback leads to a tool of another operation or of another format.
RightTool ==
    /\ step = "bimg" => bimgType(p.output_format) # "none"
    /\ step \in {"pngquant", "optimize"} =>
          form.operation = "image_compress" /\ p.output_format = "png"
    /\ step = "rembg" => form.operation = "image_remove_bg"
    /\ step \in {"gs", "qpdf_optimized", "qpdf_original", "qpdf_minimal", "copy"} =>
          form.operation = "pdf_compress"
    /\ step = "ffmpeg" =>
          form.operation \notin {"image_remove_bg", "pdf_compress"}

\* heic is heif in another spelling.
SameFormat(a, b) == a = b \/ {a, b} = {"heic", "heif"}

\* What a tool has left cut short is written again or given up.
WholeOrGivenUp ==
    /\ step \in {"qpdf_optimized", "copy"} => scratch \in {"none", "whole"}
    /\ step = "stat" => output.content \in {"none", "whole"}
    /\ step = "completed" => output.content = "whole"
    /\ step \in {"stat", "completed"} /\ output.content = "whole" =>
          SameFormat(MimeForExtension(p.output_format),
                     MimeForExtension(output.format))

\* A failure has a cause.
MishapNoted ==
    /\ ended => mishap
    /\ step = "stat" /\ output.content = "none" => mishap

----------------------------------------------------------------------------
(* Properties.                                                             *)

\* What the program relies on once a form is accepted: the parameters the
\* worker reads back are those of the operation and within their bounds,
\* whatever arrived, a zero only where no tool of the operation looks
\* (parseAndValidateParams, ParseParams).
ProcessorsTypeOK ==
    /\ form \in Forms
    /\ step \in Tools \cup Final \cup {"submitted", "accepted", "stat"}
    /\ ended \in BOOLEAN /\ mishap \in BOOLEAN
    /\ scratch \in Contents /\ output.content \in Contents
    /\ step \notin {"submitted", "refused"} =>
          /\ DOMAIN p = DOMAIN ZeroParams
          /\ p.output_format # ""
          /\ p.quality \in 0..100 /\ p.image_quality \in 0..100
          /\ p.image_dpi \in {0} \cup DPIs
          /\ Slides \/ step = "pngquant" => p.quality > 0
          /\ step = "gs" => p.image_dpi > 0 /\ p.image_quality > 0

\* Whatever chain of tools failed, hung or was killed on the way, what is
\* encrypted and served as the result was written to its end: no file that a
\* killed tool cut short passes the worker's look at the output, which asks
\* only whether it is empty (processJob, PDFCompress, compressPNGLossy).
CompletedIsWhole == step = "completed" => output.content = "whole"

\* The name and the MIME type a result is downloaded with are those of the
\* format its bytes are in, whichever of the tools has made it: the row's
\* output_filename and the processors agree (OutputName, MimeForExtension).
NameTellsContent ==
    step = "completed" =>
        LET mime == MimeForExtension(OutputName(form.ext, p.output_format))
        IN  SameFormat(mime, MimeForExtension(output.format))

\* Every tool is called with numbers it takes, at both ends of every slider:
\* pngquant with an interval, the codecs with a bit rate, level or factor of
\* their own range, gs with resolutions that do not fall from one kind of
\* image to the next (compressPNGLossy, lossyAudioArgs, runGhostscript).
ArgumentsInRange ==
    /\ step = "pngquant" =>
          /\ 0 <= minQuality(p.quality)
          /\ minQuality(p.quality) <= p.quality
          /\ p.quality <= 100
    /\ step = "ffmpeg" /\ Slides =>
          Setting(p.quality) \in ToolRange
    /\ step = "gs" =>
          /\ monoDPI(p.image_dpi) \in p.image_dpi..600
          /\ pdfPreset(p.image_quality) \in Presets

\* A step of the page's slider towards "Better" never gives the codec a worse
\* setting, the ends of the slider give the ends of the scale, and between
\* them the setting is off the straight line by less than one unit, in spite
\* of the integer division and of scales that fall (mapRange; app.js).
SliderIsFaithful ==
    step = "ffmpeg" /\ Slides /\ ~LosslessAudio =>
        LET low == Scale[1]
            high == Scale[2]
            slope == high - low
            off == 99 * (Setting(p.quality) - low) - (p.quality - 1) * slope
            gain == Setting(p.quality + 1) - Setting(p.quality)
        IN  /\ Setting(1) = low /\ Setting(100) = high
            /\ -99 < off /\ off < 99
            /\ IF slope > 0 THEN gain >= 0 ELSE gain <= 0

\* The one form of the page no attempt can serve.
CompressesBMP ==
    form.operation = "image_compress" /\ normalizeExt(form.ext) = "bmp"

\* Every form the page lets the user compose passes the API's validation, and
\* its attempt fails only when a tool fails or its time is over: what the API
\* publishes, what the page falls back on, its panels, the API's validation and
\* the processors' switches are tables of their own, and agree.  Compressing a BMP is excepted: PageRequestsCanSucceed.
PageRequestsServed ==
    form \in PageForms =>
        /\ step # "refused"
        /\ step \in {"retry", "failed"} => mishap \/ CompressesBMP

\* The formats the API publishes for an operation are formats it can do:
\* without the exception, what formatsJSON says (handleFormats).
PageRequestsCanSucceed ==
    form \in PageForms /\ step \in {"retry", "failed"} => mishap

\* An attempt that has begun ends, even if the tool it has reached hangs: the
\* worker that runs it becomes free again (runCommand, WithTimeout).
AttemptEnds == step = "accepted" ~> step \in Final

=============================================================================
