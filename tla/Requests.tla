------------------------------ MODULE Requests ------------------------------
(***************************************************************************)
(* What a request asks for: the formats of each operation                  *)
(* (internal/models), the validation of an upload's form by the API        *)
(* (handleCreateJob, parseAndValidateParams), its parameters on their way  *)
(* through the row to the worker, the name of the result, and the forms    *)
(* the page can send (frontend/app.js).  An extension stands for a name;   *)
(* a MIME type for its format, which it determines up to jpg and tif.      *)
(***************************************************************************)
EXTENDS Integers

Absent == -1    \* a number the form does not have; 0 stands for no number

Operations == {"image_convert", "image_compress", "image_remove_bg",
               "pdf_compress", "audio_convert", "audio_compress",
               "video_compress"}

Images == {"jpeg", "jpg", "png", "webp", "tiff", "tif", "gif", "avif",
           "heif", "heic", "bmp"}
Audio == {"mp3", "wav", "flac", "ogg", "opus", "aac", "m4a", "aiff", "wma"}
Video == {"mp4", "mkv", "webm", "avi", "mov"}

inputFormats == [
    image_convert   |-> Images,
    image_compress  |-> Images,
    image_remove_bg |-> Images \ {"gif", "avif", "heif", "heic"},
    pdf_compress    |-> {"pdf"},
    audio_convert   |-> Audio,
    audio_compress  |-> Audio,
    video_compress  |-> Video]

\* An empty set: the input formats.
outputFormats == [
    image_convert   |-> Images \ {"jpg", "tif", "heic"},
    image_compress  |-> {},
    image_remove_bg |-> {"png", "webp"},
    pdf_compress    |-> {"pdf"},
    audio_convert   |-> Audio \ {"wma"},
    audio_compress  |-> {},
    video_compress  |-> {"mp4", "mkv", "webm"}]

ValidInputFormat(operation, ext) == ext \in inputFormats[operation]

ValidOutputFormat(operation, ext) ==
    IF outputFormats[operation] = {} THEN ValidInputFormat(operation, ext)
    ELSE ext \in outputFormats[operation]

\* Names may be spelled in capitals.
Capitals == [JPG |-> "jpg", TIF |-> "tif", MP3 |-> "mp3"]

ToLower(ext) == IF ext \in DOMAIN Capitals THEN Capitals[ext] ELSE ext

ShortNames == [jpg |-> "jpeg", tif |-> "tiff"]

normalizeExt(ext) ==
    IF ToLower(ext) \in DOMAIN ShortNames THEN ShortNames[ToLower(ext)]
    ELSE ToLower(ext)

MimeForExtension(ext) ==
    IF ToLower(ext) \in Images \cup Audio \cup Video \cup {"pdf"}
    THEN normalizeExt(ext) ELSE "octet-stream"

\* Mutant of OutputName: the result keeps the extension of the upload.
OriginalName(ext, format) == ToLower(ext)

\* The extension of the result's name.
OutputName(ext, format) == IF format = "" THEN ext ELSE ToLower(format)

----------------------------------------------------------------------------
(* The form of POST /api/jobs.                                             *)

\* Mutant of DPIs: the resolution for screens is gone.
PrinterDPIs == {150, 300, 600}

DPIs == {72, 150, 300, 600}

\* Mutant of NumbersValid: values past the end of the slider.
NumbersAlmostValid(form) ==
    /\ form.quality \in {Absent} \cup 1..101
    /\ form.image_quality \in {Absent} \cup 1..100
    /\ form.image_dpi \in {Absent} \cup DPIs

NumbersValid(form) ==
    /\ form.quality \in {Absent} \cup 1..100
    /\ form.image_quality \in {Absent} \cup 1..100
    /\ form.image_dpi \in {Absent} \cup DPIs

\* What a form that does not ask for a format gets.
DefaultFormat(operation, input) ==
    IF operation = "image_remove_bg" THEN "png"
    ELSE IF operation \in {"image_compress", "audio_compress"} THEN input
    ELSE IF operation # "video_compress" THEN ""
    ELSE IF ValidOutputFormat(operation, input) THEN input ELSE "mp4"

OutputFormat(form) ==
    LET asked == normalizeExt(form.output_format)
    IN  IF form.operation = "pdf_compress" THEN "pdf"
        ELSE IF asked # "" THEN asked
        ELSE DefaultFormat(form.operation, normalizeExt(form.ext))

\* The compressions take any format they are asked for.
OutputAccepted(form) ==
    \/ form.operation \in {"image_compress", "audio_compress"}
    \/ ValidOutputFormat(form.operation, OutputFormat(form))

Accepts(form) ==
    /\ form.operation \in Operations
    /\ form.file = "fits"
    /\ ValidInputFormat(form.operation, normalizeExt(form.ext))
    /\ OutputAccepted(form)
    /\ NumbersValid(form)

Number(value, default) == IF value = Absent THEN default ELSE value

DefaultQualities == [image_compress |-> 80, audio_compress |-> 70,
                     video_compress |-> 65]

Default(operation) == IF operation \in DOMAIN DefaultQualities
                      THEN DefaultQualities[operation] ELSE 0

parseAndValidateParams(form) ==
    LET pdf == form.operation = "pdf_compress"
    IN  [output_format |-> OutputFormat(form),
         quality       |-> Number(form.quality, Default(form.operation)),
         lossless      |-> form.lossless,
         image_dpi     |-> Number(form.image_dpi, IF pdf THEN 150 ELSE 0),
         image_quality |-> Number(form.image_quality, IF pdf THEN 75 ELSE 0)]

\* jobs.params is JSON with omitempty: a zero value is not stored.
ZeroParams == [output_format |-> "", quality |-> 0, lossless |-> FALSE,
               image_dpi |-> 0, image_quality |-> 0]

StoredParams(p) ==
    [f \in {g \in DOMAIN p : p[g] # ZeroParams[g]} |-> p[f]]

ParseParams(stored) ==
    [f \in DOMAIN ZeroParams |->
        IF f \in DOMAIN stored THEN stored[f] ELSE ZeroParams[f]]

----------------------------------------------------------------------------
(* The page: its tables are its own, or what the API publishes.            *)

\* GET /api/formats.  Where the output is "same_as_input" there is no list.
formatsJSON == [
    image_convert   |-> [
        input  |-> {"jpeg", "jpg", "png", "webp", "tiff", "tif", "gif", "avif",
                    "heif", "heic", "bmp"},
        output |-> {"jpeg", "png", "webp", "tiff", "gif", "avif", "heif",
                    "bmp"}],
    image_compress  |-> [
        input  |-> {"jpeg", "jpg", "png", "webp", "tiff", "tif", "gif", "avif",
                    "heif", "heic", "bmp"},
        output |-> {}],
    image_remove_bg |-> [
        input  |-> {"jpeg", "jpg", "png", "webp", "tiff", "tif", "bmp"},
        output |-> {"png", "webp"}],
    pdf_compress    |-> [input |-> {"pdf"}, output |-> {"pdf"}],
    audio_convert   |-> [
        input  |-> {"mp3", "wav", "flac", "ogg", "opus", "aac", "m4a", "aiff",
                    "wma"},
        output |-> {"mp3", "wav", "flac", "ogg", "opus", "aac", "m4a", "aiff"}],
    audio_compress  |-> [
        input  |-> {"mp3", "wav", "flac", "ogg", "opus", "aac", "m4a", "aiff",
                    "wma"},
        output |-> {}],
    video_compress  |-> [
        input  |-> {"mp4", "mkv", "webm", "avi", "mov"},
        output |-> {"mp4", "mkv", "webm"}]]

\* What loadFormats falls back on when it gets no answer.
fallbackFormats == [
    image_convert   |-> [
        input  |-> {"jpeg", "jpg", "png", "webp", "tiff", "tif", "gif", "avif",
                    "heif", "heic", "bmp"},
        output |-> {"jpeg", "png", "webp", "tiff", "gif", "avif", "heif",
                    "bmp"}],
    image_compress  |-> [
        input  |-> {"jpeg", "jpg", "png", "webp", "tiff", "tif", "gif", "avif",
                    "heif", "heic", "bmp"},
        output |-> {}],
    image_remove_bg |-> [
        input  |-> {"jpeg", "jpg", "png", "webp", "tiff", "tif", "bmp"},
        output |-> {"png", "webp"}],
    pdf_compress    |-> [input |-> {"pdf"}, output |-> {"pdf"}],
    audio_convert   |-> [
        input  |-> {"mp3", "wav", "flac", "ogg", "opus", "aac", "m4a", "aiff",
                    "wma"},
        output |-> {"mp3", "wav", "flac", "ogg", "opus", "aac", "m4a", "aiff"}],
    audio_compress  |-> [
        input  |-> {"mp3", "wav", "flac", "ogg", "opus", "aac", "m4a", "aiff",
                    "wma"},
        output |-> {}],
    video_compress  |-> [
        input  |-> {"mp4", "mkv", "webm", "avi", "mov"},
        output |-> {"mp4", "mkv", "webm"}]]

\* The options of each tool's panel; an option it has not is not sent.
toolConfig == [
    image_convert   |-> {"output_format"},
    image_compress  |-> {"quality", "lossless"},
    image_remove_bg |-> {"output_format_bg"},
    pdf_compress    |-> {"image_dpi", "image_quality"},
    audio_convert   |-> {"output_format"},
    audio_compress  |-> {"quality", "lossless"},
    video_compress  |-> {"output_format", "quality"}]

Panel(tool, option, values, unsent) ==
    IF option \in toolConfig[tool] THEN values ELSE {unsent}

\* Either select of formats; without formats to choose from there is none.
FormatSelect(tool, outputs) ==
    IF toolConfig[tool] \cap {"output_format", "output_format_bg"} = {}
       \/ outputs = {}
    THEN {""} ELSE outputs

\* buildDpiSelect.
DpiOptions == {72, 150, 300, 600}

\* setFile takes a name whose extension the table has, in small letters.
FormsOfTool(tool, formats) ==
    [operation     : {tool},
     file          : {"fits"},
     ext           : {ext \in formats[tool].input \cup DOMAIN Capitals :
                         ToLower(ext) \in formats[tool].input},
     output_format : FormatSelect(tool, formats[tool].output),
     quality       : Panel(tool, "quality", 1..100, Absent),
     lossless      : Panel(tool, "lossless", BOOLEAN, FALSE),
     image_dpi     : Panel(tool, "image_dpi", DpiOptions, Absent),
     image_quality : Panel(tool, "image_quality", 1..100, Absent)]

PageForms == UNION {FormsOfTool(tool, formats) :
                       tool \in DOMAIN toolConfig,
                       formats \in {formatsJSON, fallbackFormats}}

=============================================================================
