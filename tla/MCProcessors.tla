---------------------------- MODULE MCProcessors ----------------------------
(***************************************************************************)
(* The forms for TLC: every form the page can send, with every position of *)
(* its sliders, and forms other clients send: every operation with every   *)
(* extension and every output format, numbers at and past the bounds, and  *)
(* "lossless" for every operation.                                         *)
(***************************************************************************)
EXTENDS Processors

Exts == Images \cup Audio \cup Video \cup {"pdf", "JPG", "TIF", "zip", ""}

Form(operation, ext, output_format, quality) ==
    [operation |-> operation, file |-> "fits", ext |-> ext,
     output_format |-> output_format, quality |-> quality, lossless |-> FALSE,
     image_dpi |-> Absent, image_quality |-> Absent]

OddFormats ==
    {Form(op, ext, format, Absent) :
        op \in Operations \cup {"zip"}, ext \in Exts, format \in Exts}

OddNumbers ==
    {[Form(op, ext, "", quality) EXCEPT !.image_dpi = dpi,
                                        !.image_quality = imageQuality] :
        op \in {"image_compress", "pdf_compress"}, ext \in {"png", "pdf"},
        quality \in {Absent, 0, 1, 100, 101}, dpi \in {Absent, 0, 72, 100, 600},
        imageQuality \in {Absent, 0, 1, 100, 101}}

\* Every operation with the checkbox set, those included that do not offer it.
OddLossless ==
    {[Form(op, ext, format, quality) EXCEPT !.lossless = TRUE] :
        op \in Operations, ext \in {"png", "webp", "pdf", "mp3", "flac", "mp4", "avi"},
        format \in {"", "png", "flac", "ogg", "mp4", "mkv", "webm"},
        quality \in {Absent, 1, 50, 100}}

OddFiles ==
    {[Form("image_compress", "png", "", Absent) EXCEPT !.file = file] :
        file \in {"none", "empty", "large"}}

MCForms == PageForms \cup OddFormats \cup OddNumbers \cup OddLossless \cup OddFiles

=============================================================================
