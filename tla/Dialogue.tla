-------------------------------- MODULE Dialogue --------------------------------
(***************************************************************************)
(* The message window that scripts write to (ext.message, message.rs): for *)
(* each call, the window after it.  A text is the sequence of its lines,   *)
(* as split at the ends of line: the empty text is one empty line.  Of the *)
(* style, only which fields a script has set is kept.                      *)
(***************************************************************************)
EXTENDS Integers, Sequences, SequencesExt

EmptyLine == "-"
EmptyText == <<EmptyLine>>
Nobody    == "nobody"
NoPrompt  == "none"

\* str::lines: an empty line at the end does not count.
lines(text) == IF Last(text) = EmptyLine THEN Front(text) ELSE text

MessageWindow ==
    [visible |-> FALSE, speaker |-> Nobody, text |-> EmptyText, locale |-> "ja",
     backlog |-> <<>>, choices |-> <<>>, input_prompt |-> NoPrompt,
     text_speed |-> 48, auto_mode |-> FALSE, skip_mode |-> FALSE, style |-> {}]

Shown(w, speaker, text) ==
    [w EXCEPT !.visible = TRUE, !.speaker = speaker, !.text = text,
              !.backlog = @ \o [i \in DOMAIN lines(text) |-> <<lines(text)[i]>>],
              !.input_prompt = NoPrompt, !.choices = <<>>]

\* Wrong on purpose: a line that is appended is not logged.
Appended__NotLogged(w, line) ==
    [w EXCEPT !.visible = TRUE,
              !.text = IF @ = EmptyText THEN line ELSE @ \o line]

\* What is appended is logged as one entry, also if it has several lines.
Appended(w, line) ==
    [w EXCEPT !.visible = TRUE,
              !.text = IF @ = EmptyText THEN line ELSE @ \o line,
              !.backlog = Append(@, line)]

Chosen(w, labels) ==
    [w EXCEPT !.visible = TRUE,
              !.choices = [i \in DOMAIN labels |-> [id |-> i, label |-> labels[i]]]]
ChosenByName(w, pairs) == [w EXCEPT !.visible = TRUE, !.choices = pairs]
Prompted(w, prompt)    == [w EXCEPT !.visible = TRUE, !.input_prompt = prompt]
Hidden(w)              == [w EXCEPT !.visible = FALSE]

Larger(a, b)     == IF a > b THEN a ELSE b
Paced(w, speed)  == [w EXCEPT !.text_speed = Larger(speed, 0)]
Localized(w, ja) == [w EXCEPT !.locale = IF ja THEN "ja" ELSE "en"]

LogCleared(w) == [w EXCEPT !.backlog = <<>>]
Cleared       == MessageWindow

\* The fields of the style that a call sets.
StyleFields(f) ==
    CASE f = "box_style"             -> {"panel_fill", "panel_stroke"}
      [] f = "input_box_style"       -> {"input_panel_fill", "input_panel_stroke"}
      [] f = "choice_box_style"      -> {"choice_panel_fill", "choice_panel_stroke"}
      [] f = "choice_selected_style" -> {"choice_selected_fill", "choice_selected_stroke"}
      [] f = "font_size"             -> {"body_font_size", "speaker_font_size"}
      [] OTHER                       -> {f}
Styled(w, f)      == [w EXCEPT !.style = @ \cup StyleFields(f)]
Framed(w, some)   == [w EXCEPT !.style = IF some THEN @ \cup {"frame"} ELSE @ \ {"frame"}]
StyleReset(w)     == [w EXCEPT !.style = {}]
=============================================================================
