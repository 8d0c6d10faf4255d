------------------------------ MODULE LogFormat ------------------------------
(***************************************************************************)
(* The line the log file writer emits for a WebLog: the template chosen by *)
(* GetFormatTemplate and resolveTemplate (formatter.go, logfilewriter.go)  *)
(* and FormatLog's substitution of the ${name} placeholders, one           *)
(* strings.ReplaceAll after another in the code's order.                   *)
(*                                                                         *)
(* A string is a sequence of characters.  Placeholder names are single     *)
(* characters: ${u} stands for ${url}.  The model keeps the characters     *)
(* that make a placeholder ("$", "{", "}") and the names; field values are *)
(* strings over the same characters.                                      *)
(***************************************************************************)
EXTENDS Integers, SequencesExt

CONSTANTS
    Fields,     \* the placeholders FormatLog replaces, in the code's order
    Nginx,      \* NginxCombinedFormat
    Apache,     \* ApacheCombinedFormat
    Formats,    \* format names a configuration may hold
    Lower,      \* strings.ToLower on those names
    CustomTpls, \* custom templates a configuration may hold
    Logs,       \* WebLogs: functions from the placeholders to field values
    MaxLines    \* bound on the lines written

\* "${" name "}"
Placeholder(f) == <<"$", "{", f, "}">>

\* strings.ReplaceAll(s, old, new) for a non-empty old: the leftmost
\* occurrences, left to right, without overlap; replaced text is not
\* scanned again.
RECURSIVE StrReplaceAll(_, _, _)
StrReplaceAll(s, old, new) ==
    IF Len(s) < Len(old) THEN s
    ELSE IF SubSeq(s, 1, Len(old)) = old
         THEN new \o StrReplaceAll(SubSeq(s, Len(old) + 1, Len(s)), old, new)
         ELSE <<Head(s)>> \o StrReplaceAll(Tail(s), old, new)

\* GetFormatTemplate: "" for custom, Nginx for any unknown name.
GetFormatTemplate(format) ==
    CASE Lower[format] = "apache" -> Apache
      [] Lower[format] = "custom" -> <<>>
      [] OTHER -> Nginx

\* resolveTemplate: the custom template only for format "custom" (compared
\* without lower-casing) with a non-empty template.
ResolveTemplate(format, customTpl) ==
    IF format = "custom" /\ customTpl # <<>> THEN customTpl
    ELSE GetFormatTemplate(format)

\* FormatLog: Nginx for an empty template, then one ReplaceAll per field
\* in the code's order, each on the result of the one before.
FormatLog(log, template) ==
    LET tpl == IF template = <<>> THEN Nginx ELSE template
        Step(result, f) == StrReplaceAll(result, Placeholder(f), log[f])
    IN FoldLeft(Step, tpl, Fields)

VARIABLES
    format,     \* lw.format
    customTpl,  \* lw.customTpl
    template,   \* lw.template, as resolveTemplate left it
    written     \* the records written: the log, the template, the line

vars == <<format, customTpl, template, written>>

\* NewLogFileWriter with a configuration, resolving its template.
Init ==
    /\ format \in Formats
    /\ customTpl \in CustomTpls
    /\ template = ResolveTemplate(format, customTpl)
    /\ written = <<>>

\* NotifySingle: the line FormatLog(log, lw.template) + "\n", under lw.mu.
NotifySingle(log) ==
    /\ Len(written) < MaxLines
    /\ written' = Append(written, [log |-> log, tpl |-> template,
                                   line |-> FormatLog(log, template) \o <<"\n">>])
    /\ UNCHANGED <<format, customTpl, template>>

\* UpdateConfig: the new format and custom template, then resolveTemplate,
\* under lw.mu (the path and limits are LogFileRotation's).
UpdateConfig(f, c) ==
    /\ format' = f
    /\ customTpl' = c
    /\ template' = ResolveTemplate(f, c)
    /\ UNCHANGED written

Next ==
    \/ \E log \in Logs : NotifySingle(log)
    \/ \E f \in Formats, c \in CustomTpls : UpdateConfig(f, c)

Spec == Init /\ [][Next]_vars

(***************************************************************************)
(* Reference: one left-to-right pass over the template that replaces each *)
(* placeholder of a field by the field's value and copies everything else *)
(* (what os.Expand does).                                                  *)
(***************************************************************************)
RECURSIVE Expand(_, _)
Expand(tpl, log) ==
    IF tpl = <<>> THEN <<>>
    ELSE IF \E f \in Range(Fields) :
                Len(tpl) >= 4 /\ SubSeq(tpl, 1, 4) = Placeholder(f)
         THEN log[tpl[3]] \o Expand(SubSeq(tpl, 5, Len(tpl)), log)
         ELSE <<Head(tpl)>> \o Expand(Tail(tpl), log)

\* FormatLog "replaces all template variables" (formatter.go:40): every
\* line written is the template with each placeholder replaced by its
\* field's value, and nothing else changed, followed by a newline; a value
\* that contains or completes a placeholder is written as it is.
LinesExpandTemplate ==
    \A i \in DOMAIN written :
        LET w == written[i]
            tpl == IF w.tpl = <<>> THEN Nginx ELSE w.tpl
        IN w.line = Expand(tpl, w.log) \o <<"\n">>

=============================================================================
