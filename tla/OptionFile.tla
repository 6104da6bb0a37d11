----------------------------- MODULE OptionFile -----------------------------
(***************************************************************************)
(* The options of the program (options.c): written to retroray.cfg when it *)
(* ends, read from it when it starts.  An option that has its default      *)
(* value is written behind a comment mark; the text is read with the       *)
(* parser of scene files.                                                  *)
(***************************************************************************)
EXTENDS TreeText

CONSTANTS
  Video, Input,   \* names of options, in the order of the file
  Values,         \* values of options, as the lexemes that %d prints
  Default         \* the default value of each option

OptionNames == Range(Video) \cup Range(Input)

ASSUME OptionFileAssumption ==
  /\ Range(Video) \cap Range(Input) = {} /\ OptionNames \subseteq Letters
  /\ Default \in [OptionNames -> Values]

VARIABLES
  opt,       \* the options
  cfg,       \* the text of retroray.cfg
  meant,     \* history: the options that the text is to say
  cfgWhole   \* history: all of it was written

optVars == <<opt, cfg, meant, cfgWhole>>

-----------------------------------------------------------------------------
(* save_options.                                                           *)

\* WROPT: the line of an option, a comment if it has the value d.
OptionLine(name, val, d) ==
  Tabs(2) \o (IF val = d THEN <<"#">> ELSE <<>>)
  \o <<name, " ", "=", " ">> \o val \o <<"\n">>

\* Mutant: an option is compared with the default of the first one.
OptionLines_First(names, o) ==
  FlattenSeq([i \in DOMAIN names |-> OptionLine(names[i], o[names[i]], Default[names[1]])])

OptionLines(names, o) ==
  FlattenSeq([i \in DOMAIN names |-> OptionLine(names[i], o[names[i]], Default[names[i]])])

GroupText(group, lines) ==
  <<"\t", group, " ", "{", "\n">> \o lines \o <<"\t", "}", "\n">>

\* The last line is a comment for an editor.
OptionText(o) ==
  <<"options", " ", "{", "\n">>
  \o GroupText("video", OptionLines(Video, o))
  \o GroupText("input", OptionLines(Input, o))
  \o <<"}", "\n", "#", " ", "v", "\n">>

-----------------------------------------------------------------------------
(* load_options.                                                           *)

Named(s, name) == SelectInSeq(s, LAMBDA x : x.name = <<name>>)

\* ts_lookup_int: the value at the path options.<group>.<name>, d when there
\* is none, or none that is a number.
Lookup(root, group, name, d) ==
  LET g == Named(root.kids, group)
      a == IF g = 0 THEN 0 ELSE Named(root.kids[g].attrs, name)
  IN  IF root.name = <<"options">> /\ a # 0 /\ root.kids[g].attrs[a].val.type = "number"
      THEN root.kids[g].attrs[a].val.text ELSE d

LoadedOptions(r) ==
  [name \in OptionNames |->
     Lookup(r.val, IF name \in Range(Video) THEN "video" ELSE "input", name, Default[name])]

-----------------------------------------------------------------------------
(* Sessions.                                                               *)

\* The program starts: a file that cannot be read leaves the defaults.
LoadOptions ==
  /\ LET r == TextLoad(cfg) IN opt' = IF r.ok THEN LoadedOptions(r) ELSE Default
  /\ UNCHANGED <<cfg, meant, cfgWhole>>

\* app_shutdown.
SaveOptions ==
  /\ cfg' = OptionText(opt) /\ meant' = opt /\ cfgWhole' = TRUE
  /\ UNCHANGED opt

\* The results of writing are not looked at: the file may end anywhere.
SaveOptionsCut(n) ==
  /\ cfg' = SubSeq(OptionText(opt), 1, n) /\ meant' = opt /\ cfgWhole' = FALSE
  /\ UNCHANGED opt

\* Between sessions the user writes a file with all options.
EditOptions(o) ==
  /\ cfg' = <<"options", "{">>
            \o GroupText("video", FlattenSeq([i \in DOMAIN Video |-> OptionLine(Video[i], o[Video[i]], <<>>)]))
            \o GroupText("input", FlattenSeq([i \in DOMAIN Input |-> OptionLine(Input[i], o[Input[i]], <<>>)]))
            \o <<"}">>
  /\ meant' = o /\ cfgWhole' = TRUE
  /\ UNCHANGED opt

OptInit == opt = Default /\ meant = Default /\ cfg = <<>> /\ cfgWhole = FALSE

OptNext ==
  \/ LoadOptions \/ SaveOptions
  \/ \E n \in DOMAIN OptionText(opt) : SaveOptionsCut(n)
  \/ \E o \in [OptionNames -> Values] : EditOptions(o)

-----------------------------------------------------------------------------
(* Properties.                                                             *)

\* Options outlive the session: a file that save_options wrote is read as the
\* same options, whichever of them have their default value.  A file whose
\* writing was cut short is either refused or, when only the comment at its
\* end is missing, read as the same options.
OptionsSurvive ==
  LET r == TextLoad(cfg) IN
  /\ cfgWhole => r.ok
  /\ r.ok => LoadedOptions(r) = meant
=============================================================================
