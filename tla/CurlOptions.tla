----------------------------- MODULE CurlOptions -----------------------------
(***************************************************************************)
(* The options of Curl objects: the natives curl_setopt_* with the table   *)
(* of opts.h, the defaults of curl_wrap.cpp, duplicates and resets.        *)
(*                                                                         *)
(* A string argument is in a buffer that all natives share and that the    *)
(* next one overwrites.  libcurl copies the strings it is given, except    *)
(* for CURLOPT_POSTFIELDS, whose pointer it keeps.  CURLOPT_WRITEDATA and  *)
(* CURLOPT_READDATA are the context WriteFunction and ReadFunction cast to *)
(* a Curl object.  A value that libcurl refuses leaves its option as it    *)
(* was, so that no call is needed here for it.                             *)
(***************************************************************************)
CONSTANTS
  Curls,          \* Curl objects
  StringOptions, CellOptions,  \* options of opts.h by type
  ListOptions, ContextOptions, \* those with a handle: lists, and READDATA, WRITEDATA
  CURLOPT_POSTFIELDS, CURLOPT_COPYPOSTFIELDS, CURLOPT_NOSIGNAL,
  Texts, Numbers, Lists,       \* values
  On,             \* the number 1
  Default,        \* the value libcurl gives an option
  Buffer          \* the address of the shared buffer

HandleOptions == ListOptions \cup ContextOptions
Options       == StringOptions \cup CellOptions \cup HandleOptions

ASSUME OptionAssumption ==
  /\ CURLOPT_POSTFIELDS \in StringOptions /\ CURLOPT_NOSIGNAL \in CellOptions
  /\ CURLOPT_COPYPOSTFIELDS \notin Options
  /\ StringOptions \cap CellOptions = {} /\ ListOptions \cap ContextOptions = {}
  /\ HandleOptions \cap (StringOptions \cup CellOptions) = {}
ASSUME ValueAssumption ==
  On \in Numbers /\ Buffer \notin Texts \cup Numbers \cup Lists \cup Curls \cup {Default}

VARIABLES
  owner,    \* who may use a Curl object: nobody, plugins, or the worker
  buffer,   \* the string in the shared buffer
  setting,  \* what libcurl keeps for each option of a Curl
  meant     \* history: what the plugin set since curl_init or curl_reset

vars == <<owner, buffer, setting, meant>>

Value(option) ==
  {Default} \cup (IF option \in StringOptions THEN Texts \cup {Buffer}
                  ELSE IF option \in CellOptions THEN Numbers
                  ELSE IF option \in ListOptions THEN Lists ELSE Curls)

NothingSet == [option \in Options |-> Default]

Init ==
  /\ owner = [c \in Curls |-> "none"]
  /\ buffer \in Texts
  /\ setting = [c \in Curls |-> NothingSet] /\ meant = setting

\* SetDefaultOptions(c), on top of the options in s.
WithDefaults(c, s) ==
  [option \in Options |-> IF option \in ContextOptions THEN c
                          ELSE IF option = CURLOPT_NOSIGNAL THEN On ELSE s[option]]

-----------------------------------------------------------------------------
(* Natives that make and drop options *)

CurlInit(c) ==
  /\ owner[c] = "none"
  /\ owner' = [owner EXCEPT ![c] = "plugin"]
  /\ setting' = [setting EXCEPT ![c] = WithDefaults(c, NothingSet)]
  /\ meant' = [meant EXCEPT ![c] = NothingSet]
  /\ UNCHANGED buffer

\* Mutant: the defaults are those libcurl's duplicate took over.
MakeDuplicatePlain(c, d, to) ==
  /\ owner[c] = "plugin" /\ owner[d] = "none"
  /\ owner' = [owner EXCEPT ![d] = to]
  /\ setting' = [setting EXCEPT ![d] = setting[c]]
  /\ meant' = [meant EXCEPT ![d] = meant[c]]

MakeDuplicate(c, d, to) ==
  /\ owner[c] = "plugin" /\ owner[d] = "none"
  /\ owner' = [owner EXCEPT ![d] = to]
  /\ setting' = [setting EXCEPT ![d] = WithDefaults(d, setting[c])]
  /\ meant' = [meant EXCEPT ![d] = meant[c]]

CurlDupHandle(c, d) == MakeDuplicate(c, d, "plugin") /\ UNCHANGED buffer

\* The callback's name goes through the shared buffer.
CurlThreadExec(c, d) ==
  /\ MakeDuplicate(c, d, "worker")
  /\ buffer' \in Texts

CurlReset(c) ==
  /\ owner[c] = "plugin"
  /\ setting' = [setting EXCEPT ![c] = WithDefaults(c, NothingSet)]
  /\ meant' = [meant EXCEPT ![c] = NothingSet]
  /\ UNCHANGED <<owner, buffer>>

\* curl_close, or the end of the worker's transfer.
Delete(c) ==
  /\ owner[c] # "none"
  /\ owner' = [owner EXCEPT ![c] = "none"]
  /\ setting' = [setting EXCEPT ![c] = NothingSet]
  /\ meant' = [meant EXCEPT ![c] = NothingSet]
  /\ UNCHANGED buffer

\* Other natives read strings: curl_escape, curl_unescape, curl_exec,
\* curl_slist_append, curl_form_add, and those of other modules.
ReadString(text) ==
  /\ buffer' = text
  /\ UNCHANGED <<owner, setting, meant>>

-----------------------------------------------------------------------------
(* curl_setopt_*: an option of another type is refused *)

Put(c, option, kept, value) ==
  /\ setting' = [setting EXCEPT ![c][option] = kept]
  /\ meant' = [meant EXCEPT ![c][option] = value]

\* Mutant: the type of the option is not looked up.
CurlSetOptCellAny(c, option, number) ==
  /\ owner[c] = "plugin"
  /\ Put(c, option, number, number)
  /\ UNCHANGED <<owner, buffer>>

CurlSetOptCell(c, option, number) ==
  /\ owner[c] = "plugin" /\ option \in CellOptions
  /\ Put(c, option, number, number)
  /\ UNCHANGED <<owner, buffer>>

\* Mutant: the option is passed on as it is.
PassedPlain(option) == option

\* SetOptionString forces libcurl to copy.
Passed(option) ==
  IF option = CURLOPT_POSTFIELDS THEN CURLOPT_COPYPOSTFIELDS ELSE option

\* curl_easy_setopt with the address of the buffer.
Kept(option, text) == IF option = CURLOPT_POSTFIELDS THEN Buffer ELSE text

CurlSetOptString(c, option, text) ==
  /\ owner[c] = "plugin" /\ option \in StringOptions
  /\ buffer' = text
  /\ Put(c, option, Kept(Passed(option), text), text)
  /\ UNCHANGED owner

\* The switch knows two of the options: the others are accepted, with the code of
\* success, and nothing is set.
CurlSetOptHandle(c, option, list) ==
  /\ owner[c] = "plugin" /\ option \in ListOptions
  /\ Put(c, option, list, list)
  /\ UNCHANGED <<owner, buffer>>

Next ==
  \/ \E c \in Curls :
       \/ CurlInit(c) \/ CurlReset(c) \/ Delete(c)
       \/ \E d \in Curls : CurlDupHandle(c, d) \/ CurlThreadExec(c, d)
       \/ \E option \in Options, number \in Numbers : CurlSetOptCell(c, option, number)
       \/ \E option \in Options, text \in Texts : CurlSetOptString(c, option, text)
       \/ \E option \in Options, list \in Lists : CurlSetOptHandle(c, option, list)
  \/ \E text \in Texts : ReadString(text)

Spec == Init /\ [][Next]_vars

-----------------------------------------------------------------------------
(* Properties *)

\* Also: libcurl takes every value for what it is (its setopt looks at nothing but
\* the number of the option, so the table of opts.h has to).
TypeOK ==
  /\ owner \in [Curls -> {"none", "plugin", "worker"}] /\ buffer \in Texts
  /\ {setting, meant} \subseteq [Curls -> [Options -> UNION {Value(option) : option \in Options}]]
  /\ \A c \in Curls, option \in Options :
       setting[c][option] \in Value(option) /\ meant[c][option] \in Value(option) \ {Buffer}

\* What a transfer reads when it looks at an option.
Used(c, option) == IF setting[c][option] = Buffer THEN buffer ELSE setting[c][option]

\* A Curl, and a duplicate that the worker performs later, uses the values that were
\* set, whatever strings natives have read since and whatever was set afterwards in
\* the object it was made from (curl_wrap.cpp, "force curl copy postfields").
OptionsKeepValues ==
  \A c \in Curls, option \in Options \ (ContextOptions \cup {CURLOPT_NOSIGNAL}) :
    owner[c] # "none" => Used(c, option) = meant[c][option]

\* WriteFunction gets the Curl it writes for, never the original of a duplicate or a
\* list, and a transfer in the worker's thread never uses signals, even if the
\* plugin turned them on in the original (curl_wrap.cpp, SetDefaultOptions).
DefaultsHold ==
  \A c \in Curls :
    /\ owner[c] # "none" => \A option \in ContextOptions : setting[c][option] = c
    /\ owner[c] = "worker" => setting[c][CURLOPT_NOSIGNAL] = On
=============================================================================
