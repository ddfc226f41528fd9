------------------------------ MODULE MoveConfig ------------------------------
(***************************************************************************)
(* Configuration of the Move analyzer's VS Code extension                  *)
(* (move-analyzer/editors/code/src/configuration.ts).  The constructor     *)
(* snapshots the `move` section of the workspace settings and computes the *)
(* default server location; the getters turn the snapshot into the paths   *)
(* of the move-analyzer and mys binaries and the lint and inlay-hint       *)
(* options.  The user edits settings at any time; the extension builds a   *)
(* new Configuration when it (re)starts the server.                        *)
(*                                                                         *)
(* A path string is a sequence of tokens: "/" (the separator), "~", ".."  *)
(* and names; a segment is the tokens between two separators.  What a     *)
(* path denotes is its list of segments once ".." is resolved.            *)
(***************************************************************************)
EXTENDS Naturals, Sequences, SequencesExt

CONSTANTS
    Null,          \* an unset setting (`get` returns undefined)
    Names,         \* path names other than the binaries' (e.g. "bin")
    MaxServerLen,  \* bound on the tokens of a server.path setting
    MaxMysLen      \* bound on the tokens of a mys.path setting

ASSUME ConstAssumption == MaxServerLen \in Nat /\ MaxMysLen \in Nat

Platforms == {"linux", "win32"}

\* os.homedir() and the extension host's process.cwd(), both absolute.
Home == <<"/", "home">>
Cwd == <<"/", "work">>

\* The binaries' names on a platform (lines 37-41 and 61).
ServerName(p) == IF p = "win32" THEN "move-analyzer.exe" ELSE "move-analyzer"
MysBin(p) == IF p = "win32" THEN "mys.exe" ELSE "mys"

Tokens(p) == {"/", "~", ".."} \cup Names \cup {MysBin(p)}

\* The values a path setting can have: a non-empty token string, or unset.
PathValues(p, n) == (SeqOf(Tokens(p), n) \ {<<>>}) \cup {Null}

-----------------------------------------------------------------------------
(* What a path string denotes.                                             *)

\* A separator closes the current segment: an empty one is dropped, ".."
\* drops the previous segment (none above the root), others are kept.
CloseSegment(segs, cur) ==
    CASE cur = <<>>       -> segs
      [] cur = <<"..">>   -> IF segs = <<>> THEN segs ELSE Front(segs)
      [] OTHER            -> Append(segs, cur)

CanonStep(st, t) ==
    IF t = "/" THEN [segs |-> CloseSegment(st.segs, st.cur), cur |-> <<>>]
    ELSE [segs |-> st.segs, cur |-> Append(st.cur, t)]

\* The segments of a path string, ".." resolved.
Canon(s) ==
    LET st == FoldLeft(CanonStep, [segs |-> <<>>, cur |-> <<>>], s)
    IN  CloseSegment(st.segs, st.cur)

\* The absolute path string of a list of segments.
JoinSegments(segs) ==
    IF segs = <<>> THEN <<"/">>
    ELSE FoldLeft(LAMBDA acc, seg : acc \o <<"/">> \o seg, <<>>, segs)

IsAbsolute(s) == s # <<>> /\ s[1] = "/"

\* The '~/' prefix test of lines 53 and 67.
StartsWithHome(s) == Len(s) >= 2 /\ s[1] = "~" /\ s[2] = "/"

\* path.resolve (lines 56 and 70): relative to process.cwd(), normalised.
Resolve(s) == JoinSegments(Canon(IF IsAbsolute(s) THEN s ELSE Cwd \o <<"/">> \o s))

\* The file a returned absolute path names.
Denotes(s) == Canon(s)

-----------------------------------------------------------------------------
(* The constructor and getters of Configuration.                           *)

\* Lines 36 and 42: <home>/.mys/bin/<serverName>, as an fsPath string.
DefaultServerPath(p) == Home \o <<"/", ".mys", "/", "bin", "/", ServerName(p)>>

\* Mutation used to test ServerPathMeansSetting (not part of the model):
\* `path.resolve` left out.
ServerPathOf_NoResolve(v, p) ==
    LET s == IF v = Null THEN DefaultServerPath(p) ELSE v
    IN  IF StartsWithHome(s) THEN Home \o Tail(s) ELSE s

\* get serverPath (lines 51-57): the setting or the default path; a
\* leading '~/' is replaced by the home directory, anything else resolved.
ServerPathOf(v, p) ==
    LET s == IF v = Null THEN DefaultServerPath(p) ELSE v
    IN  IF StartsWithHome(s) THEN Home \o Tail(s) ELSE Resolve(s)

\* Mutation used to test MysPathMeansSetting (not part of the model): the
\* bare binary name resolved like any other relative path.
MysPathOf_NoBareName(v, p) ==
    LET s == IF v = Null THEN <<MysBin(p)>> ELSE v
    IN  IF StartsWithHome(s) THEN Home \o Tail(s) ELSE Resolve(s)

\* get mysPath (lines 60-71): the bare binary name, for a PATH lookup,
\* when unset or set to that name; otherwise as serverPath.
MysPathOf(v, p) ==
    LET s == IF v = Null THEN <<MysBin(p)>> ELSE v
    IN  CASE s = <<MysBin(p)>> -> s
          [] StartsWithHome(s) -> Home \o Tail(s)
          [] OTHER             -> Resolve(s)

\* get lint, inlayHintsForType, inlayHintsForParam (lines 73-83).
LintOf(v) == IF v = Null THEN "default" ELSE v
HintOf(v) == IF v = Null THEN FALSE ELSE v

-----------------------------------------------------------------------------
(* The settings and the Configuration object.                              *)

\* The values each option of the `move` section can take.
OptionValues(p) ==
    [server |-> PathValues(p, MaxServerLen), mys |-> PathValues(p, MaxMysLen),
     lint |-> {Null, "all"}, typeHints |-> {Null, TRUE}, paramHints |-> {Null, TRUE}]

Unset == [o \in DOMAIN OptionValues("linux") |-> Null]

VARIABLES
    platform,  \* process.platform
    conf       \* the settings snapshot held by the current Configuration

vars == <<platform, conf>>

\* The extension activates on a fresh install: `new Configuration()`
\* (lines 34-43) reads settings with no option set.
Init ==
    /\ platform \in Platforms
    /\ conf = Unset

\* The user sets or clears one option and the extension builds a new
\* Configuration (lines 34-43), whose constructor reads the settings as
\* they are now.
Reconfigure(opt, v) ==
    /\ conf' = [conf EXCEPT ![opt] = v]
    /\ UNCHANGED platform

Next ==
    \E opt \in DOMAIN OptionValues(platform) :
       \E v \in OptionValues(platform)[opt] : Reconfigure(opt, v)

Spec == Init /\ [][Next]_vars

-----------------------------------------------------------------------------
(* Properties *)

\* The binary a path setting means: the default location when unset, the
\* rest of the path under the home directory after '~/', else the path
\* from the working directory.
SettingMeans(s, default) ==
    CASE s = Null           -> Canon(default)
      [] StartsWithHome(s)  -> Canon(Home \o Tail(s))
      [] OTHER              -> Canon(IF IsAbsolute(s) THEN s ELSE Cwd \o <<"/">> \o s)

\* get serverPath gives the language client an absolute path to the file
\* the server.path setting, or its absence, designates: after a '~/'
\* expansion (which the code does not normalise) as after path.resolve.
ServerPathMeansSetting ==
    LET r == ServerPathOf(conf.server, platform) IN
       /\ IsAbsolute(r)
       /\ Denotes(r) = SettingMeans(conf.server, DefaultServerPath(platform))

\* get mysPath hands the bare binary name to a PATH lookup exactly when
\* mys.path is unset or is that name, and otherwise an absolute path to
\* the file the setting designates.
MysPathMeansSetting ==
    LET r == MysPathOf(conf.mys, platform) IN
       IF conf.mys \in {Null, <<MysBin(platform)>>}
       THEN r = <<MysBin(platform)>>
       ELSE IsAbsolute(r) /\ Denotes(r) = SettingMeans(conf.mys, <<>>)

=============================================================================
