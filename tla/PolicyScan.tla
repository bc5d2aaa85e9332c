----------------------------- MODULE PolicyScan ------------------------------
(***************************************************************************)
(* xtask check-determinism: three scans over the text of one file, line by *)
(* line.  Source files are scanned for constructs that make results depend *)
(* on the platform, manifests for dependencies that are not pinned, the    *)
(* lock file for packages that build native code.                          *)
(*                                                                         *)
(* check_determinism reads one file after the other and every scan starts  *)
(* afresh, so a behaviour reads one file.  The lines come one by one: the  *)
(* text that was read is kept for the property only.                       *)
(***************************************************************************)
EXTENDS Integers, Sequences, FiniteSets

CONSTANTS
  Files,          \* what the check opens
  CodeLines,      \* a line of code is the set of what it contains, see below
  ManifestLines,  \* headers, entries and comments
  LockLines,
  Native,         \* NATIVE_LINK_DEPENDENCY_NAMES
  MaxLines        \* bound: lines of a file

VARIABLES
  file,
  text,      \* the lines that were read
  inTable,   \* in_banned_pattern_table
  chain,     \* rayon_chain_start is set
  section,   \* the section the current line is in, as classified
  table,     \* the dependency whose own table is being read, or NoTable
  inPackage, \* the lock file's in_package
  violated,  \* some violation was pushed
  outcome    \* "reading", "passed", "refused"

policyVars == <<file, text, inTable, chain, section, table, inPackage, violated, outcome>>

NoTable == [source |-> FALSE, version |-> FALSE, open |-> FALSE]

Lock == "Cargo.lock"
Root == "Cargo.toml"
Quant == "crates/det-quant/Cargo.toml"
Manifests == {Root, Quant, "crates/det-model/Cargo.toml"}

(***************************************************************************)
(* The files under the roots whose extension is that of a policy file;     *)
(* the lock file is read by its name, and its absence is a violation.      *)
(***************************************************************************)
PolicyFiles == Manifests \cup {"xtask/src/main.rs"}

PolicyInit ==
  /\ file \in Files \cap (PolicyFiles \cup {Lock, "no Cargo.lock"})
  /\ text = <<>>
  /\ inTable = FALSE /\ chain = FALSE
  /\ section = "other" /\ table = NoTable
  /\ inPackage = FALSE
  /\ violated = (file = "no Cargo.lock")
  /\ outcome = "reading"

Read(line) ==
  /\ outcome = "reading" /\ Len(text) < MaxLines
  /\ text' = Append(text, line)
  /\ UNCHANGED <<file, outcome>>

-----------------------------------------------------------------------------
(***************************************************************************)
(* Code.  What the scan looks for in a line is text:                       *)
(*   "banned"   a banned construct         "par"        a parallel iterator *)
(*   "reduce"   a reduction on it          "allow"      determinism-allow  *)
(*   "table"    the name of the table of banned constructs                 *)
(*   "semicolon"      which ends a chain, be it inside one of its closures *)
(*   "array end"      a bracket before the semicolon, and nothing else     *)
(* and what the text stands for is not looked at:                          *)
(*   "definition"     the name is that of the table being defined          *)
(***************************************************************************)
EndOfArray == {"array end", "semicolon"}

SkipTable(line) ==
  /\ inTable \/ "table" \in line
  /\ inTable' = (line # EndOfArray)
  /\ UNCHANGED <<chain, violated>>

Allowed(line) ==
  /\ ~inTable /\ "table" \notin line /\ "allow" \in line
  /\ chain' = (chain /\ "semicolon" \notin line)
  /\ UNCHANGED <<inTable, violated>>

Statement(line) ==
  LET open == chain \/ "par" \in line
  IN /\ ~inTable /\ "table" \notin line /\ "allow" \notin line
     /\ violated' = (violated \/ "banned" \in line \/ (open /\ "reduce" \in line))
     /\ chain' = (open /\ "semicolon" \notin line)
     /\ UNCHANGED inTable

ScanCode(line) ==
  /\ file \notin Manifests \cup {Lock, "no Cargo.lock"}
  /\ Read(line)
  /\ SkipTable(line) \/ Allowed(line) \/ Statement(line)
  /\ UNCHANGED <<section, table, inPackage>>

-----------------------------------------------------------------------------
(***************************************************************************)
(* Manifests.  A line is a header with the parts of its name, an entry     *)
(* with a bare key and a value, or a comment.  What the scan looks for in  *)
(* a value is text:                                                        *)
(*   "path"        "path" or "workspace" occurs in it, wherever            *)
(*   "="           it begins with a string that begins with =              *)
(*   "version ="   so does what is assigned where "version" first occurs   *)
(* and what the value says is not looked at:                               *)
(*   "local"       it has a path or is inherited from the workspace        *)
(*   "exact"       it asks for one version, =x.y.z                         *)
(***************************************************************************)
Lists == {"dependencies", "dev-dependencies", "build-dependencies"}

IsHeader(line) == line.kind = "header"
IsEntry(line)  == line.kind = "entry"

InList(name) ==
  \/ Len(name) = 1 /\ name[1] \in Lists
  \/ Len(name) = 2 /\ name[1] = "workspace" /\ name[2] \in Lists
  \/ Len(name) > 1 /\ name[1] = "target" /\ name[Len(name)] \in Lists

OwnTable(name) ==
  \/ Len(name) > 1 /\ name[1] \in Lists
  \/ Len(name) > 2 /\ name[1] = "workspace" /\ name[2] \in Lists
  \/ name[1] = "target" /\ \E i \in 2..(Len(name) - 1) : name[i] \in Lists

Classify(name) ==
  CASE name = <<"package">> -> "package"
    [] InList(name)         -> "list"
    [] OwnTable(name)       -> "table"
    [] OTHER                -> "other"

(* The sections of a manifest that Cargo knows: a list of dependencies, or the table of one of them, or neither. *)
DependencySection(name) ==
  \E k \in DOMAIN name :
    /\ {i \in DOMAIN name : name[i] \in Lists} = {k} /\ Len(name) \in {k, k + 1}
    /\ k = 1 \/ (k = 2 /\ name[1] = "workspace") \/ (k = 3 /\ name[1] = "target")

ASSUME ManifestAssumption ==
  \A line \in ManifestLines :
    \/ /\ IsHeader(line) /\ line.name \in Seq(STRING) \ {<<>>}
       /\ DependencySection(line.name) \/ \A i \in DOMAIN line.name : line.name[i] \notin Lists
    \/ line.kind \in {"entry", "comment"}

(* A table that named no source and no version, when the next header or the end comes. *)
Unpinned == table.open /\ ~table.source /\ ~table.version

(* The scan sees a header by its brackets: no comment follows one on its line. *)
EnterSection(line) ==
  /\ IsHeader(line)
  /\ section' = Classify(line.name)
  /\ table' = [NoTable EXCEPT !.open = section' = "table"]
  /\ violated' = (violated \/ Unpinned \/ (section' = "table" /\ line.name[Len(line.name)] \in Native))

ExactVersion(value) == "=" \in value \/ "version =" \in value
PathOrWorkspace(value) == "path" \in value

PackageEntry(line) ==
  /\ section = "package"
  /\ violated' = (violated \/ line.key \in {"build", "links"})
  /\ UNCHANGED table

ListEntry(line) ==
  /\ section = "list"
  /\ violated' = (violated \/ line.key \in Native \/ ~(PathOrWorkspace(line.value) \/ ExactVersion(line.value)))
  /\ UNCHANGED table

TableEntry(line) ==
  /\ section = "table"
  /\ table' = [table EXCEPT !.source = @ \/ line.key \in {"path", "workspace"},
                            !.version = @ \/ line.key = "version"]
  /\ violated' = (violated \/ (line.key = "version" /\ "=" \notin line.value))

OtherLine(line) ==
  /\ ~IsEntry(line) \/ section = "other"
  /\ UNCHANGED <<table, violated>>

(* In the root manifest two texts are looked for, wherever they are: in a comment too, and under any header. *)
Quotes(line, what) == line.kind = "comment" /\ what \in line.quotes
Forbids ==
  /\ \E i \in 1..Len(text) :
       \/ IsHeader(text[i]) /\ text[i].name = <<"workspace", "lints", "rust">>
       \/ Quotes(text[i], "[workspace.lints.rust]")
  /\ \E i \in 1..Len(text) :
       \/ IsEntry(text[i]) /\ text[i].key = "unsafe_code" /\ text[i].value = {"forbid"}
       \/ Quotes(text[i], "unsafe_code = forbid")
(* An entry is looked for in every line. *)
Allows(i) == IsEntry(text[i]) /\ text[i].key = "unsafe_code" /\ text[i].value = {"allow"}
LintViolated ==
  \/ file = Root /\ ~Forbids
  \/ file # Quant /\ \E i \in 1..Len(text) : Allows(i)

ScanManifest(line) ==
  /\ file \in Manifests
  /\ Read(line)
  /\ \/ EnterSection(line)
     \/ /\ IsEntry(line) /\ (PackageEntry(line) \/ ListEntry(line) \/ TableEntry(line))
        /\ UNCHANGED section
     \/ ~IsHeader(line) /\ OtherLine(line) /\ UNCHANGED section
  /\ UNCHANGED <<inTable, chain, inPackage>>

-----------------------------------------------------------------------------
(* The lock file: "[[package]]", "name" lines with a package, and others. *)
ScanLock(line) ==
  /\ file = Lock
  /\ Read(line)
  /\ inPackage' = (inPackage \/ line.kind = "[[package]]")
  /\ violated' = (violated \/ (inPackage /\ line.kind = "name" /\ line.package \in Native))
  /\ UNCHANGED <<inTable, chain, section, table>>

(* A mutated form: the table that is open at the end of the file is not looked at. *)
FinishInTable ==
  /\ outcome = "reading"
  /\ outcome' = IF violated \/ (file \in Manifests /\ LintViolated) THEN "refused" ELSE "passed"
  /\ UNCHANGED <<file, text, inTable, chain, section, table, inPackage, violated>>

Finish ==
  /\ outcome = "reading"
  /\ outcome' = IF \/ violated
                   \/ file \in Manifests /\ (Unpinned \/ LintViolated)
                THEN "refused" ELSE "passed"
  /\ UNCHANGED <<file, text, inTable, chain, section, table, inPackage, violated>>

PolicyNext ==
  \/ \E line \in CodeLines : ScanCode(line)
  \/ \E line \in ManifestLines : ScanManifest(line)
  \/ \E line \in LockLines : ScanLock(line)
  \/ Finish

PolicySpec == PolicyInit /\ [][PolicyNext]_policyVars

-----------------------------------------------------------------------------
(* The definition of the table is no code, to the end of the array. *)
InDefinition(i) ==
  \E d \in 1..i : "definition" \in text[d] /\ \A k \in d..(i - 1) : text[k] # EndOfArray

(* The table is named, up to here, where it is not defined. *)
NamedElsewhere(i) == \E d \in 1..i : "table" \in text[d] /\ "definition" \notin text[d]

OnePiece(i, j) == \A k \in i..(j - 1) : "semicolon" \notin text[k]

CodeIsClean ==
  \A i, j \in {k \in 1..Len(text) : ~InDefinition(k) /\ ~NamedElsewhere(k) /\ "allow" \notin text[k]} :
    /\ "banned" \notin text[i]
    /\ i <= j /\ OnePiece(i, j) => ~("par" \in text[i] /\ "reduce" \in text[j])

(* The headers, and the entries under the one at h. *)
Headers == {i \in 1..Len(text) : IsHeader(text[i])}
Under(h) ==
  {i \in (h + 1)..Len(text) : IsEntry(text[i]) /\ (h + 1)..i \cap Headers = {}}

(* What a dependency should be, and the values for which the text that the scan finds says what it is. *)
Pinned(i) == "local" \in text[i].value \/ "exact" \in text[i].value
ReadRight(i) ==
  /\ PathOrWorkspace(text[i].value) => "local" \in text[i].value
  /\ ExactVersion(text[i].value) => "exact" \in text[i].value
Settled(i) == ReadRight(i) => Pinned(i)

DependenciesArePinned ==
  \A h \in Headers :
    LET name == text[h].name
        last == Len(name)
    IN /\ name[last] \in Lists => \A i \in Under(h) : Settled(i) /\ text[i].key \notin Native
       /\ last > 1 /\ name[last - 1] \in Lists =>
            /\ \E i \in Under(h) : text[i].key \in {"path", "workspace"} \/ (text[i].key = "version" /\ Settled(i))
            /\ name[last] \notin Native
       /\ name = <<"package">> => \A i \in Under(h) : text[i].key \notin {"build", "links"}

PackagesArePure ==
  \A i \in 1..Len(text) :
    text[i].kind = "name" /\ (\E h \in 1..i : text[h].kind = "[[package]]") => text[i].package \notin Native

(***************************************************************************)
(* What a passed check is worth, against a reading of the whole text that  *)
(* keeps no state: in code, up to the first line that names the table      *)
(* without defining it, nothing is banned and no parallel iterator is      *)
(* reduced before the next semicolon, on however many lines; every         *)
(* dependency, in a list or a table of its own and the last of the file    *)
(* too, is pinned or local, as far as its text says what it is; no package *)
(* builds native code.                                                     *)
(***************************************************************************)
PassedFilesAreClean ==
  outcome = "passed" =>
    CASE file = Lock         -> PackagesArePure
      [] file \in Manifests  -> DependenciesArePinned
      [] file \in PolicyFiles \ Manifests -> CodeIsClean

(***************************************************************************)
(* docs/validation.md:446 says that the check scans implementation files.  *)
(* A file that passes has a banned construct nowhere but in the definition *)
(* of the table and where it is allowed.  main.rs:594 passes over what     *)
(* follows any line that names the table.                                  *)
(***************************************************************************)
ImplementationIsScanned ==
  outcome = "passed" /\ file \in PolicyFiles \ Manifests =>
    \A i \in 1..Len(text) : "banned" \in text[i] => InDefinition(i) \/ "allow" \in text[i]

(***************************************************************************)
(* docs/validation.md:476-478 says that path dependencies are accepted and *)
(* external ones must use exact versions.  Every entry in the lists of a   *)
(* manifest that passes is one or the other.  main.rs:904 looks for the    *)
(* words "path" and "workspace" anywhere in the value.                     *)
(***************************************************************************)
ExternalVersionsAreExact ==
  outcome = "passed" /\ file \in Manifests =>
    \A h \in Headers : text[h].name[Len(text[h].name)] \in Lists => \A i \in Under(h) : Pinned(i)
=============================================================================
