---------------------------- MODULE MCPolicyScan -----------------------------
(***************************************************************************)
(* Files of a few lines for the scans of check-determinism.                *)
(***************************************************************************)
EXTENDS PolicyScan

MCFiles ==
  { "Cargo.toml", "crates/det-quant/Cargo.toml", "crates/det-model/Cargo.toml", "xtask/src/main.rs",
    "Cargo.lock", "no Cargo.lock", "crates/README.md" }

MCCodeLines ==
  { {"par"}, {"par", "semicolon"}, {"par", "reduce", "semicolon"}, {"par", "allow"}, {"reduce"},
    {"reduce", "semicolon"}, {"reduce", "allow", "semicolon"}, {"banned", "semicolon"},
    {"banned", "allow"}, {"semicolon"}, {},
    {"table"}, {"table", "definition"}, EndOfArray }

Header(name) == [kind |-> "header", name |-> name]
Entry(key, value) == [kind |-> "entry", key |-> key, value |-> value]
Comment(quotes) == [kind |-> "comment", quotes |-> quotes]

MCManifestLines ==
  { Header(<<"package">>), Header(<<"dependencies">>), Header(<<"workspace", "dev-dependencies">>),
    Header(<<"target", "cfg", "dependencies">>), Header(<<"dependencies", "d">>),
    Header(<<"workspace", "dependencies", "d">>), Header(<<"target", "cfg", "build-dependencies", "cc">>),
    Header(<<"workspace", "lints", "rust">>),
    Entry("d", {"=", "exact"}), Entry("d", {"path", "local"}), Entry("d", {"path"}), Entry("d", {}),
    Entry("d", {"version =", "exact"}), Entry("cc", {"=", "exact"}),
    Entry("version", {"=", "exact"}), Entry("version", {}), Entry("path", {}), Entry("build", {}),
    Entry("unsafe_code", {"forbid"}), Entry("unsafe_code", {"allow"}),
    Comment({}), Comment({"[workspace.lints.rust]", "unsafe_code = forbid"}) }

MCLockLines ==
  { [kind |-> "[[package]]"], [kind |-> "name", package |-> "safe"], [kind |-> "name", package |-> "cc"],
    [kind |-> "version"] }
MCNative == {"cc"}

-----------------------------------------------------------------------------
(* What the documentation speaks of, a kind of file and line at a time. *)

\* The function that scans: the table's name, then its own code.
NamingFiles == {"xtask/src/main.rs"}
NamingLines == { {"table", "definition"}, EndOfArray, {"table"}, {"banned", "semicolon"}, {} }

\* d = { version = "1", features = ["path"] } and what the documentation allows.
ListFiles == {"crates/det-model/Cargo.toml"}
ListLines ==
  { Header(<<"dependencies">>), Entry("d", {"path"}), Entry("d", {"path", "local"}), Entry("d", {"=", "exact"}),
    Entry("d", {}) }

NoLines == {}
=============================================================================
