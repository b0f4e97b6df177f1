------------------------------ MODULE ScanSource ------------------------------
(***************************************************************************)
(* scan.py: the verdict on one source, a file or a buffer.                 *)
(*                                                                         *)
(* A content stands for the bytes of a source and is a record of what the  *)
(* stages of the analysis find in them:                                    *)
(*   size                                                                  *)
(*   enc       "text", "nul" or "utf8" (an undecodable sequence)           *)
(*   format    the detected format, or None                                *)
(*   defects   findings of a detection that fails                          *)
(*   load      "ok", "limit" (too many records, or an I/O error), "crash"  *)
(*   empty     the adapter finds no event                                  *)
(*   blank     nothing but whitespace or a BOM                             *)
(*   adapter, checks   findings of the adapter and of the checks           *)
(* and, for the passes over a whole scan, session, tip and links.          *)
(* A finding is [code, severity, at, path].                                *)
(*                                                                         *)
(* Every stage opens the path again, and so may meet another content: seen *)
(* maps a stage to the content it met.  (Of a buffer, all meet the same.)  *)
(***************************************************************************)
EXTENDS Naturals, Sequences, FiniteSets, SequencesExt

CONSTANT None

Verdict == {"healthy", "invalid", "unsupported", "unreadable", "skipped"}

IsError(f) == f.severity \in {"error", "fatal"}
IsWarning(f) == f.severity = "warning"
Count(findings, Is(_)) == Len(SelectSeq(findings, Is))
Finding(code, severity, at, path) == [code |-> code, severity |-> severity, at |-> at, path |-> path]
At(path, findings) == [i \in DOMAIN findings |->
                         Finding(findings[i].code, findings[i].severity, findings[i].at, path)]

Result(path, verdict, reason, findings) ==
  [path |-> path, verdict |-> verdict, reason |-> reason, findings |-> findings,
   errors |-> Count(findings, IsError), warnings |-> Count(findings, IsWarning),
   hit |-> FALSE, format |-> None, session |-> None, tip |-> None, links |-> << >>]

Skipped(path, reason) == Result(path, "skipped", reason, << >>)
Broken(path, verdict, code) == Result(path, verdict, None, <<Finding(code, "error", 0, path)>>)

-----------------------------------------------------------------------------
(* A finding is suppressed by its fingerprint, which binds the path, or by  *)
(* its v2 key, which binds the last two names of the path only.             *)

FileRole(path) == IF Len(path) < 2 THEN path ELSE SubSeq(path, Len(path) - 1, Len(path))
Fingerprint(f) == <<"v1", f.code, f.at, f.path>>
V2Key(f) == <<"v2", f.code, f.at, FileRole(f.path)>>

FilterFindings(findings, baseline) ==
  LET Ambiguous(f) == \E i, j \in DOMAIN findings : /\ V2Key(findings[i]) = V2Key(f)
                                                    /\ V2Key(findings[j]) = V2Key(f)
                                                    /\ Fingerprint(findings[i]) # Fingerprint(findings[j])
  IN SelectSeq(findings, LAMBDA f : /\ Fingerprint(f) \notin baseline
                                    /\ V2Key(f) \in baseline => Ambiguous(f))

\* load_baseline keeps v1 fingerprints and v2 keys in one set; a document is
\* written with v2 keys only.
WriteBaseline(findings) == {V2Key(f) : f \in Range(findings)}

-----------------------------------------------------------------------------
(* The stages, in the order they run.  cfg holds maxFileBytes, enabled (the *)
(* rule codes), allowed (formats of the profile), forced (a format or None),*)
(* skipUndetected and baseline (a set of keys or None).                     *)

Oversize(c, cfg) == c.size > cfg.maxFileBytes
Format(c, cfg) == IF cfg.forced # None THEN cfg.forced ELSE c.format
Enabled(findings, cfg) == SelectSeq(findings, LAMBDA f : f.code \in cfg.enabled)

\* The stat, the probe for NUL and UTF-8, the detection, the adapter, and the test
\* whether a source without events is blank, in this order.
Stage == {"stat", "probe", "detect", "load", "blank"}

Undetected(path, c, cfg) ==
  LET defects == Enabled(SelectSeq(c.defects, LAMBDA f : f.code # "SL302"), cfg)
  IN IF defects # << >> THEN Result(path, "invalid", None, At(path, defects))
     ELSE IF cfg.skipUndetected THEN Skipped(path, "format-undetected")
     ELSE Result(path, "unsupported", "format-undetected", << >>)

\* A blank source has one finding that says so, whatever the adapter said.
LoadedFindings(path, seen) ==
  IF seen.load.empty /\ seen.blank.blank THEN <<Finding("SL001", "error", 0, path)>>
  ELSE At(path, seen.load.adapter)

Classify(path, seen, cfg) ==
  LET c     == seen.load
      found == Enabled(LoadedFindings(path, seen), cfg) \o At(path, Enabled(c.checks, cfg))
      kept  == IF cfg.baseline = None THEN found ELSE FilterFindings(found, cfg.baseline)
      res   == Result(path, "healthy", None, kept)
  IN [res EXCEPT !.verdict = IF \E f \in Range(kept) : f.code = "SL301" THEN "unsupported"
                             ELSE IF res.errors > 0 THEN "invalid" ELSE "healthy",
                 !.format = Format(seen.detect, cfg), !.session = c.session, !.tip = c.tip, !.links = c.links]

\* The analysis of a source whose format is known; the reader of the adapter has
\* the size limit again.
Detected(path, seen, cfg) ==
  IF Format(seen.detect, cfg) \notin cfg.allowed THEN Broken(path, "invalid", "SL302")
  ELSE CASE Oversize(seen.load, cfg)   -> Skipped(path, "file-too-large")
         [] seen.load.load = "limit"   -> Broken(path, "unreadable", "SL001")
         [] seen.load.load = "crash"   -> Broken(path, "invalid", "SL001")
         [] OTHER                      -> Classify(path, seen, cfg)

ScanSource(path, seen, cfg) ==
  IF Oversize(seen.stat, cfg) THEN Skipped(path, "file-too-large")
  ELSE IF seen.probe.enc # "text" THEN Broken(path, "unreadable", "SL001")
  ELSE IF Format(seen.detect, cfg) = None THEN Undetected(path, seen.detect, cfg)
  ELSE Detected(path, seen, cfg)
=============================================================================
