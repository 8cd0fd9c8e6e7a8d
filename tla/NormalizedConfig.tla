--------------------------- MODULE NormalizedConfig ---------------------------
(***************************************************************************)
(* The configuration of `normalized` (normalized/src/config.rs): the rules *)
(* that the lines of its files make up.                                    *)
(*                                                                         *)
(* A line is the header of a section, [section |-> name], or a setting,    *)
(* [key, value] with value [text, map], map being what parse_inline_map    *)
(* reads in it.  Comments and blank lines are left out.  A file has the    *)
(* place of its name in the order of names.                                *)
(***************************************************************************)
EXTENDS Normalized

OverrideRule == [source_ip |-> {}, starts_with |-> {}, contains |-> {}, force_format |-> {},
                 source |-> {}, remap |-> << >>, reparse |-> FALSE, reparse_as |-> {}]
ExtractRule  == [conditions |-> {}, from |-> <<"message">>, patterns |-> << >>, set |-> << >>,
                 force_severity |-> FALSE]

\* A key of an [[overrides.rule]]; after `remap` every key is one to rename.
SetOverride(a, key, value) ==
    LET v == value.text IN
    CASE key = "remap" -> [a EXCEPT !.in_remap = TRUE, !.override.remap = value.map @@ @]
      [] key # "remap" /\ a.in_remap -> [a EXCEPT !.override.remap = (<<key>> :> v) @@ @]
      [] OTHER ->
         CASE key \in {"source_ip", "starts_with", "contains", "source"} -> [a EXCEPT !.override[key] = {v}]
           [] key = "format" -> [a EXCEPT !.override.force_format = {v[1]}]
           [] key = "reparse_as" -> [a EXCEPT !.override.reparse_as = {v[1]}]
           [] key = "reparse" -> [a EXCEPT !.override.reparse = (v = <<"true">>)]
           [] OTHER -> a

\* A key of an [[extract.rule]]: what is not reserved is a condition.
SetExtract(a, key, value) ==
    LET v == value.text IN
    CASE key = "from" -> [a EXCEPT !.extraction.from = v]
      [] key = "pattern" -> [a EXCEPT !.extraction.patterns = Append(@, v)]
      [] key = "set" -> [a EXCEPT !.extraction.set = value.map @@ @]
      [] key = "force_severity" -> [a EXCEPT !.extraction.force_severity = (v = <<"true">>)]
      [] OTHER -> [a EXCEPT !.extraction.conditions = @ \cup {[field |-> <<key>>, want |-> v]}]

\* flush!: the rule of the section that ends.
Flush(a) ==
    CASE a.section = "overrides.rule" -> [a EXCEPT !.rules = Append(@, a.override)]
      [] a.section = "extract.rule" -> [a EXCEPT !.extract = Append(@, a.extraction)]
      [] OTHER -> a

\* Config::parse
ParseConfig(lines) ==
    LET Step(a, line) ==
            CASE "section" \in DOMAIN line ->
                    [Flush(a) EXCEPT !.section = line.section, !.in_remap = FALSE,
                                     !.override = OverrideRule, !.extraction = ExtractRule]
              [] "key" \in DOMAIN line /\ a.section = "overrides.rule" -> SetOverride(a, line.key, line.value)
              [] "key" \in DOMAIN line /\ a.section = "extract.rule" -> SetExtract(a, line.key, line.value)
              [] OTHER -> a
        end == Flush(FoldLeft(Step, [rules |-> << >>, extract |-> << >>, section |-> "", in_remap |-> FALSE,
                                     override |-> OverrideRule, extraction |-> ExtractRule], lines))
    IN [rules |-> end.rules, extract |-> end.extract]

MergeConfig(self, other) ==
    [rules |-> self.rules \o other.rules, extract |-> self.extract \o other.extract]

\* Config::from_dir and main: the *.toml of --config-dir by name, then --config.
LoadConfig(dir, file) ==
    LET empty == [rules |-> << >>, extract |-> << >>]
        Merge(c, i) == IF dir[i].toml THEN MergeConfig(c, ParseConfig(dir[i].lines)) ELSE c
    IN MergeConfig(FoldLeft(Merge, empty, [i \in DOMAIN dir |-> i]), ParseConfig(file))
===============================================================================
