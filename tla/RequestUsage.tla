---------------------------- MODULE RequestUsage ----------------------------
(***************************************************************************)
(* What becomes of the tokens that a provider reports for one request: the *)
(* callback's record (build_record), the row ingest makes of it            *)
(* (RecordParser.parse) and what the viewer shows of it                    *)
(* (enrich_with_costs).  The two read the same usage block by code of      *)
(* their own.                                                              *)
(***************************************************************************)
EXTENDS Pricing

\* A usage block: the tokens in, out, written to and read from the cache; the
\* written ones by lifetime (5 minutes, 1 hour) where ingest looks for them
\* (details) and where extract_usage does (creation).
Block(in, out, cw, cr, details, creation) ==
  [in |-> in, out |-> out, cw |-> cw, cr |-> cr, details |-> details, creation |-> creation]
NoSplit == <<0, 0>>
Empty == Block(0, 0, 0, 0, NoSplit, NoSplit)
Response(shape, usage, tag) == [shape |-> shape, usage |-> usage, tag |-> tag]

\* _usage_from_slo: None unless there is a token.
UsageFromSlo(t) ==
  IF t.in = 0 /\ t.out = 0 /\ t.cw = 0 /\ t.cr = 0 THEN Unknown
  ELSE Block(t.in, t.out, t.cw, t.cr, NoSplit, NoSplit)

\* _usable_response: hook is what LiteLLM hands to the callback, a parsed response
\* with its usage or a raw one, and its logging object with a copy of the response
\* (its usage in slo) and token counts.
UsableResponse(hook) ==
  LET recovered == IF hook.slo # Unknown THEN hook.slo ELSE UsageFromSlo(hook.tokens) IN
  CASE hook.parsed -> Response("dict", hook.usage, "none")
    [] ~hook.parsed /\ recovered # Unknown ->
         Response("dict", recovered, "standard_logging_object")
    [] OTHER -> Response("dict", Unknown, "unrecoverable")

\* _epoch, by the hour: the logging object's time, or the callback's own.
Epoch(primary, fallback) == IF primary # Unknown THEN primary ELSE fallback

BuildRecord(hook) ==
  [model |-> hook.model, ok |-> hook.ok, start |-> Epoch(hook.start, hook.called),
   response |-> CASE hook.ok -> UsableResponse(hook)
                  [] ~hook.ok /\ hook.parsed -> Response("dict", hook.usage, "none")
                  [] OTHER -> Response("string", Unknown, "none")]

-----------------------------------------------------------------------------
\* usage_source
UsageSource(response) ==
  CASE response.shape = "string" -> "unrecoverable"
    [] response.shape = "dict" /\ response.tag = "none" -> "native"
    [] OTHER -> response.tag

UsageBlock(response) == IF response.usage = Unknown THEN Empty ELSE response.usage

\* cache_split, and the check of parse: a split wider than its total is dropped.
CacheSplit(u) == IF u.details[1] + u.details[2] > u.cw THEN NoSplit ELSE u.details

Parse(rec) ==
  LET u == UsageBlock(rec.response)
  IN  [ok |-> rec.ok, model |-> rec.model, hour |-> rec.start,
       source |-> UsageSource(rec.response), response |-> rec.response,
       usage |-> Usage(u.in, u.out, CacheSplit(u)[1], CacheSplit(u)[2], u.cw, u.cr)]

-----------------------------------------------------------------------------
\* extract_usage, without a request: the viewer has none at hand.
ExtractUsage(response) ==
  LET u == UsageBlock(response) IN
  Usage(u.in, u.out, u.creation[1], u.creation[2], u.cw, u.cr)

\* enrich_with_costs: no cost is shown of a failure or of a record without usage.
ShownCost(row, tables, provider, weekday, hour) ==
  IF row.ok /\ row.response.usage # Unknown
  THEN ComputeCost(tables, provider, Canonical[row.model], ExtractUsage(row.response), weekday, hour)
  ELSE Unknown
=============================================================================
