---------------------------- MODULE ReportStages ----------------------------
(***************************************************************************)
(* AuditPipeline.run after the analysis: ClauseRewriter, attach_diffs and  *)
(* build_report on the merged findings, which come by severity.  A text is *)
(* the sequence of its characters.                                         *)
(***************************************************************************)
EXTENDS ClauseRewriter, SequencesExt

CONSTANTS
  Char,
  Space,     \* what \s matches and strip() takes away
  Contract,  \* resolution_criteria
  Draft,     \* the affected_clause and the rewrite an analyzer may give
  Wording,   \* the rewritten_clause a rewriter may answer
  NonText    \* one that is neither text nor empty

ASSUME WordingAssumption ==
  /\ Contract \in Seq(Char)
  /\ Draft \subseteq [clause : Seq(Char), rewrite : Seq(Char)]
  /\ Wording \ {NonText} \subseteq Seq(Char) /\ NonText \notin Seq(Char)

VARIABLES
  stage,
  clause,   \* affected_clause, by finding
  wording,  \* finding.rewrite
  diff,     \* finding.diff, token by token
  full,     \* working_text, which ends up in rewritten_contract
  applied   \* the findings whose rewrite it has been through

stageVars == <<stage, clause, wording, diff, full, applied>>

\* Any text or nothing: what is falsy counts as the empty text.
InitStages ==
  /\ Init
  /\ stage = "rewrite"
  /\ \E drafts \in [Finding -> Draft] :
       /\ clause = [f \in Finding |-> drafts[f].clause]
       /\ wording = [f \in Finding |-> drafts[f].rewrite]
  /\ diff = [f \in Finding |-> <<>>]
  /\ full = Contract
  /\ applied = {}

-----------------------------------------------------------------------------
\* A step of rewrite_all; finding.rewrite changes when one is adopted.
Rewriting ==
  /\ stage = "rewrite"
  /\ Next
  /\ LET adopted == {f \in Finding : rewrite'[f] # rewrite[f]} IN
     \E text \in IF adopted = {} THEN {<<>>} ELSE Wording :
       wording' = [f \in Finding |-> IF f \in adopted THEN text ELSE wording[f]]
  /\ UNCHANGED <<stage, clause, diff, full, applied>>

\* _tokenize: the longest runs of spaces and of anything else, in order.
Starts(text) == {i \in DOMAIN text : i = 1 \/ (text[i] \in Space) # (text[i - 1] \in Space)}
Tokens(text) ==
  LET run(k) == {i \in DOMAIN text : Cardinality(Starts(text) \cap 1 .. i) = k}
  IN [k \in 1 .. Cardinality(Starts(text)) |-> SubSeq(text, Min(run(k)), Max(run(k)))]

\* difflib: pairs of equal tokens, in the order of both texts, to which none could
\* be added.
Aligned(M, old, new) ==
  /\ \A k \in DOMAIN M : old[M[k][1]] = new[M[k][2]]
  /\ \A k, l \in DOMAIN M : k < l => M[k][1] < M[l][1] /\ M[k][2] < M[l][2]
Alignments(old, new) ==
  LET some == {M \in SeqOf((DOMAIN old) \X (DOMAIN new), Len(old)) : Aligned(M, old, new)}
  IN {M \in some : \A N \in some : ToSet(M) \subseteq ToSet(N) => M = N}

Marked(op, tokens) == [i \in DOMAIN tokens |-> <<op, tokens[i]>>]

\* Mutant: of a replacement only the new tokens are shown.
ChangedTo(old, new) == IF new = <<>> THEN Marked("delete", old) ELSE Marked("insert", new)

\* "replace", "delete" and "insert": between equal tokens the old, then the new.
Changed(old, new) == Marked("delete", old) \o Marked("insert", new)

generate_diff(M, old, new) ==
  LET ends == Append(M, <<Len(old) + 1, Len(new) + 1>>)
      start(k) == IF k = 1 THEN <<0, 0>> ELSE ends[k - 1]
      changed(k) == Changed(SubSeq(old, start(k)[1] + 1, ends[k][1] - 1),
                            SubSeq(new, start(k)[2] + 1, ends[k][2] - 1))
      equal(k) == IF k = Len(ends) THEN <<>> ELSE Marked("equal", <<old[ends[k][1]]>>)
  IN FlattenSeq([k \in DOMAIN ends |-> changed(k) \o equal(k)])

Diffs(f) ==
  LET old == Tokens(clause[f])
      new == Tokens(wording[f])
  IN {generate_diff(M, old, new) : M \in Alignments(old, new)}

\* attach_diffs, once rewrite_all is through; what is not text has no tokens.
AttachDiffs ==
  /\ stage = "rewrite" /\ current = FindingCount + 1
  /\ LET due == {f \in Finding : wording[f] # <<>> /\ clause[f] # <<>>} IN
     IF \E f \in due : wording[f] = NonText
       THEN stage' = "raised" /\ UNCHANGED diff
       ELSE /\ stage' = "build"
            /\ \E d \in [due -> UNION {Diffs(f) : f \in due}] :
                 /\ \A f \in due : d[f] \in Diffs(f)
                 /\ diff' = [f \in Finding |-> IF f \in due THEN d[f] ELSE diff[f]]
  /\ UNCHANGED <<vars, clause, wording, full, applied>>

\* strip()
Stripped(text) ==
  LET ink == {i \in DOMAIN text : text[i] \notin Space}
  IN IF ink = {} THEN <<>> ELSE SubSeq(text, Min(ink), Max(ink))

\* finding.rewrite and finding.rewrite.strip() != finding.affected_clause.strip()
Rewritten == {f \in Finding : wording[f] # <<>> /\ Stripped(wording[f]) # Stripped(clause[f])}

\* Mutant: every occurrence.
AppliedToAll(text, f) ==
  LET once == ReplaceFirstSubSeq(wording[f], clause[f], text)
  IN ReplaceFirstSubSeq(wording[f], clause[f], once)

\* str.replace(.., 1): the first occurrence, if any, which may be part of a
\* word ("2%" in "12%"); an empty clause occurs in front.
Applied(text, f) == ReplaceFirstSubSeq(wording[f], clause[f], text)

AllText == \A f \in Finding : wording[f] # NonText

\* Listing the rewrites already raises on one that is not text.
CollectRaises ==
  /\ stage = "build" /\ ~AllText
  /\ stage' = "raised"
  /\ UNCHANGED <<vars, clause, wording, diff, full, applied>>

\* Mutant: the first clause that is missing ends the loop.
ApplyUntilMissing(f) ==
  /\ stage = "build" /\ AllText
  /\ f \in Rewritten \ applied /\ \A g \in Rewritten : g < f => g \in applied
  /\ full' = Applied(full, f)
  /\ applied' = IF clause[f] \in SubSeqs(full) THEN applied \cup {f} ELSE Rewritten
  /\ UNCHANGED <<vars, stage, clause, wording, diff>>

\* A turn of the loop: the most severe first, which is the order they come in.
ApplyRewrite(f) ==
  /\ stage = "build" /\ AllText
  /\ f \in Rewritten \ applied /\ \A g \in Rewritten : g < f => g \in applied
  /\ full' = Applied(full, f)
  /\ applied' = applied \cup {f}
  /\ UNCHANGED <<vars, stage, clause, wording, diff>>

\* The report is built when the rewrites have all had their turn.
Assemble ==
  /\ stage = "build" /\ AllText /\ applied = Rewritten
  /\ stage' = "built"
  /\ UNCHANGED <<vars, clause, wording, diff, full, applied>>

NextStages == Rewriting \/ AttachDiffs \/ CollectRaises \/ Assemble \/ \E f \in Finding : ApplyRewrite(f)

SpecStages == InitStages /\ [][NextStages]_<<vars, stageVars>>

\* The LLM client gives up on a call in the end, so each call returns.
FairSpecStages == SpecStages /\ WF_<<vars, stageVars>>(Rewriting)

-----------------------------------------------------------------------------
(* Properties *)

\* The tokens of a diff under the given operations, in order, are these.
Reads(d, ops, tokens) ==
  \E at \in [DOMAIN tokens -> DOMAIN d] :
    /\ \A i, j \in DOMAIN tokens : i < j => at[i] < at[j]
    /\ Range(at) = {p \in DOMAIN d : d[p][1] \in ops}
    /\ \A i \in DOMAIN tokens : d[at[i]][2] = tokens[i]

\* A finding's diff, as the dashboard shows it, reads as its clause without the
\* insertions and as the rewrite that was adopted in the end without the
\* deletions.
DiffReadsBothWays ==
  stage \in {"build", "built"} =>
    \A f \in Finding :
      IF wording[f] \in {<<>>, NonText} \/ clause[f] = <<>> THEN diff[f] = <<>>
      ELSE /\ Reads(diff[f], {"equal", "delete"}, Tokens(clause[f]))
           /\ Reads(diff[f], {"equal", "insert"}, Tokens(wording[f]))

\* Some text could have both with a character in common: s ends as t begins, the
\* other way round, or one is part of the other.
Meets(s, t) ==
  \E i \in DOMAIN s, j \in DOMAIN t :
    \A x \in DOMAIN s : x - i + j \in DOMAIN t => s[x] = t[x - i + j]

\* No other rewrite can replace a part of the clause of f or of what replaces it.
Independent(f) ==
  \A g \in Rewritten \ {f} : ~Meets(clause[g], clause[f]) /\ ~Meets(clause[g], wording[f])

\* builder.py, "applying each finding's rewrite": a rewrite whose clause stands
\* in the contract, and that no other one meets, is part of the full text, also
\* when the clauses of others are not found or occur inside its words.
IndependentRewritesApplied ==
  stage = "built" =>
    \A f \in Rewritten :
      clause[f] \in SubSeqs(Contract) /\ Independent(f) => wording[f] \in SubSeqs(full)

\* What no clause meets, of a rewrite that is to be applied, stays as it is.
UnmetStays ==
  \A text \in SubSeqs(Contract) :
    (\A f \in Rewritten : ~Meets(clause[f], text)) => text \in SubSeqs(full)

Places(c, text) == {i \in DOMAIN text : text[i] = c}
Count(c, text) == Cardinality(Places(c, text))

\* How often a character stands in the texts of some findings.
CountAll(c, texts, findings) == Cardinality(UNION {{f} \X Places(c, texts[f]) : f \in findings})

\* A character is as frequent as in the contract, but for these findings.
KeptBut(findings, c) ==
  Count(c, full) \in Count(c, Contract) - CountAll(c, clause, findings) ..
                     Count(c, Contract) + CountAll(c, wording, findings)

\* A clause is taken out once at most, its rewrite comes in once at most, and
\* whatever stretch of the contract no clause meets is still there unchanged.  A
\* longer word around a clause does change.
NothingElseChanges ==
  stage = "built" =>
    UnmetStays /\ \A c \in ToSet(Contract) \cup ToSet(full) : KeptBut(Rewritten, c)

-----------------------------------------------------------------------------
(* Inductive invariant *)

\* Until its turn an independent clause still stands in the text, and from then
\* on its rewrite does.
Placed(f) == (IF f \in applied THEN wording[f] ELSE clause[f]) \in SubSeqs(full)

StagesInv ==
  /\ stage \in {"rewrite", "build", "built", "raised"}
  /\ clause \in [Finding -> Seq(Char)]
  /\ wording \in [Finding -> Seq(Char) \cup {NonText}]
  /\ full \in Seq(Char)
  /\ applied \subseteq Finding
  /\ stage = "rewrite" => applied = {} /\ full = Contract /\ diff = [f \in Finding |-> <<>>]
  /\ stage = "built" => AllText /\ applied = Rewritten
  /\ stage \in {"build", "built"} /\ AllText =>
       /\ \A f \in Rewritten : clause[f] \in SubSeqs(Contract) /\ Independent(f) => Placed(f)
       /\ UnmetStays

\* What the loop has changed so far it owes to the rewrites it has been through.
ChangesInv ==
  stage \in {"build", "built"} /\ AllText => \A c \in Char : KeptBut(applied, c)

ReportInv == StagesInv /\ ChangesInv /\ DiffReadsBothWays
=============================================================================
