------------------------------ MODULE Verdict -------------------------------
(***************************************************************************)
(* The one-shot check: one certificate against one clock reading, without  *)
(* succession, lineage or decisions, and the check of the certificates a   *)
(* held document carries for a hostname (verifyBinding).                   *)
(***************************************************************************)
EXTENDS Evidence, SequencesExt

\* verify, in the order of its checks; row is the record the certificate
\* proves, empty where it does not come to that.
Refused(reason) == [outcome |-> reason, row |-> {}]

Judge(row, now) ==
    IF Deferred(row, now) THEN [outcome |-> "Deferred", row |-> {row}]
    ELSE IF Fresh(row, now) /\ ~row.onPath THEN Refused("GenerationOffPath")
    ELSE [outcome |-> "Accepted", row |-> {row}]

Verify(c, host, now) ==
    IF Content[c].host # host THEN Refused("HostnameMismatch")
    ELSE IF ~Content[c].chain.valid THEN Refused("ChainRejected")
    ELSE IF ~Content[c].authorized THEN Refused("SignerNotAuthorized")
    ELSE IF Word(Content[c].chain.txt, Content[c].doc) = {} THEN Refused("DocumentNotAttested")
    ELSE Judge(CHOOSE row \in CertificateRows({c}) : TRUE, now)

\* Fresh or stale, and whether the generation check is only provisional.
Freshness(row, now) == Grade(row, now)
GenerationCheck(row) == IF row.onPath THEN "OnPath" ELSE "Provisional"

-----------------------------------------------------------------------------
\* Mutant: deferred evidence ranks with the fresh.
FreshnessRankDeferredFirst(verdict, now) ==
    IF verdict.outcome = "Deferred" THEN 3
    ELSE IF \E row \in verdict.row : Fresh(row, now) THEN 2 ELSE 1

FreshnessRank(verdict, now) ==
    IF verdict.outcome = "Deferred" THEN 0
    ELSE IF \E row \in verdict.row : Fresh(row, now) THEN 2 ELSE 1

\* The selection key: rank, window end, serial, issued (zero for deferred
\* evidence), document.
SelectionKey(verdict, now) ==
    LET row == CHOOSE r \in verdict.row : TRUE
    IN  <<FreshnessRank(verdict, now), row.end, row.serial,
          IF verdict.outcome = "Deferred" THEN 0 ELSE row.issued, row.doc>>

KeyAtMost(k, l) ==
    k = l \/ \E n \in DOMAIN k : k[n] < l[n] /\ \A m \in 1..(n - 1) : k[m] = l[m]

Candidates(list, host, now) ==
    {n \in DOMAIN list : Verify(list[n], host, now).outcome \in {"Accepted", "Deferred"}}

\* max_by_key: the last of the greatest.
Best(list, host, now) ==
    LET key(n) == SelectionKey(Verify(list[n], host, now), now)
    IN  {n \in Candidates(list, host, now) :
            \A m \in Candidates(list, host, now) :
                KeyAtMost(key(m), key(n)) /\ (KeyAtMost(key(n), key(m)) => m <= n)}

\* The first refusal that concerns this hostname.
Objections(list, host, now) ==
    LET refused == {n \in DOMAIN list :
            Verify(list[n], host, now).outcome \notin {"Accepted", "Deferred", "HostnameMismatch"}}
    IN  {n \in refused : \A m \in refused : n <= m}

\* verify_binding over the certificates of a held document.
VerifyBinding(list, host, now) ==
    IF Best(list, host, now) # {}
    THEN Verify(list[CHOOSE n \in Best(list, host, now) : TRUE], host, now)
    ELSE IF Objections(list, host, now) # {}
         THEN Verify(list[CHOOSE n \in Objections(list, host, now) : TRUE], host, now)
         ELSE Refused("NoCertificateHeld")
=============================================================================
