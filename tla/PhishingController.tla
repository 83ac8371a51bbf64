---------------------------- MODULE PhishingController ----------------------------
(***************************************************************************)
(* The lists of phishing sites (packages/phishing-controller).  A server   *)
(* publishes diffs, each to one of the lists, and now and then a           *)
(* "stalelist" with all of them; the controller asks for the diffs since   *)
(* its last one, or, after a longer time, for the stalelist and the diffs  *)
(* since.  Answers are late, or there is none; the wallet may be restarted *)
(* at any time.  Diffs are numbered: a number is a timestamp too.          *)
(*                                                                         *)
(* Sites are tested against the lists (PhishingDetector.ts).  A site is    *)
(* the sequence of its domain's parts, from the top: domainToParts.        *)
(***************************************************************************)
EXTENDS Naturals, Sequences, FiniteSets, FiniteSetsExt, SequencesExt

CONSTANTS
  ListKeys,          \* phishing lists
  Published,         \* what the diffs may say, one after another: [list, site, isRemoval]
  Sites,             \* sites that users visit
  Alike,             \* pairs of fuzzy forms that are within the tolerance of each other
  MaxDiffs,          \* how many diffs the server publishes
  MaxPhishingSteps   \* how often lists are out of date, or the wallet is restarted

ASSUME PhishingAssumption ==
  /\ IsFiniteSet(ListKeys) /\ ListKeys # {} /\ MaxDiffs \in Nat /\ MaxPhishingSteps \in Nat
  /\ \A script \in Published :
       /\ script \in Seq([list : {"allowlist", "blocklist", "fuzzylist"}, site : Seq(STRING),
                         isRemoval : BOOLEAN])
       /\ Len(script) >= MaxDiffs

VARIABLES
  says,            \* what the diffs say
  targetList,      \* the list that each diff published is for
  stalelist,       \* the last diff that the server's stalelist has
  phishingLists,   \* each list: the diffs it has, and its lastUpdated
  outOfDate,       \* what isStalelistOutOfDate and isHotlistOutOfDate say
  inProgress,      \* #inProgressStalelistUpdate and #inProgressHotlistUpdate
  whitelist,       \* the sites that the user has bypassed the warning of
  phishingSteps

phishingServerVars == <<says, targetList, stalelist>>
phishingVars == <<phishingServerVars, phishingLists, outOfDate, inProgress, whitelist, phishingSteps>>

NoUpdate == [step |-> "none"]
diffs == DOMAIN targetList
newest == Cardinality(diffs)

\* No lists, at first: the persisted state is the default one.
PhishingInit ==
  /\ says \in Published
  /\ targetList = <<>>
  /\ stalelist = 0
  /\ phishingLists = <<>>
  /\ outOfDate = {"stalelist", "hotlist"}
  /\ inProgress = [stalelist |-> NoUpdate, hotlist |-> NoUpdate]
  /\ whitelist = {}
  /\ phishingSteps = 0

phishingStep == phishingSteps < MaxPhishingSteps /\ phishingSteps' = phishingSteps + 1

-----------------------------------------------------------------------------

diffPublished(key) ==
  /\ newest < MaxDiffs
  /\ targetList' = targetList \o <<key>>
  /\ UNCHANGED <<says, stalelist, phishingLists, outOfDate, inProgress, whitelist, phishingSteps>>

stalelistPublished ==
  /\ stalelist # newest
  /\ stalelist' = newest
  /\ UNCHANGED <<says, targetList, phishingLists, outOfDate, inProgress, whitelist, phishingSteps>>

timePasses(kind) ==
  /\ kind \notin outOfDate /\ phishingStep
  /\ outOfDate' = outOfDate \cup {kind}
  /\ UNCHANGED <<phishingServerVars, phishingLists, inProgress, whitelist>>

\* The state is persisted, updates in progress are not.
phishingRestart ==
  /\ \E kind \in DOMAIN inProgress : inProgress[kind] # NoUpdate
  /\ phishingStep
  /\ inProgress' = [kind \in DOMAIN inProgress |-> NoUpdate]
  /\ UNCHANGED <<phishingServerVars, phishingLists, outOfDate, whitelist>>

mayUpdateHotlist == outOfDate = {"hotlist"}

\* maybeUpdateState; an update in progress is waited for.
updateStalelist ==
  /\ "stalelist" \in outOfDate /\ inProgress.stalelist = NoUpdate
  /\ inProgress' = [inProgress EXCEPT !.stalelist = [step |-> "asked"]]
  /\ UNCHANGED <<phishingServerVars, phishingLists, outOfDate, whitelist, phishingSteps>>

\* #updateHotlist asks for the diffs since the last one of any list.
lastDiffTimestamp ==
  IF phishingLists = <<>> THEN 0
  ELSE Max({phishingLists[key].lastUpdated : key \in DOMAIN phishingLists})

updateHotlist ==
  /\ mayUpdateHotlist /\ inProgress.hotlist = NoUpdate
  /\ inProgress' = [inProgress EXCEPT !.hotlist = [step |-> "asked", since |-> lastDiffTimestamp]]
  /\ UNCHANGED <<phishingServerVars, phishingLists, outOfDate, whitelist, phishingSteps>>

\* The server has made its answer: for a stalelist, and then for the diffs since.
serverAnswers(kind) ==
  LET u == inProgress[kind] IN
  /\ u.step = "asked" /\ (kind = "stalelist" => stalelist > 0)
  /\ inProgress' = [inProgress EXCEPT ![kind] =
       [step |-> "answered", upTo |-> newest,
        since |-> IF kind = "stalelist" THEN stalelist ELSE u.since]]
  /\ UNCHANGED <<phishingServerVars, phishingLists, outOfDate, whitelist, phishingSteps>>

isFor(diff, key) == targetList[diff] = key

\* applyDiffs: the diffs of the list, after its last one.
applyDiffs(list, hotlist, key) ==
  LET applied == {diff \in hotlist : diff > list.lastUpdated /\ isFor(diff, key)} IN
  [has |-> list.has \cup applied, lastUpdated |-> Max(applied \cup {list.lastUpdated})]

upTo(diff) == {d \in diffs : d <= diff}

\* What is not out of date any more, once an update has an answer or has failed.
upToDate(kind) == outOfDate \ (IF kind = "stalelist" THEN outOfDate ELSE {"hotlist"})

updateFails(kind) ==
  /\ inProgress[kind] # NoUpdate
  /\ outOfDate' = upToDate(kind)
  /\ inProgress' = [inProgress EXCEPT ![kind] = NoUpdate]
  /\ UNCHANGED <<phishingServerVars, phishingLists, whitelist, phishingSteps>>

\* #updateStalelist: new lists take the place of the old ones.
stalelistUpdated ==
  LET u == inProgress.stalelist IN
  /\ u.step = "answered"
  /\ phishingLists' = [key \in ListKeys |->
       applyDiffs([has |-> {diff \in upTo(u.since) : isFor(diff, key)}, lastUpdated |-> u.since],
                  upTo(u.upTo) \ upTo(u.since), key)]
  /\ outOfDate' = upToDate("stalelist")
  /\ inProgress' = [inProgress EXCEPT !.stalelist = NoUpdate]
  /\ UNCHANGED <<phishingServerVars, whitelist, phishingSteps>>

\* #updateHotlist: diffs for the lists that there are now.
hotlistUpdated ==
  LET u == inProgress.hotlist IN
  /\ u.step = "answered"
  /\ phishingLists' = [key \in DOMAIN phishingLists |->
       applyDiffs(phishingLists[key], upTo(u.upTo) \ upTo(u.since), key)]
  /\ outOfDate' = upToDate("hotlist")
  /\ inProgress' = [inProgress EXCEPT !.hotlist = NoUpdate]
  /\ UNCHANGED <<phishingServerVars, whitelist, phishingSteps>>

-----------------------------------------------------------------------------

\* The sites of a list: additions that no later diff has removed.
entries(key, list) ==
  LET about(site) == {d \in phishingLists[key].has : says[d].list = list /\ says[d].site = site}
      sites == {says[d].site : d \in {e \in phishingLists[key].has : says[e].list = list}}
  IN {site \in sites : ~says[Max(about(site))].isRemoval}

\* matchPartsAgainstList: the site itself, or a domain above it.
matchPartsAgainstList(source, list) == \E target \in list : IsPrefix(target, source)

\* domainPartsToFuzzyForm: all but the top-level domain.
domainPartsToFuzzyForm(parts) == Tail(parts)
stripsWww(form) == IF Len(form) > 1 /\ Last(form) = "www" THEN Front(form) ELSE form

isNear(source, list) ==
  LET form == stripsWww(domainPartsToFuzzyForm(source)) IN
  \E target \in list :
    \/ form = domainPartsToFuzzyForm(target)
    \/ {form, domainPartsToFuzzyForm(target)} \in Alike

\* A trailing dot makes the top part an empty one.
withoutDot(domain) == IF Head(domain) = "" THEN Tail(domain) ELSE domain

\* Fault: each list is asked on its own, so that what one allows another may block.
checkEach(domain) ==
  LET source == withoutDot(domain) IN
  \E key \in DOMAIN phishingLists :
    /\ ~matchPartsAgainstList(source, entries(key, "allowlist"))
    /\ matchPartsAgainstList(source, entries(key, "blocklist")) \/ isNear(source, entries(key, "fuzzylist"))

\* PhishingDetector.check: all lists that allow come before those that do not.
check(domain) ==
  LET source == withoutDot(domain)
      allows == {key \in DOMAIN phishingLists : matchPartsAgainstList(source, entries(key, "allowlist"))}
      blocks == {key \in DOMAIN phishingLists : matchPartsAgainstList(source, entries(key, "blocklist"))}
      resembles == {key \in DOMAIN phishingLists : isNear(source, entries(key, "fuzzylist"))}
  IN allows = {} /\ (blocks # {} \/ resembles # {})

\* Whether a site is unapproved.
test(site) == site \notin whitelist /\ check(site)

bypass(site) ==
  /\ phishingStep /\ site \notin whitelist
  /\ whitelist' = whitelist \cup {site}
  /\ UNCHANGED <<phishingServerVars, phishingLists, outOfDate, inProgress>>

PhishingNext ==
  \/ \E key \in ListKeys : diffPublished(key)
  \/ \E site \in Sites : bypass(site)
  \/ stalelistPublished \/ phishingRestart
  \/ updateStalelist \/ updateHotlist \/ stalelistUpdated \/ hotlistUpdated
  \/ \E kind \in DOMAIN inProgress :
       timePasses(kind) \/ serverAnswers(kind) \/ updateFails(kind)

-----------------------------------------------------------------------------

(***************************************************************************)
(* The lists have every diff up to the one after which the next diffs are  *)
(* asked for: none is passed over for good, although a stalelist may be    *)
(* answered after diffs that are newer, each list knows only of its own    *)
(* diffs, and updates fail or are cut off.                                 *)
(***************************************************************************)
ListsHaveNoGaps ==
  \A key \in DOMAIN phishingLists :
    phishingLists[key].has = {diff \in upTo(lastDiffTimestamp) : isFor(diff, key)}

\* Whether the server has the site, or a domain above it, on a list, after this many diffs.
isPublished(list, site, upto) ==
  \E key \in ListKeys, d \in 1..upto :
    /\ isFor(d, key) /\ says[d].list = list /\ ~says[d].isRemoval
    /\ IsPrefix(says[d].site, withoutDot(site))
    /\ \A later \in (d + 1)..upto :
         ~(isFor(later, key) /\ says[later] = [says[d] EXCEPT !.isRemoval = TRUE])

(***************************************************************************)
(* A site is unapproved by what the server has published up to the last    *)
(* diff that the wallet has seen: if it, or a domain above it, is on a     *)
(* blocklist and on no allowlist; never if it is on an allowlist; and a    *)
(* site that is on no list only if it resembles one.  A bypass is of its   *)
(* site alone, and no update of the lists ends it.                         *)
(***************************************************************************)
SitesAreJudged ==
  \A site \in Sites :
    LET allowed == isPublished("allowlist", site, lastDiffTimestamp)
        blocked == isPublished("blocklist", site, lastDiffTimestamp)
    IN /\ site \in whitelist \/ allowed => ~test(site)
       /\ site \notin whitelist /\ blocked /\ ~allowed => test(site)
       /\ test(site) /\ ~blocked =>
            \E d \in 1..lastDiffTimestamp :
              says[d].list = "fuzzylist" /\ isNear(withoutDot(site), {says[d].site})
=============================================================================
