------------------------------ MODULE WebClient ------------------------------
(****************************************************************************)
(* The parts of the web client side by side: the board page, the search field, the  *)
(* dialog that creates tasks, the board's settings, its members, the attachments of  *)
(* a task and the session of the tab, with what they share with the API: the lists    *)
(* that are read page by page and the repeat rules. They share no state.              *)
(****************************************************************************)
EXTENDS Integers

CONSTANTS Nothing,
          Task, Column, Note, Shown, Slot, MaxOthers,          \* board page
          Input, Trim(_), Filters, NoFilters, MaxHistory,      \* search field
          File, PageSize,                                      \* create dialog, attachments
          Name, Text, MaxSaves,                                \* board settings
          Invitation, Admin, ByAdmin,                          \* members
          User, Invitee, Nobody,                               \* session
          NoDate, Unset, Limits, MaxEdits,                     \* lists
          Day, Days, Jump, MaxAttempts, None, Failed,          \* recurrence
          Dates, Today                                         \* repeat picker

VARIABLES server, cache, fetch, stale, slots, form, confirm, others, since,      \* board page
          url, past, future, input, timer, captured, skipNextSync,               \* search field
          opened, busy, files, createMore, run, tasks, uploaded, lost, overlapped, \* create dialog
          board, cached, fetched, fields, saving, sent, recovering,              \* board settings
          unsent, pending, roster, refetch, outdated, roleFilter, asked, revoke, invite,
          seen,                                                                  \* members
          stored, shown, read, invalid, unread, open, upload, latest, reported, removal,
          seenPages, raced,                                                      \* attachments
          cookie, known, isPending, lookup, path, redirect, wanted, signedInSession, request,
          owners, loading, save, accepting, mixed,                               \* session
          rows, query, listed, cursor, more, touched,                            \* task list
          entries, listing, ids, place, further, written,                        \* the other lists
          rule, clock, last, dueDays,                                            \* recurrence
          dueDate, schedule                                                      \* repeat picker

Page == INSTANCE TaskClient
Search == INSTANCE BoardSearch
Create == INSTANCE CreateForm
Panel == INSTANCE BoardPanel WITH form <- fields
Members == INSTANCE Roster WITH listed <- roster
Files == INSTANCE AttachmentPanel WITH pages <- seenPages
Session == INSTANCE BrowserSession
  WITH Invited <- Invitee, pending <- isPending, page <- path, cached <- owners
List == INSTANCE TaskList
Pages == INSTANCE BoardPages
  WITH rows <- entries, query <- listing, listed <- ids, cursor <- place, more <- further,
       touched <- written
Series == INSTANCE Recurrence
Picker == INSTANCE RecurrenceRules

(* The texts of the search field and of URLs. *)
Texts == Input \cup {Trim(text) : text \in Input} \cup {""}

(* The filters show some of the columns; boards and tasks have a description;    *)
(* trimming a text that may be searched gives such a text; a page holds one row or more;  *)
(* null is no column and no row, and the marks for a missing date and an absent filter    *)
(* are no values of theirs.                                                              *)
ASSUME ClientAssumption ==
  /\ Shown \subseteq Column /\ Shown # {} /\ Note # {} /\ Name # {} /\ Text # {}
  /\ PageSize \in Nat /\ Limits \subseteq Nat \ {0}
  /\ \A text \in Texts : Trim(text) \in Texts
  /\ Nothing \notin Column \cup Page!Row
  /\ NoDate \notin Int
  /\ Unset \notin List!Active \cup {"NONE", "OVERDUE", "TODAY", "NEXT_7_DAYS"}

(* The clock changes by less than a day, and the passes of nextAfter, one for every   *)
(* slot, reach over the time that is repeated.                                        *)
ASSUME ClockAssumption ==
  /\ Day \in Nat \ {0} /\ MaxAttempts \in Nat \ {0}
  /\ Days \subseteq Nat \ {0}
  /\ Jump \subseteq Int /\ \A jump \in Jump : -Day < jump /\ jump < Day /\ -jump <= MaxAttempts
  /\ None \notin Int /\ Failed \notin Int /\ None # Failed

(* The dates are days of the calendar; a rule's missing part is no date, no number     *)
(* and no set of weekdays.                                                            *)
ASSUME CalendarAssumption ==
  /\ Dates \cup {Today} \subseteq Picker!Calendar
  /\ None \notin Picker!Calendar /\ None \notin Int /\ None \notin Picker!ByDays

-----------------------------------------------------------------------------
(* See TaskClient and BoardPanel: a save replaces the row that it was made from. *)
NoLostUpdate == Page!NoLostUpdate /\ Panel!NoLostUpdate

(* See TaskClient, Roster and AttachmentPanel: a page at rest shows what is saved,  *)
(* nothing older than its own last request.                                         *)
ScreenReconciled ==
  Page!ScreenReconciled /\ Members!RosterReconciled /\ Files!AttachmentsReconciled

(* See BoardSearch: a debounced search never reverts a filter. *)
FiltersKept == Search!FiltersKept

(* See BoardSearch: the search field shows the term of the URL. *)
SearchFollowsUrl == Search!SearchFollowsUrl

(* See CreateForm: content that may be submitted has not been created yet, but for a *)
(* lost answer or two submissions at once.                                             *)
CreatedOnce == Create!CreatedOnce

(* See BrowserSession: what is cached and shown is for whoever is signed in. *)
SessionFollowed == Session!SessionFollowed

(* See TaskList: the client's own filter test agrees with the server's. *)
ClientMirrorsServer == List!ClientMirrorsServer

(* See TaskList and BoardPages: reading page by page lists every untouched row exactly once. *)
ListedExactlyOnce == List!ListedExactlyOnce /\ Pages!PagesComplete

(* See Recurrence: a series has each date of its rule once, whatever the clock does, *)
(* and the next run is a later instant, found in bounded passes.                     *)
EveryDateOnce == Series!EveryDateOnce /\ Series!NextRunIsLater

(* See RecurrenceRules: a rule that was read off the due date moves with it. *)
RuleFollowsDate == Picker!RuleFollowsDate

(* See TaskList: the next page of a list can be read, in whatever order it is. *)
NextPageAnswered == List!NextPageAnswered

(* See TaskList: the blocking filter lists blocked tasks only. *)
BlockingFilterApplies == List!BlockingFilterApplies
==============================================================================
