# iOS-develop in TLA+

The repository is a collection of small iOS programs and of the libraries they
carry. The programs whose state several phones, requests, callbacks or launches
share carry the development: **SnapChatClone** (stories that expire),
**EventSearch** (a search form, pages filled by chains of requests, favorites),
**InstaCloneFirebase** (likes, push notifications), **FoursquareClone** (places
on a server) and the two programs over Core Data, **ArtBookProject** and
**TravelBook**. Of the libraries, the write path of **Firestore** is modelled
from its source, as it is what the first and third of these programs trust with
everything they store. What is left out is listed below with the reason.

Paths are relative to `src/`. Every module's header says which file it models;
every definition that models code keeps the name of the code where it can.

## 1. Inventory

### SnapChatClone: sessions, uploads, expiry

| | |
|---|---|
| Code | `SignInVC`, `SettingsVC`, `UserSingleton`, `UploadVC`, `FeedVC`, `SceneDelegate` |
| State kept | on a phone: `currentUser` (survives a launch), the `UserSingleton` (does not), a snapshot listener, the nested callbacks of every upload under way; in Firestore: `UserInfo`, `Snaps` |
| Operations | sign up, sign in, log out, launch, be killed; `getUserInfo`; `uploadClicked` (put, URL, query, then merge or add); the listener's handler, which deletes what is 24 hours old; the deletes |
| Interaction | phones meet in the collection `Snaps` only: uploads of one username from two phones extend one document, every phone's listener deletes for all |
| Hard | read-modify-write of the list of URLs across two requests, query-then-add, merges that arrive after a delete, answers to an earlier user's query, a singleton nobody clears, deletes decided on an old snapshot |
| Correct if | a story keeps owner and date and leaves only when it is old; a photo is in the stories of one owner, and is sent to those of a user who was signed in on the phone since the launch; alone, an upload neither loses a photo nor makes a second story; uploads end; what is old goes |

### SnapChatClone: the feed's screen

`FeedVC`'s table and `SnapVC`. State: `snapArr`, and one `timeLeft` for all
rows. Each event of the listener reloads both; a tap hands one of the rows and
the shared `timeLeft` to `SnapVC`. Hard: an empty snapshot returns early, and
`timeLeft` is overwritten by each document of the loop. Correct if the screen
is the collection once the listener has caught up, and the time shown is never
more than the snap has left.

### EventSearch: the page of an event

`EventDetail.swift`. State: the JSON of the event, of each artist (with the
albums merged in), of the venue and the map, a counter `cnt`, the flags
`isSugLoading` and `isShowTab`. Operations: five handlers of requests, each of
which sends the next ones; the artists' requests fan out and the counter joins
them again. A page starts from nothing each time it is opened, from the results
of a search or from the favorites, and is left at any moment. Hard: answers in
any order, an error that ends one branch, an answer without what the handler
unwraps, which ends the process. Correct if the tabs never show an artist half
loaded, the venue is asked for once, and a page that is not left comes up when
the services answer.

### EventSearch: the search form

`EventSearchForm.swift`. State: four fields, a sheet of suggestions, four flags
of the results section, the events. Operations: edit, toggle, suggest, submit,
clear; the answers of the locating services and of the search. Nothing is ever
cancelled. Hard: answers after a second submit or after Clear; a keyword that
is read again between two requests. Correct if one display is on at a time, the
spinner goes, and whoever waits sees the results of what was submitted.

### EventSearch: favorites

`EventData`, `EventsView`, `Favorite`. State: a list in memory and its encoding
in `AppStorage`. Operations: add and remove with the button among the tabs of a
page, swipe in the list, launch, kill. Interaction: only a page that has come up
has the button, and a page can end the process that holds the list. Hard: the
check against doubles is in the view and not in `addEvent`; every handler must
save. Correct if the favorites are a set that only the user changes.

### InstaCloneFirebase: posts, likes, notifications

`FeedViewController`, `FeedCell`, the last request of `UploadViewController`.
State: parallel arrays per phone, the collection `Posts`. A like writes the
number on the cell plus one, queries all posts, looks up for each document the
player ids of its author and, when there are any, sends them a push
notification. Hard: stale cells, requests out of order, requests that fail
silently, an author who registers or logs out meanwhile. Correct if likes never
exceed taps, a user who waits loses none, and the author hears of the like
unless no phone of his is registered.

### InstaCloneFirebase: sessions and player ids

`ViewController`, `SettingsViewController`, `FeedViewController.viewDidLoad`.
State: `currentUser` per phone, the collection `PlayerId`. A sign-in is a
request whose button can be tapped again; its answer opens the feed, which
registers the phone after a query; logging out unregisters it after a query and
signs out without waiting. Hard: another user signs in before either is
answered, or by the late answer to an earlier tap; `currentUser!` in a callback.
Correct if a registration goes only by a log-out on that phone and, at rest, a
phone is registered once for its user.

### FoursquareClone

`ViewController`, `SceneDelegate`, `PlacesVC`, `AddPlaceVC`, `MapVC`,
`DetailVC`, `PlaceModel`. State: the signed-in user, the screens one above the
other, the `PlaceModel` singleton that `AddPlaceVC` and `MapVC` fill and nobody
resets, the collection `Places` of a Parse server. A list is queried once, when
its `PlacesVC` is loaded; each save leads to a new one. Hard: Save tapped again
before its answer or after going back; a save without a location, whose page
then ends the process of whoever opens it; answers to a log-out or a sign-in
that find another screen; a query that sets neither limit nor order. Correct if
Save leads to a list that has the place unless it is full, a place saved with a
location can be opened, and the places are behind a sign-in.

### ArtBookProject and TravelBook

`ViewController` and `DetailsVC`; `ListViewController` and `ViewController`;
both `AppDelegate`s and `SceneDelegate`s. State: a Core Data context with
changes that may be unsaved, its store, parallel arrays of names and ids, the
table, the choice with which the page above the list is opened. Operations:
add, open, delete, save, background, kill, launch. The programs are alike but
for what their add buttons do to the choice and for when they empty their
arrays. Hard: a save that fails and leaves its change pending; a fetch that
fails after the arrays were emptied; a choice that outlives its page. Correct
if the list is the context, a row opens its object, and the objects are a set
that only the user changes and of which the end of a process loses only what a
failed save has left.

### Firestore library: the write path

| | |
|---|---|
| Code | `InstaCloneFirebase/Pods/FirebaseFirestore/Firestore/core/src`: `core/firestore_client.cc`, `core/sync_engine.cc`, `local/local_store.cc`, `local/leveldb_mutation_queue.cc`, `remote/remote_store.cc`, `remote/stream.cc`, `remote/write_stream.cc`, `remote/grpc_stream.cc`, `remote/datastore.cc`, and the credentials provider |
| State kept | on disk: a queue of batches for each user; in the process: the worker queue, the user in use, the next batch id, the write pipeline, the write stream with its token, handshake and timers, the callbacks owed to the app |
| Operations | `WriteMutations`, `RegisterPendingWritesCallback`, a change of user, `Start` with its token, the handshake, `FillWritePipeline`, results, refusals, broken streams, backoff, the idle timer, the network switch, a change of connectivity, launch, kill |
| Interaction | app, sign-in library, worker queue and server each go at their own pace: the app puts a task in the queue with the user of that moment, a token comes back for the user of a later one, results carry no id and are those of the front of the pipeline |
| Hard | a user who signs in between a write and its task, a stream that is stopped while its token is on its way, a broken stream whose writes may have been applied and are sent again, a process that ends after the app was told and before the batch is off the disk, batch ids taken from the disk after a restart |
| Correct if | no write leaves under another user's name, none is lost, the app is told the truth, what is sent again settles on the latest write, the order of each user is kept, and what is written gets through |

### The rest

| Part | What there is | Why it is not modelled |
|---|---|---|
| CatchTheMarioGame | two timers, taps, a high score | all run on one main loop and share three numbers; what is left is the order of two callbacks in the last second |
| CurrencyConverter | one request per tap, five labels | two taps may show the older of two answers, both rates of one day; nothing is kept |
| Calculator, BirthdayNoteTaker, TimerProject, AlertProject, FaceRecognitionProject | one screen with one or two handlers each | no state that outlives a handler, or two strings written where they are shown |
| AngryBirdClone | touch and reset flags | what happens is decided by SpriteKit's physics |
| LandmarkBook, SimpsonBook | constant lists in memory | one handler each; the choice is set by every tap |
| The exercises, the layout of EventSearch, Xcode's templates | views and language samples | no state |
| Notification service extension | hands every notification to OneSignal | no decision of its own |
| InstaCloneFirebase's upload before its last request | picture, put, URL | the same chain as SnapChatClone's, where it is modelled |
| The rest of Firestore | listens and the watch stream, queries, the document cache and its overlays, transactions, bundles, garbage collection | a project of its own; the programs' models take from it what section 3 says |
| All other Pods | Firebase, OneSignal, Parse, Alamofire, SwiftyJSON, Kingfisher, gRPC, BoringSSL | external |

## 2. Modules

| Module | Models | State and actions |
|---|---|---|
| `StoryBoard` | what SnapChatClone promises, without phones or requests | `Post`, `Expire`, `Tick` |
| `SnapStories` | sessions, uploads, listeners, expiry | `session`: the phone's memory; `stage`, `filed`, `writes`: the callbacks of one tap on upload, in order; `snaps`, `deleting`: Firestore; one action per handler or callback |
| `SnapFeed` | extends `SnapStories` with the table and the time shown | `Entered` and `ShowSnapshot` are steps of `SnapStories` with what they do to the screen, `Elsewhere` is all others |
| `EventDetail` | the page of an event | `asked` holds the requests under way, one action per handler |
| `SearchPanel` | what a results section does | `Submit`, `Answer`, `Clear` |
| `EventSearchForm` | the form | fields, sheet, flags, `requests`; one action per handler |
| `DurableSet` | a set that only its user changes, an id at a time where his screen offers it, and what the next process finds of it | `Change`, `Show`, `End`, `Launch`, `EnterBackground`, `EnterForeground` |
| `Favorites` | the list and its copy in AppStorage | `events`, `eventsData`; one action per handler |
| `EventPage` | the page and the favorites in the program: extends `EventDetail`, instantiates `Favorites` | `page`; `Open`, `Back`, `Launch`, `Kill`, `Tap`, `Swipe`, and `Loads`, a step of the page that may end the process |
| `InstaLikes` | feeds, the like button, notifications | `cells`: the arrays of a phone; `writes`, `waves`, `lookups`: the requests of one tap, a look-up for each document; `registered`: whose phones can be notified |
| `InstaPlayers` | sessions and the collection PlayerId | `signIns`, `checks`, `adds`, `removals`, `deletes`: requests under way; `signPage`, `behind`: which page is in front |
| `FoursquarePlaces` | sessions, places, their screens | `screen`, `requests` (of taps), `listing` and `reads` (of lists and pages); `here` says whether the screen that asked can still be returned to |
| `CoreDataLists` | both programs over Core Data, `app` says which | `context` and `store`; `rows`, the arrays; `table`, what was reloaded last; `selected`; `page` |
| `Outbox` | what a Firestore client promises of writes, without connections, sessions or processes | `Put`, `Deliver`, `Settle` |
| `FirestoreWrites` | the write path | `queue`, `account`: what survives; `tasks`: the worker queue; `pipeline`, `stream`, `wire`, `answers`: one connection; `callbacks`, `waits`: what is owed; one action per task, event of the stream, or call |
| `SnapProofs`, `EventPageProofs`, `EventSearchFormProofs`, `InstaLikesProofs`, `InstaPlayersProofs`, `FoursquarePlacesProofs`, `CoreDataListsProofs`, `FirestoreWritesProofs` | theorems, see section 7 | |
| `MCSnapStories`, `MCSnapFeed`, `MCInstaLikes` | instances for TLC | |

Definitions introduced by a comment `Variant:` are altered forms of the
definition that follows them. No specification uses them; replacing the
definition by its variant is how each property has been seen to fail.

Variables commented `history` are read by properties only, with two exceptions:
`taps` also bounds how much the users do, and `chosen` lets a careful user tap
Save. `faulty` and
`patient`, and likewise `careful`, `clean`, `faults` and `app`, are chosen in the
initial state and never change: they say which kind of behaviour is being looked
at, so that one run covers services that fail and services that do not, users who
wait and users who do not, and a property says which of them it is about.

## 3. Abstractions

* **Firestore, under the programs.** A request on its way takes effect at any
  later moment, in any order with others, or (when `faulty`) never. The SDK's
  own write queue is ordered per phone, so the models allow more interleavings
  than one phone shows; between phones all of them happen. A query is evaluated
  when its handler runs. Latency compensation (a phone seeing its own writes
  early) is left out. Writes and deletes already handed to the SDK survive the
  end of the process, as its persistent queue does; uploads that have not come
  that far are lost.
* **Listeners.** Events that wait for a listener are merged to one, `"due"`: a
  snapshot shows the collection as it is. A `FeedVC` replaced by a later one
  keeps its listener, which sees the same events and issues the same deletes
  and is not told apart from the new one.
* **Signing in** (`InstaPlayers`). Several sign-ins of a phone may be under way.
  The first that is answered while its page is in front presents the tabs; a
  later one changes `currentUser` and, as its page is covered, presents nothing:
  whether UIKit loads a feed before it refuses is left open, and both are in the
  model. A
  sign-in whose process has ended signs nobody in.
* **Ends of the process.** `currentUser!`, `!` on missing JSON and `res[0]` of
  an empty array end the process where the code can meet them. In
  `EventSearchForm` an answer of a shape its handlers unwrap and do not find is
  left out; an answer without results is not.
* **Parse.** A save or query takes effect when its answer is handled; a save
  that is reported as failed may have taken effect, and one that was sent may do
  so after the process has ended. A log-out answered while a page covers the
  list that asked for it may or may not lead to the sign-in screen, as UIKit
  leaves it. A query that sets no limit returns `Limit` objects at most, 100 by
  `PFQuery.h` 660, and without an order any of them. Of `PlaceModel` the
  location is kept, the only field that decides anything.
* **Core Data.** The view context holds all objects of the store with the
  pending changes, and its fetches see these. A fetch by id compares a UUID with
  a string, which only the store is known to do: an object that is not saved yet
  may be missed. A store that cannot be loaded ends the process at once and is
  left out. Every object has a name, which may be blank, and an id.
* **Firestore itself** (`FirestoreWrites`). A task of the worker queue that
  brings a token opens the stream as well, and "open" and "healthy" are one
  state. The network switch, the call that waits for pending writes and a change
  of connectivity happen between tasks instead of waiting in the queue: more
  interleavings than the code has, not fewer. The stream token is left out: the
  server is taken to have done with one stream before it takes the handshake of
  the next, so that what was on a broken stream is applied before the break or
  never; it refuses the same writes whenever they come. A process that ends
  while it rejects a batch differs from one that ends before in what the app was
  told only. The end of a process is the end of everything but the disk and the
  sign-in. A user's sign-in and the task its listener puts in the worker queue
  are one step, as no task runs for him in between. The server closes a stream by
  itself only when nothing is in the pipeline (`ServerCloses`) or with an error
  (`StreamFails`): one that closed with status OK under a write would fail the
  assertion of `remote_store.cc` 470, and the process would end as by `Kill`.
* **Data.** Photos, users, usernames, ids and keywords are model values. A
  document's id is the upload that added it. Of an event only its id and
  "everything else" are kept; the encoding in AppStorage loses nothing. The
  category of a search is read by no condition and left out.
* **Screens.** A sheet covers the form. The `onAppear` of the page's spinner
  runs once per page. Picture choice, tab choice and the slide show are left
  out. One `EventData` is shared by all views. Requests of a page of an
  event that was left change a state nobody sees, and go with it.
* **Time.** The hour is the unit; `TTL` stands for the code's 24.

## 4. Runs

| Run | Instance and bounds | What it shows |
|---|---|---|
| `snap_stories` | two phones, one photo each, two users, two names, TTL 1, clock to 2, two uploads under way | `ImplementsBoard`: the collection behaves as a `StoryBoard`, so owner and date of a story never change and it goes only when old; while uploads do not overlap `OneStoryPerOwner` and `StoriesOnlyGrow`; without failures `UploadCompletes` and `OldStoriesGo` |
| `snap_feed` | one phone, two users, names `ann` and blank, two photos, TTL 2, clock to 2, with all session steps | `OnePhotoOneOwner`, `FiledUnderAUsersName`, `FeedIsCurrent`, `TimeNeverOverstated`; no deadlock |
| `snap_sign_up` | one phone | finding 1 |
| `snap_time_left` | as `snap_feed` | finding 2 |
| `event_page` | three events, each with two sets of details, up to four artists; 343,760 states | `TabsAreComplete`, `VenueAskedOnce`; without failures `PageCompletes`; `NoEventTwice`; `ImplementsSet`: only a tap or a swipe changes the favorites, and no page that is left, kill, crash or launch; no deadlock |
| `search_form` | one keyword, one place and the phone's own, three requests by the user; 359,140 states | `OneDisplay` for everybody; for a patient user `EventsAreThoseSubmitted` and `ImplementsPanel`; without failures `LoadingEnds` |
| `insta_likes` | two phones, two posts of two authors, two taps | `LikesNeverExceedTaps`; patient and without failures `NoLikeLost`; without failures `AuthorIsTold`, while authors register and log out at any moment |
| `insta_notices` | the same, one tap | finding 3 |
| `insta_players` | two phones, two users, three sign-ins asked for or launches of a signed-in user; 954,756 states | `RemovedByLogOutHere`; patient and without failures `RegisteredForTheUser` |
| `foursquare_places` | one user, three places, lists of two at most, two requests of taps under way; 2,140,826 states | for a user who always chooses a location `DetailCanOpen`; `NewPlaceIsListed`, in a list that is not full; patient and without failures `SignedInBehindTheList`; without failures `SaveLeavesMap` |
| `core_data_lists` | four ids, with a name and without, all four kinds of failures in both programs; 319,928 states | `ListShowsContext` when fetches succeed; without failures `RowOpensItsObject`; `ImplementsSet` whatever fails: what the next process finds is what was saved |
| `firestore_writes` | two users, three writes of which the second is refused, a pipeline of two, two tasks in the worker queue, three troubles; 496,792 states | `AssertionsHold`: what the library asserts of itself; `WrittenAsTheirUser`, `NothingLost`, `ToldTruly`, `Settled`; `NeverStalls`: nothing waits without a step on its way that serves it; `ImplementsOutbox`; `WritesGetThrough` |

Types are left to the proofs, for every module.

Why the bounds are enough. Uploads interfere through one document or through one
missing document, so two at a time on two phones show every conflict of a pair,
and a clock that passes TTL lets a merge meet a deleted story. Two accounts are
what it takes for an answer to come for the wrong one. Four artists give the
counter every order of a fan-out with room on both sides of each comparison; the
theorems remove this bound. In the form, two searches and a suggestion, or three
searches, overlap. Two taps, on one post or two, from two phones, are a lost
update and a notification to the wrong author. Three sign-ins are one, one of
somebody else before or after its answer, and the same again or a second phone.
Two places are one that is saved with a location another left behind, and the
third is the one a list of two cannot hold; two requests are a double tap or a
log-out with a sign-in that is late. Four ids are three objects and one chosen
earlier, and ids are used again once nothing remembers them, so that additions
and deletions go on without a bound. Three events are one to add, one to remove
and one that stays. Three writes through a pipeline of two are one that has to
wait; with two users and three troubles a stream breaks while another user signs
in and the process ends.

The bounds are `MaxTime`, `MaxInFlight`, `MaxArtists`, `MaxSent`, `MaxTaps`,
`MaxAsked`, `MaxWrites`, `MaxTasks`, `MaxTrouble` (kills, breaks, failed tokens,
switches of user and of network), and the sets `Ids` and `Tags` of
`FoursquarePlaces`. (`Limit` is no bound but the value of a parameter of the code,
2 for its 100.) Where they stop the system, the run does not look for
deadlocks.

## 5. Fairness

* `SnapStories`: every callback of an upload, every write, listener and delete
  is weakly fair: the network answers and the main queue runs what is handed to
  it. Failures, users and the clock are not. `UploadCompletes` and
  `OldStoriesGo` are about behaviours without failures. `OldStoriesGo` starts
  from a listener that has an event: the code has no timer, so without one an
  old story stays.
* `EventPage`, `EventSearchForm`, `InstaLikes`: every request is answered;
  the liveness properties are about behaviours without failures, as the code
  retries nothing and the failure of one request leaves a spinner for ever. In
  `EventSearchForm` an answer may still be an empty one.
* `FoursquarePlaces`: every save is answered. `SaveLeavesMap` is about behaviours
  without failures. A user who leaves the map earlier fulfils it as well,
  as one who leaves the page of an event fulfils `PageCompletes`.
* `FirestoreWrites`: the worker runs its tasks, tokens come, backoff timers end,
  handshakes complete, the server takes what is on the wire and its results and
  refusals are read. Troubles are bounded and unfair. `WritesGetThrough` excuses
  a user who signs out and a network that stays disabled; a process that has
  ended is not `enabled` either.

## 6. Findings

1. `snap_sign_up`: an account can be created without a username, though the
   alert of the same handler says it is missing (`SignInVC.swift` 38, 54).
2. `snap_time_left`: the time shown for a chosen snap is that of the oldest one
   (`FeedVC.swift` 52-53, 109).
3. `insta_notices`: a like notifies the authors of all posts, once for each post,
   that someone likes theirs (`FeedCell.swift` 39, 55).

Losses that nothing in the repository promises against are not findings but
limits of the properties above: overlapping uploads of one username can make two
stories of it or lose a photo (`OneStoryPerOwner` and `StoriesOnlyGrow` are
stated without overlap); likes from stale cells overwrite one another
(`NoLikeLost` is stated for taps that wait); an author of two posts is notified
of one like twice; late answers after a second submit show the earlier search
(`EventsAreThoseSubmitted` is stated for a patient user); an empty snapshot
leaves the rows of deleted stories on the screen (`FeedIsCurrent` excludes it).
A merge that comes after the delete of its story creates a document without an
owner, which `StoryBoard` does not see as the feed shows none for it. Which of
the users of a process a photo is filed under depends on the order of late
answers (`FiledUnderAUsersName` says that it is one of them). An error leaves a
spinner on (`PageCompletes` and `LoadingEnds` are about services that answer). A
user who goes on before his sign-in, the feed's query or the log-out is answered
may leave a phone registered for another user than the one signed in, twice, or
not at all (`RegisteredForTheUser` is about users who wait); a log-out of
FoursquareClone that is answered late may leave a list to nobody
(`SignedInBehindTheList` likewise). A place saved without choosing a location
takes that of an earlier place or none, and the page of one that has none ends
the process (`DetailCanOpen` is about users who choose); Save tapped twice saves
twice. A list at the limit of its query may lack the place that led to it
(`NewPlaceIsListed` excepts a full list). After a place was looked at,
TravelBook's add button opens that place again, without a save button, until a
row without a name is tapped or the program starts anew (no property speaks of
it). After a fetch that fails, ArtBookProject's table has rows that its arrays
lack, and touching one ends the process (`IndexOutOfRange`; `ListShowsContext`
is about fetches that succeed).

In Firestore a write whose answer is lost with its stream is applied again after
the reconnection, as its queue promises at-least-once delivery; `Settled` says
what is left of that. A write that fails while an earlier result is unread, or a
result that does not parse, makes the library reject the front of the pipeline
although the server has applied it (`ToldTruly` is about errors where results are
read in time, `clean`). The comment at `remote_store.cc` 527, that the request
itself was the problem, supposes as much; whether gRPC lets it happen is outside
the source, so this is no finding.

## 7. Proofs

All theorems are about every value of the constants: any number of phones,
accounts, names, photos, artists, events, places, objects and writes, any TTL,
any size of the pipeline. None of them uses a fairness assumption, and they cover
sessions, kills and failures. `tlapm` checks them without a step left
open. Of the constants they assume what the module's `...Assumption` says: that
the markers for "absent" are none of the values they stand beside, and that
numbers are numbers. The properties are not inductive by themselves; what makes
them so is named below, module by module.

**`SnapProofs`**, the stories.

* `Fresh`: a document is added by one upload, which is the one that names it;
  until then nobody has asked to delete it. Without this an add that comes late
  could revive a document whose delete is on its way, and the delete would take
  a new story.
* `DeletesAreLate`: every story on the way to be deleted is old already. Dates
  never change (a merge does not touch them) and the clock only advances, so
  a delete may arrive as late as it likes.
* `Filing`: a photo in a story was sent and filed under the story's owner, and
  the lists on their way to a story hold such photos only. A merge and an add
  never aim at one document, as a merge is made for a story that was there.
* `NamesKnown`: the singleton holds the name of a user whose feed this process
  has opened, or the blank one of a new process; so does an upload that waits for
  its query, and only of such users a name is still asked for. That a killed
  process takes its uploads and questions with it is what keeps it.

`StageMoves`, `QueryStep`, `WriteStep` and `StoryStep` show that the first three
survive each action, `NamesStep` the fourth, `TypeStep` the types. `StoryChange`
then says what a step can do to the stories, and from it follow
`OnlyOldStoriesDeleted` (theorem `OldOnly`) and, with the refinement mapping of
`Board`, that `SnapStories` implements `StoryBoard` (theorem `Refinement`:
`Board!Init` from `Init`, and every step a `Post`, an `Expire`, a `Tick` or a
stutter). `OnePhotoOneOwner` follows from `Filing`. `FiledUnderAUsersName` is
about the step that answers the query: a new story takes the name that the
singleton has then, a merge goes to a story found by the name the query was for,
and `NamesKnown` is about both.

`OneStoryPerOwner` and `StoriesOnlyGrow` are theorems of `SettledSpec`: with
sessions an add may be for another name than its query asked for. `Asked` says
that here it is not. While uploads do not overlap, `Alone` holds: one upload is
under way, its add is for a name without a story, and its merge brings all
photos the story has. `UploadAlone`, `QueryAlone` and `WriteAlone` keep it;
every other step only takes stories and writes away.

Of `UploadCompletes` two action properties hold always. `OncePosted`: once a
photo's own document was added, or never will be (`Closed`), it is not added
again, so a merge that comes late revives nothing. `UploadsAreNotDropped`: where
no request fails a step takes an upload to its next stage or leaves it, and a
write that takes effect leaves its photo in a document (`Bringing`: what is
written has the photo of its upload). What is left to liveness is that the steps
are taken.

**`SnapProofs`**, the screen. Every step of the feed is one of `SnapStories`
(`StepIsAStoryStep`), so `FeedSpec` implies `Spec` and the theorems above hold
with the screen. `FeedKeepsTheBoard` carries the refinement over. A snapshot's
rows have one label each, and the shared label is the least of them because the
loop ends with the oldest document (`LastIsOldest`: a set of dates has a least
element, by the library's well-foundedness of the naturals). `Listening`, that a
listener lives in a process, is what lets a quiet listener mean a current
screen. `Going` adds that the rows are of stories that were there, hence do not
come back, and that a row without time left belongs to a story whose delete is
asked for: `NothingOverStays`, the safety half of `OldStoriesGo`.

**`EventPageProofs`.** About the page: `Lineups` says which artist a request or
an album can be about, and that an artist has one request at a time; `Barrier`
that `cnt` is the number of artists with albums and that the venue was asked for
only when it equals the number of artists; `Once` that the event's answer comes
once, before anything it causes. Counting is by `OneMoreAlbum` and `AllAlbums`,
from the library's facts about finite sets. A page that is left is as one never
opened (`LeaveStep`). `Course` says which requests a page can have at each
point: the artists and their albums, then the venue, the map and the tabs. It
gives `NeverWaitsInVain` (`WaitsUntilShown`: where services answer, something is
asked for exactly while the spinner turns) and `AnswersOnlyAdd`
(`EveryAnswerCounts`: an answer makes one of the finitely many requests `Over`
that was not, and none is undone), which together are `PageCompletes` but for
the answers themselves. About the favorites: the list in memory is the one that
is kept, and no two of its elements have one id. `OneLess`, `OneIdLess` and
`OneIdMore` say what a removal and an addition do to a list and to its ids,
`FavStep` what any step of the program does to the ids that are kept: nothing,
or one id more or less among those that the screen offers, in a program that
runs. From it follow `NoDoubles` and `Refinement`.

**`EventSearchFormProofs`.** `Apart`: spinner, note and table exclude one another.
`Patience`: a user who waits has one request at most, and while it belongs to a
search, form and spinner are as the submit left them (`Serves`). The theorem
`IsAPanel` adds that every step of the form is a step of `SearchPanel` or none.
`SpinnerIsNeverForgotten`, for the hasty user too: a spinner has a request under
way that stops it or asks on (`SpinnerIsServed`); for the user who waits the
request is for what was submitted.

**`InstaLikesProofs`.** `Numbered`: taps have numbers of their own, so a tap is
one more (`OneMoreTap`). `Bounded`: a count is no more than the taps on its post
wherever it is, in the collection, on a cell or on its way, however old; nothing
is about a post that is not there. For users who wait and requests that succeed
`InStep` adds that there is one write at a time, of the right number, and that
the cells of a feed that is not due are the collection. `NoticesAreNotLost`: where
no request fails the query of a tap's posts starts the look-up for its author, and
the look-up ends with the notice sent or with no phone of the author registered.
It needs that the query finds the post that was tapped (`LikedIsThere`).

**`InstaPlayersProofs`.** `Leaving`: what is on its way to be deleted is of
somebody who left that phone; from it follows `RemovedByLogOutHere`. For users
who wait and requests that succeed, `InOrder`: a phone has one registration at
most (`OneEach`), which is its user's or being removed (`Justified`), a user has
one or it is being looked for (`Present`), the requests do not overlap on a phone
(`InTurn`), and a sign-in is asked for by the page in front, one at a time
(`Entering`).

**`FoursquarePlacesProofs`.** `Sound` is about the requests under way: one per
tap, one per new place, none for a place that is saved, and, for users who
choose a location, each with a location. It is stated for any set of requests
and any collection, as every new screen sends the old requests away at once
(`SomeAway`). With `Located` and `Listed` (the list has the place, or as many
places as the limit allows) it gives the first two properties; `Patience` on top
of it the third. `AnswersAreForTheirScreen`: an answer that may still act finds
the screen that asked, and a page's query that very page. With it,
`SavesArrive`, the safety half of `SaveLeavesMap`: where requests succeed a save
stays under way until its place is in the collection with the location that was
sent. `OnlyNewPlaces`: a place that is there is never saved over.

**`CoreDataListsProofs`.** Its invariant joins the two state properties with three
more facts: `NothingWhenOff`, that a new process starts from the store and from
nothing else; `SavedAtOnce`, that without failing saves context and store are the
same, which `RowOpensItsObject` needs for the fetch by id (`FetchById`); and
`SavedInBackground`, that saveContext leaves nothing behind. One
lemma per kind of step (`DieStep`, `PageStep`, `AddStep`, `DeleteStep`) keeps it.
`QuietStep`, `EndStep`, `BackgroundStep`, `RemoveStep` and `SaveStep` map each step
to one of `DurableSet`, with what the screen offers as `offered`, and theorem
`Refinement` follows, for saves that fail as well: a change may then stay out of
the store until a later save or the background, and the end of a process loses it
and nothing else.

**`FirestoreWritesProofs`** goes in layers, each resting on those below.

* `Core`: queues have ascending ids and the pipeline is the beginning of the
  current one (`Queues`); each task was put in the worker queue by the user of
  the task before it (`Turns`), so a write is queued for whoever made it; one
  live token at most is on its way, to a stream that starts (`Tokens`); answers
  and wire together are the pipeline once the handshake is done (`Connection`).
  The assertions, and that no write leaves under another name, follow.
* `Debts`: answers are of writes that were applied, each callback belongs to a
  batch in a queue, each wait covers writes that are settled or ahead of the
  batch waited for. `NothingLost` and `ToldTruly` follow.
* `Order`: the numbers of the writes ascend through applied, queued and tasks.
* `Behind`: what was applied and is no longer queued lies before all that is
  queued and not after the last that was applied. `Settled` follows, and with
  `PutsWrite`, `DeliversHead` and `SettlesFront` that the library implements
  `Outbox`.

* `Busy`: while the network is enabled the pipeline is as full as it can be
  (`Filled`) and has its stream (`UnderWay`), and a stream that starts has asked
  for its token or finds it in the worker queue (`Wanted`), where nothing else is
  wanted by a stream (`OnlyTokens`). With `Connection`, and with `Turns` for the
  user who has signed in, `NeverStalls` follows: the safety half of
  `WritesGetThrough`.
* `Lag`: no id is above the number of its write, so the bound on writes bounds
  ids. With it, `SearchesAlwaysSucceed`: the batch or id that a handler looks for
  is always there. An action of the model whose search failed would be disabled
  in silence, and everything else would hold of a library that stops; this
  theorem, and its use of `Greatest` (a finite set of ids has a greatest), rule
  that out for any size.

`FillExtends`, `FillStarts` and `FillLinks` say once what `FillWritePipeline`
does, for any pipeline, queue, stream and wire; eight actions use them.

Of every liveness property the part that is safety is proved: what waits has a
request, task or timer on its way that serves it, and each step takes it on
(`NothingStalls`, `NeverWaitsInVain`, `AnswersOnlyAdd`, `SpinnerIsNeverForgotten`,
`NoticesAreNotLost`, `SavesArrive`, `UploadsAreNotDropped`, `NothingOverStays`).
That the steps are then taken is what fairness adds. The invariants and action
properties these theorems name are defined beside their proofs; of them the runs
check `NeverStalls`.

Checked by TLC only: everything about liveness (the prover has no fairness and
no ENABLED), that is `UploadCompletes`, `OldStoriesGo`, `PageCompletes`,
`LoadingEnds`, `AuthorIsTold`, `SaveLeavesMap` and `WritesGetThrough`. Every
other property of the passing runs is a theorem.

## 8. Not modelled

Section 1 lists the parts that are left out and why. Within the parts that are
modelled, the following is open: FoursquareClone on two phones, one of which
saves places without a location; the likes together with the registrations that
their notifications go to, each of which is a model of its own here; pictures and
everything else that no condition reads.
