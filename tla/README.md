# WisHope in TLA+

This directory is the formal model of the WisHope iOS app
(`src/alexanderxcode/WisHope`, about 2250 lines of Swift): TLA+ modules
translated from the source, TLC configurations that check them on small
instances, and theorems that TLAPS checks for every value of the constants.
`PROJECT.json` maps each definition to the lines it models.

Abbreviations below: CVC is `Controllers/CommunicationViewController.swift`, CO is
`Controllers/CallOnlyViewController.swift`.

## 1. Inventory

| Component | State it keeps | Operations | What makes it correct |
|---|---|---|---|
| Video call screen (CVC) | `accessToken`, `room`, `camera`, local tracks, `remoteParticipant`, the weak outlet `remoteView`; delegates and renderers inside the SDK | `viewDidLoad`, 7 delegate methods that act, `disconnect`, `toggleMic`, `toggleVideo`, completions of the token request and of `startCapture`, `deinit` | what is shown is live; no video is overlooked; the end of the room is noticed; leaving ends the call and frees the camera; the force-unwraps hold |
| Audio call screen (CO) | the same without video; its delegate methods are renamed and never called | `viewDidLoad`, `disconnect`, `toggleMic` | hanging up ends the call; the button finds its room |
| Token request (CVC 69-114, CO 41-84) | `accessToken`, shared by two threads | request, completion, use after `sleep(1)` | what `connect` gets is the token fetched |
| Twilio Video SDK (vendored) | room state, participants, subscriptions, delegate queue | `connect`, `disconnect`, and everything it does by itself | assumed, not checked |
| Resource map and filter sheet (`MapViewController`, `MapBottomSheetController`, `filterTableCell`) | statics `locsArray`, `checkedFilters`, `filteredTypes`, `filtered`, `filteredLocs`; per map: pins and switches | `viewDidLoad`, query completion, `swipedUp`, `cellSwitchClicked`, `viewDidDisappear` | pins pass the filter; an unfiltered map is complete; switches and static filters agree |
| Login and presence (`LoginViewController`) | statics `User.email`, `User.uid` | `loginTapped`, `updateUserStatus`, `setfcm` | whoever is signed in is online; whoever is online is using the app |
| Application delegate | `User.fcm`, the window's root | launch, new push token, notification tapped, `openRoom`, `applicationWillTerminate` | a phone opens rooms of its own users only; a call off screen is accounted for; going offline is announced |
| Online lists (`OnlineUsersTableViewController` and its audio twin) | `allOnlineUsers`, the selected uid | fetch, row tap, `prepare(for:)` | the person rung is the one tapped; both sides name the same room and meet in it |
| Sign-up | none | validate, `createUser`, `setData` | whoever asked is answered; the statics stay what sign-ins made them |
| Password reset | none | one call | the label tells the outcome |
| Settings, Utilities, Constants, models, static screens, `SceneDelegate`, tests, Pods | none of interest | | |

How they interact. Login sets the `User` statics, marks the user online and
goes to the home tab bar, which holds the map and the way to the online lists.
A row tap rings the other user through the cloud function `calluser` and
segues to a call screen with a room name computed from the two uids; on the
other side a tapped notification computes the same name and replaces the
window's root by a video screen. A call screen fetches an access token, sleeps
a second, connects, and on `disconnect` replaces the window's root by a new
home tab bar, and so by a new map. Cloud functions, Firestore, FCM and Twilio
are outside the repository and are modelled by what the app sees of them.

What is hard here. Everything is callbacks: the SDK changes its state on its
own threads and reports it to the main queue later (CVC 265-404); the token
arrives on a URLSession thread with no synchronisation (CVC 102, 114);
completions hold their screens strongly and run after the user has left;
statics survive screens that are made anew; outlets are weak and force-unwrapped.
The two test targets are Xcode's empty templates: nothing is tested.
`PROJECT.json` lists 40 hazards, each at its line, with the properties that
would catch it going wrong; the one that has none, a failing `setData`, says why.

## 2. Modules

| Module | Models |
|---|---|
| `TwilioRoom` | external: one Room object of the SDK |
| `TokenFetch` | the token request both call screens make |
| `CallSession` | CVC, from `viewDidLoad` to `deinit`; extends the two above |
| `AudioCallSession` | CO, likewise |
| `CallLife` | abstract specification of a call screen, which both implement |
| `ResourceMap` | the map, its sheet and its switches |
| `Presence` | sign-in, sign-up, presence, push tokens: phones, network and server |
| `Session` | abstract specification of the `User` statics, which `Presence` implements |
| `OnlineList` | one life of a table of online users |
| `RoomNames` | the names of rooms: sorted strings of characters |
| `Signalling` | row taps, pushes, notifications, and who is in which room; extends `Session` |
| `MC*` | the instances TLC checks (`Presence` and `OnlineList` need none) |
| `TwilioRoomProofs`, `CallSessionProofs`, `AudioCallSessionProofs`, `ResourceMapProofs`, `PresenceProofs`, `OnlineListProofs`, `RoomNamesProofs`, `SignallingProofs` | the theorems |

How they compose. `Signalling` is where components meet: it takes from `Session`
what a process may rely on of its statics (both `Presence` and `Signalling` are
proved to implement that), from `CallLife` what a call screen does (both call
screens implement that: a call is dialled as the screen comes up, hanging up
ends it, being taken away does not), and from `RoomNames` what a room is called.

### TwilioRoom

The variables are the SDK's: `sdkRoom`, `members` (`room.remoteParticipants`),
`departed`, `subscribed` and `ended` (video feeds, that is, participant and
track), and `callbacks`, the FIFO of the main queue. Every step of the SDK
changes its state and appends a callback; a handler runs later and reads the
state of that moment, which is what the screens' code really sees. Choices:

- a participant is one `RemoteParticipant` object. Whoever comes back is a new
  object with a new sid, so an object joins and departs once, and a
  publication is subscribed once. This bounds the model without any counter;
- a participant's tracks are unsubscribed, with their callbacks, before it
  leaves the list; whether tracks still read as subscribed after the room has
  ended is left open;
- reconnecting is a connected room: its two callbacks only log;
- a room asked to disconnect while connecting ends with a `roomDidDisconnect`.

Callbacks whose handlers only log (publish, unpublish, enable, disable, and
everything about audio and data tracks, CVC 313-338, 367-404) are not posted.

### CallSession

`pc` is the main thread and the screen: `new`, `asleep` (in `sleep(1)`),
`ready`, `left` (by its button), `replaced` (by `openRoom`), `crashed`, and, once
it is freed, `released` or `dropped`.

| Code | Action |
|---|---|
| `viewDidLoad` to the sleep (48-109), `startPreview` (148-188) | `ViewDidLoad` (with `PreviewFails` for 170-173) |
| the rest of `viewDidLoad` (109-146), `prepareLocalMedia` (209-226) | `Connect`, `ConnectTorn` |
| completion of the request (91-106) | `FetchStep`: `ReplyArrives`, then `StoreToken` |
| `roomDidConnect` ... `participantDidDisconnect` (265-310) | the action of that name |
| `didSubscribeToVideoTrack`, `didUnsubscribeFromVideoTrack` (339-365) with `renderRemoteParticipant(s)` and `cleanupRemoteParticipant` (231-262) | the action of that name, `Render`, `ViewAfterCleanup` |
| `disconnect`, `toggleMic`, `toggleVideo` (190-207) | `Disconnect`, `ToggleMic`, `ToggleVideo` |
| `openRoom` during the call (AppDelegate 111-121) | `Replaced`: another screen is the window's root, and the room is told nothing |
| completion of `startCapture` (177-183) | `CaptureStarted` |
| `deinit` (40-46) | `Deinit`, once neither completion holds the screen |

Undefined or unspecified behaviour is a choice: the unsynchronised token gives
the old value, the new one, or a torn one (the process dies); the order of
`remoteParticipants` and of a participant's tracks is arbitrary. The outlet
`remoteView` is weak: `cleanupRemoteParticipant` takes the view off its
superview and sets the outlet to nil, and nothing ever sets it again. A track
callback is delivered to the participant's delegate, looked up at delivery.
`localVideoTrack?.isEnabled = ...` with a nil track skips the whole assignment,
so the toggles cannot crash. In a force-unwrap that fails the model enters
`crashed` with its reason in `crash`. A screen that is replaced goes on getting
its callbacks while a completion holds it, and is freed like one that was left.
Its room may go on after that: whether it ends with its last reference is the
SDK's affair, and so the SDK goes on stepping in the model.

### AudioCallSession

The methods of CO's two delegate extensions end in "2", so the SDK, which
looks for the protocol's own (optional) methods, finds none: `HandleCallback`
takes any callback and changes nothing else. Hence `room` is never set to nil
and `delegates` stays empty. The list presents this screen by a "show" segue
(Communication.storyboard 297) without a navigation controller, which is a page
sheet on iOS 13: it can be swiped away, and `openRoom` replaces the root under it;
either way nothing of the class is called (`TakenAway`). Whether the screen and
its room are freed then is not in the code.

### CallLife

Two variables, the screen and the call, and the steps `Dial`, `Network`,
`HangUp`, `TakeAway`, `Die`. It says that a screen dials exactly once and in the
step that puts it up, that a hang-up closes it and ends the call in one step,
whatever the call has come to, that a screen taken away leaves its call as it is,
and that nothing dials again. Both sessions implement it under `screen <- Screen,
call <- sdkRoom` (`ImplementsCallLife`). `Die` is always allowed: which
force-unwraps fail, and when, is the subject of `CrashCauses`.

### ResourceMap

`locsArray`, `checkedFilters`, `filtered`, `filteredLocs` are the statics, as
bags because order never matters; `maps` counts the maps made and `query` says
of each how its Firestore query stands; `pins`, `switches`, `sheet` belong to
the map on screen. A query may be answered once its map is gone: its completion
holds the map, appends to the static array, and makes pins nobody sees.
`filteredTypes` is rebuilt right before its only use and is not a variable.
`CellSwitchClicked` follows `isSelected`, as the code does. A query is answered
with every document, with those in the cache if the client is offline, or with
an error. `late` is a history variable: the maps whose query has been answered
since the sheet last went. Not modelled: reuse of the six cells, and a new root
screen while the sheet is up.

### Presence

Per phone: the main thread (`screen`, the statics, `mainQueue`), FirebaseAuth's
work queue (`asked`, `currentUser`), the wire. For all: the server (`users`,
`online`, `fcmToken`) and the accounts. What survives a process is
`currentUser`, `sdkToken`, the wire and Firestore's queue of writes.

| Code | Action |
|---|---|
| `didFinishLaunching` (AppDelegate 20-50) | `Launch`: reads the SDK's token once |
| `didReceiveRegistrationToken` (54-61) | `NewToken`: stored nowhere |
| `applicationWillTerminate` (127-130) | `WillTerminate`; a kill or a crash is `Killed` |
| `loginTapped` up to the request (LoginViewController 48-53), `signUpTapped` (69-81) | `Tapped`, `FieldsRefused` |
| its completion (54-79) | `RequestFailed`, or `StoreUser` (59-60), `MarkOnline` (61) and `SendToken` (63-79): one step for each read of `currentUser` |
| completions of `createUser`, `setData` (SignUpViewController 81-98) | `CreateUserDone`, `RequestFailed`; `SetDataDone` |
| "reset password" and back (Login.storyboard 153-158); `openRoom` (AppDelegate 111-121) | `CoverLogin`, `BackToLogin`; `OpenRoom` |
| `trasitionToHome`, `showError` | the operators of that name: a screen that is not on show has no window to go home in, and its label is seen by nobody |

FirebaseAuth sets `currentUser` on its own queue and posts the completion to the
main queue (Pods/FirebaseAuth, FIRAuth.m 1917-1942), so a second answer may come
between the two. The completion then reads `currentUser` at lines 60, 61 and 63,
and each read is a visit to that queue: an answer may come between any two of
them. `reads` says how far the completion is; while it runs (`Busy`) the main
thread does nothing else. So whom a process has `announced` and whom it has
`named` to setfcm are two sets, and may differ.

Each request is independent, may be lost and may overtake others, and processes
may be killed. What the server may have wrong is kept per topic, that is, per
user and per presence or token: a message lost or overtaken puts its topic into
`doubted` (a history variable), and the next message on the topic, sent when
nothing on it is under way, takes it out again. So a lost request of long ago
excuses nothing. What the cloud functions do with a user that has no document is
not said, so both are possible. The requests for the empty uid are left out.

The reset screen covers login, which is the same screen afterwards: a completion
that runs meanwhile finds no window to go home in, and an error it writes is
there when the user comes back.

### Session

The promise of the statics: empty when a process starts, set by sign-ins only,
never emptied while it runs, gone with it. `Presence` implements it
(`ImplementsSession`). `Signalling` uses its actions among its own, and that
this makes it an implementation too is a theorem (`Refinement`).

### OnlineList

`request`, `allOnlineUsers`, `reload` (the block on the main queue), what the
table was told (`rows`), drew (`cells`), and `userUID`, which cells and taps both
write. The completion runs on a URLSession thread between any two steps of
the main thread. The data race is over one word that replaces an empty array,
so a read gives the old array or the new one and never a freed one.
`prepare(for:)` is part of `DidSelectRowAt`, for `performSegue` runs it before it
returns. `Sheet` tells the two classes apart: below the audio screen the list
can be uncovered again.

### RoomNames

Operators only. A uid is a sequence of characters, a character a number, and
`SortedString` sorts a sequence by saying where each character goes (`Position`);
`RoomString` is the name of a call's room. `Anagrams` is the reference they are
compared with: the same characters, each as often.

### Signalling

| Code | Action |
|---|---|
| row tap, `calluser`, `prepare(for:)` (OnlineUsersTableViewController 91-111) | `RowTapped`: any user may be in an old list |
| FCM | `PushArrives`: late, in any order, or never |
| `didReceive`, `openRoom` (AppDelegate 74-121) | `NotificationTapped`: launches the app if need be |
| `disconnect` of both screens | `HangUp`, from a video screen also to a home nobody signed in to |
| a swipe on the audio screen | `SwipedAway` |
| launch, sign-in, sign-up, end of the process | `Launch`, `SignIn`, `SignUp`, `ProcessEnds` |

A sign-in sends this phone's token for the user, or none (it had none, or the
request is lost, and the server's stays). A call screen that goes without
hanging up (`Abandon`) may leave a room nobody sees, a ghost, which ends when
the SDK or the process does. `signedIn`, `abandoned` and `answering` are
history variables for the properties. `Uid` gives each account its uid, and the
user of a sign-up, who calls as nobody, the empty one. `dialled` keeps, with the
parties of a call, the name of the room its screen was given, so that a list or
a notification that computes another one is seen; `RoomNamed` only tabulates
`RoomString` once per run.

## 3. Runs

| Run | Question | Instance |
|---|---|---|
| `call_rendering` | is what is shown right, in every order of joins, subscriptions, departures, room ends and late callbacks? | 2 participants, 1 track each, no camera; symmetric; 41k states |
| `call_start` | every outcome of camera, microphone, token and connection; two tracks of one participant; is the end of a room on its way; which force-unwraps fail, the camera's included; refinement; liveness | 1 participant, 2 tracks; 111k states |
| `call_late_token`, `call_another_video`, `call_room_gone` | violated: see section 6 | 1 or 2 participants |
| `audio_call` | type, button, refinement of the audio screen | 2 participants; 76k states |
| `audio_unheard` | violated: see section 6 | 1 participant |
| `resource_map` | filter, completeness, what late answers leave out, duplicates and progress across maps | 3 maps, 2 rows, 3 documents, one of them of no row's type; 408k states |
| `presence` | what the server believes of whoever is signed in; who is online without using a phone; every request answered, nobody forgotten; the statics implement `Session` | 1 phone, a member and a newcomer, 2 launches, 2 taps, 2 changes of screen, 2 tokens, every fault; 170k states |
| `presence_mixed` | violated: see section 6 | 1 phone |
| `online_list` | who is rung, what kills, does the list appear | 2 rows, 2 accounts and an incomplete element, 2 taps |
| `signalling` | who is in which room, by which name, on which screen; does whoever answers meet the caller | 2 phones, 2 accounts that use both, with uids `ab` and `abab` and the empty one of a sign-up, 2 calls, 4 launches and sign-ins; 737k states |

Why the bounds are enough. Two participants give every relation the code can
tell apart: the one whose callback is handled, and another one to be rendered
in its place; a third would only widen a choice that the code resolves by
taking the first of an array. `call_start` gives one participant two tracks,
because the handlers compare participants and never tracks. The queue has no
bound of its own: each object produces finitely many callbacks. Instances
outside the standing runs (2 participants with 2 tracks each, and 3
participants) were explored once without error (18M and 8M states). Three maps let two earlier
queries be answered around the events of the last. `MaxMaps` is the only
artificial bound there.

`Presence` and `Signalling` bound what a user or a system may do for ever: launches,
taps, visits, tokens; calls, launches and sign-ins. The uids of `signalling` are
chosen so that calls of different parties have the same characters: `ab` who
rings `ab`, and a nobody who rings `abab`, are in one room, `aabb`. Two launches let the
requests of a dead process be handled around those of the next; two taps put
two sign-ins in flight, which is what mixes users. `presence` has one phone: two
phones, launched once each, were explored apart without error (1.9M states), and
what is said of any number of them (`OnlineIsSomeonesDoing`) is proved. Two calls let each side call
the other, or one call be answered twice, or a call be opened over another; four
launches and sign-ins let both phones come up and their users change, or one
phone be restarted by a notification. The invariants of the two modules that
are proved hold without these bounds (section 5).

`CHECK_DEADLOCK FALSE` is stated where the system really stops: a call screen or a
list that is gone, a phone off after its last launch, users out of calls.

What the main properties say:

- `ShownIsLive`: a shown participant is in a held room and an existing outlet,
  has its delegate, and its rendered feed is live or its take-down is queued;
- `NoVideoMissed`: with an outlet and nobody shown, every subscribed feed still
  has its callback coming; it holds only because delegates are always set
  before the first track callback is delivered;
- `OneRenderer`: one feed is rendered in the life of a screen. This is the
  comment of CVC 269, though no code ever removes a renderer: what makes it
  true is that the outlet dies with the first cleanup;
- `NothingAfterTheRoom`: a screen that has let go of its room hears of it no more;
- `OnlyOpenRoomLeavesACall`: a call goes on under its button or behind a screen that
  `openRoom` has taken away, and nowhere else: a hang-up ends it even while it is
  being dialled, and it never comes back;
- `CrashCauses`: the histories in which the force-unwraps of camera, token, room and
  outlet fail. `call_start` has a camera that may fail, `call_rendering` the rest;
- `EndIsComing`: a screen that holds a room the SDK has ended is about to be told;
  with the fair main queue this is why `RoomEndIsNoticed` holds;
- `ListensToAll` (of `CallSession`): whoever is in the room has the screen as its
  delegate, or the callback that sets it is queued. It is proved, and no standing
  run checks it on the video screen; on the audio screen it fails, see section 6;
- `VideoIsShown`, `RoomEndIsNoticed`, `CameraIsReleased`: progress;
- `PinsPassTheFilter`, `SwitchFilters`, `UnfilteredMapIsComplete`,
  `PinnedOncePerMap`, `MapFillsUp`: what a map shows, whatever earlier maps left;
- `OnlyLateAnswersAreMissing`: a filter in force hides, of the documents it lets
  through, nothing but what came after the sheet went: each of them is pinned as
  often as it was loaded, less at most one for each answer since;
- `SignedInIsOnline`, `ServerHasLaunchToken`: with one phone, the server agrees with
  the process that runs, on each topic that is settled: nothing on it is under
  way, and nothing was lost or overtaken since the last message that nothing could
  spoil. The first is of whoever was announced, the second of whoever was named to
  setfcm, and pins down how stale a push token may be: it is that of the launch;
- `OnlineIsSomeonesDoing`: an online user is in use, or was stranded by a kill or
  by a second sign-in in the process; on a settled topic no other way leads there,
  and one clean sign-in settles it again;
- `RequestIsAnswered`: whoever waits gets home or sees an error. It holds of the
  screen of the request while that is on show, and not of `setData`, see section 6;
- `NobodyIsForgotten` is the step behind it: a request stops being under way only
  with its screen gone or an error on it, and the error stays;
- `RungIsShown`, `OnlyNilFieldsKill`, `ListAppears`: the list under its race;
  `ListIsComing`, the invariant behind the last, is proved, and no standing run
  checks it;
- `SameRoomSameParties`: two phones are in one room exactly if their calls are of the
  same two parties, whoever called, for video or audio, answered early or long
  after; or of uids with the same characters, each as often: strangers meet by no
  other accident;
- `WaitingCallerIsMet`: whoever answers a call that is still there meets the other
  side, also if each has called the other, or one of them for audio only;
- `PartyOfThisPhone`: a phone is only in rooms of somebody who has used it;
- `NoCallOffScreen`: a call without its screen needs an `openRoom` or a swipe; of the
  rooms that are left so, `PartyOfThisPhone` and `SameRoomSameParties` speak.

Each property of a passing run has a mutant: a `Bug_` operator that a plausible
slip would make of the code, under which the run finds that property violated.

## 4. Fairness

`FairSpec` of `CallSession`: the main thread runs `viewDidLoad` and the main
queue's callbacks when it can; URLSession completes each request, if only by a
timeout; `startCapture` calls its completion; ARC frees what nothing holds; an
SDK that was asked to connect or to disconnect answers. Not assumed: that the
user does anything, that anybody joins, that a connected room ends.
`FairSpec` of `ResourceMap`: Firestore answers each query, with documents or an
error; no fairness on the user. `Fairness` of `Presence`: FirebaseAuth answers each
request and the main queue is served; nothing of the network, for the cloud
functions are not waited for. `FairSpec` of `OnlineList`: the main queue is
served. `Fairness` of `Signalling`: a call being dialled is connected or refused,
as in `CallSession`; no fairness on pushes, users or processes.

## 5. Proofs

All theorems hold for any sets of participants, tracks, documents, rows, phones
and accounts, any uids, and any sets of outcomes. The assumptions are the named
`ASSUME`s of the modules: that nil is none of the values it stands beside
(`NoneIsNil` and the like), and the ranges of the constants. Each is evaluated by
a run.

`CallSessionProofs`: `TypeCorrect`, `ShownVideoIsLive`, `NoVideoIsMissed`,
`OneFeedIsRendered`, `RoomEndsLast`, `CrashesAreThese`, `HangingUpEndsTheCall`,
`ListensToEverybody`, `EndReachesScreen` and `Refinement` (`Spec =>
ImplementsCallLife`). None of the properties is inductive, for the screen's
state makes sense only together with what is still queued between it and the
SDK. `IInv` adds that: `Phases` (no room before `Connect`, nothing has happened
before it is connected), `EndIsLast` (the end of the room is the last callback
of the queue), `RoomHeld`, `FeedsMakeSense` (a queued subscription was one),
`ViewLost` (the outlet is lost only to a video that was shown),
`MembersGetDelegates` and `DelegateComesFirst` (before a live feed's callback in
the queue comes the one that gives its participant a delegate). The proof has
one lemma per handler and one for the SDK's steps, over lemmas on posting a
callback and taking one (`TwilioRoomProofs`). `EndReachesScreen` is inductive
over it: only the SDK ends a room that is held, and it posts in the same step;
only the handler of that callback takes it off the queue, and it lets go of the
room. The refinement uses `Phases` only.

`AudioCallSessionProofs`: `TypeCorrect`, `ButtonFindsRoom`, `Refinement`; here
`Phases` says that there is no room before `Connect` and one ever after.

`ResourceMapProofs`: `TypeCorrect`, `PinsPass`, `SwitchesFilter`,
`UnfilteredIsComplete`, `PinnedOnce`, `LateAnswersAreMissing`. The strengthening
is `FilterInForce`: with the sheet down, what was filtered is still what the
filters select, because filters change only with the sheet up. `Frozen`, for the
last, counts instead: what was filtered lacks at most one of a document for each
late answer, each query is answered once, and the pins of an answered map are
what was filtered.

`PresenceProofs`: `TypeCorrect`, `Refinement` (`Spec => ImplementsSession`),
`WaitersAreAnswered`, `OnlineAreInUse`, `SignedInAreOnline`,
`LaunchTokenIsServed`. `Process` says what is empty without a process, that a
sign-in which completes finds a current user at each of its reads, and that only
such a completion keeps the main thread busy; `Cover` says that every user who is
online, or whose online is on the wire, is announced by a process, stranded, or
has an offline on the wire behind it, unless their presence is doubted.
`WaitersAreAnswered` is an action property: what takes a request from FirebaseAuth
queues its completion in the same step, and what takes a completion off the main
queue goes home or shows an error if its screen is still there.

`SignedInAreOnline` and `LaunchTokenIsServed` are of what the server is told.
`AllTold` follows the wire to its end, for each topic that is not doubted
(`Told`): the last message on it is, or nothing is left on it and the server
already has, that an announced user is online, and this launch's token for a
named one. A topic leaves `doubted` only by a message that is alone on it, which
is why the invariant can be taken up again there. `Newcomers` says why no late
`setData` resets a member: documents are written of accounts that did not exist.

`OnlineListProofs`: `TypeCorrect`, `ShownAreRung`, `KilledByNil`,
`ArrivedIsComing`. `TableOfArray`: what the table was told and drew is of the
array there is, since the array is assigned once and was empty before; that is
what makes its race harmless.

`RoomNamesProofs`, for all strings: `SortedStringSorts` (`Position` is a bijection of
a string's places, hence sorting loses and adds no character, and equal or
smaller ones come before), `SortedAnagramsAreEqual` (were the first of two
sorted anagrams smaller at place k, its first k places would map one-to-one into
the other's first k - 1), and from them `OneRoomForAnagrams` and `RoomOfEither`.

`SignallingProofs`: `TypeCorrect`, `RoomOfTwo`, `CallsAreShown`,
`RoomsOfThisPhone`, and `Refinement` (`Spec => SessionSpec`). `RoomOfTwo` needs
`Named`: every call and ghost is in the room its parties' uids name, whichever
way it was dialled; the theorems on names then say when two names are one.
`RoomsOfThisPhone` needs `Whose`: from the token the server
keeps, over pushes and notifications, to calls and ghosts, every pair of parties
is on a phone on which one of them has signed in. `CallsAreShown` needs
`Settled`.

Every invariant and action property the passing runs check, and each
implementation of an abstract specification, is thus proved. Only model-checked:
liveness under fairness (`VideoIsShown`, `RoomEndIsNoticed`, `CameraIsReleased`,
`MapFillsUp`, `RequestIsAnswered`, `ListAppears`, `WaitingCallerIsMet`), which is out
of the prover's reach; and that each property fails under its mutant.

## 6. Where code and comments disagree

- `call_late_token`: CVC 113 speaks of "the access token that we fetched"; a reply
  later than `sleep(1)` leaves the empty string (line 109).
- `call_another_video`: CVC 358, "Find another Participant video to render, if
  possible": the cleanup just before has set `remoteView` to nil, so it never is
  possible; the attempt ends the process (line 238).
- `call_room_gone`: CVC 191 asserts a room while the button shows; after the SDK
  ended or refused the room there is none.
- `presence_mixed`: LoginViewController 44, "keeps track of users email and uid":
  of two sign-ins in flight the first completion stores its own email and the
  other's uid (lines 59-60).
- `audio_unheard`: CO 196, "Listen for events from all Participants": the method's
  name was changed and the SDK never calls it.

Seen in the models, with no text that promises otherwise: a sheet dismissed
before the query is answered, with a filter checked or with none, freezes the
empty `filteredLocs`, so that this map and later ones have no pins until the
sheet is used again (MapBottomSheetController 43, MapViewController 90-92);
every new map appends all documents to the static array once more; a phone is
rung for everybody who signed in on it last, by token; after a sign-up the user
calls as nobody; the account of an earlier sign-in in the same process stays
online; the offline of a force quit may be overtaken by the online of the
sign-in; the error of `setData` (SignUpViewController 95) is written to a screen
line 98 has replaced; a notification tapped after the caller has left leads to
an empty room; a notification tapped during a call leaves that call running with
no button to end it; a sign-in that succeeds behind the reset screen signs the
user in and brings them neither home nor an error (LoginViewController 85-89 finds
no window); an answer between the reads of lines 61 and 63 puts one user online
and gives the push token to another.

## 7. Not modelled, and why

- The vendored pods, among them Firebase, gRPC and BoringSSL, make up nearly all of
  the repository's code in C, C++ and Objective-C. They are third-party code;
  the models have of them what the app relies on, marked external. The app's
  own code is Swift throughout, and it is what is modelled.
- The cloud functions are not in the repository: their effect on the server's
  users is external, and nondeterministic where nothing says what they do.
- Password reset: one call and one of two labels; no shared state.
- Twilio's media, UIKit layout, the views of annotations, location permission,
  the password pattern, `Settings` (no field is ever assigned), the static
  screens, Xcode's empty tests.
- Cell reuse in the filter sheet, and a new root screen while the sheet is up.
- The call screens inside `Signalling` are `CallLife`, not the detailed sessions: a
  crash of a call screen there is an end of the process.
- Termination during the ten seconds of `applicationWillTerminate` is a kill.

## 8. Running

`tlc -config CallRendering.cfg MCCallSession.tla` and so on for each `.cfg` with
its module, as `PROJECT.json` lists them; `tlapm CallSessionProofs.tla` and so
on for the proofs (a minute or less each).
