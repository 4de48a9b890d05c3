\* Two voters, two votes in progress, a refresh that overlaps both.
CONSTANTS
    Profiles = {1, 2}
    UserId <- DriftedIds
    Requests = {r1, r2}
SPECIFICATION Spec
INVARIANTS TypeOK ShownVoteIsCounted SettledCountsAreCurrent
