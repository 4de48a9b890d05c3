CONSTANTS
    Profiles = {1, 2}
    UserId <- DriftedIds
    Requests = {r1}
SPECIFICATION Spec
PROPERTY OnlyOwnVote
