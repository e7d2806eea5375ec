CONSTANTS
    s1 = s1  s2 = s2  r1 = r1  r2 = r2  p1 = p1
    Servers = {s1}
    Requests = {r1, r2}
    Home <- OneServer
    Listeners <- Everybody
    Policies = {p1}
    Users = {u1, u2}
    Bodies = {b1, b2}
    Sound = {b1, b2}
    NoBody = NoBody
    NoKey = NoKey
    Required = 2
    Rollouts = {}
    MaxVersion = 2
SPECIFICATION Spec
INVARIANT OneActiveAlways
