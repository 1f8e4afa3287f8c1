\* One app, two users and the admin; every nonce.
SPECIFICATION Spec
CONSTANTS
    FieldPrime = 43
    Order = 31
    GeneratorX = 2
    GeneratorY = 12
    H2 <- ToyH2
    alice = alice
    bob = bob
    admin = admin
    app1 = app1
    Apps = {app1}
    Accounts = {alice, bob, admin}
    Admin = admin
    PublicKeys <- Keys
    Secrets <- SomeSecrets
    Messages = {0}
INVARIANTS
    TypeOK
    VerifiersAgree
    SilentOwnerAccepted
SYMMETRY UsersAlike
CHECK_DEADLOCK FALSE
